------------------------------ MODULE KVStore ------------------------------
(***************************************************************************)
(* One key-value table (pkg/collection/kv.go, index.go): a trie of         *)
(* manifests, each a feed of its own, read and written whole.  A call      *)
(* reads and writes one manifest at a time; in between, other clients run. *)
(* KVDelete, KVSeek and KVGetNext hold openKVTMu to their end; KVPut and   *)
(* KVGet hold it only while they look up the table.  Feeds are registers   *)
(* here; a manifest is at the path that is its name.                       *)
(***************************************************************************)
EXTENDS KVIndex, FiniteSets

CONSTANTS Keys, Values,
          Writers,      \* clients that put and delete
          Readers,      \* clients that get and iterate
          Starts,       \* keys an iteration may start from
          PutsBranchKeys, \* whether a key with an empty name may be put again
          DropsUnderReads, \* whether a table is deleted in the middle of a KVGet
          ListFails,    \* whether the list of tables may not be stored
          MaxWrites,    \* bound on puts, deletes and drops of the table
          MaxReads      \* bound on gets and seeks

Paths == UNION {Prefixes(k) : k \in Keys}
Clients == Writers \cup Readers
Entry ==      [name: Words, kind: {"leaf"}, value: Values]
         \cup [name: Words, kind: {"branch"}, value: {None}]

ASSUME KVAssumption ==
    /\ Keys \subseteq Words \ {<<>>} /\ Keys # {} /\ IsFiniteSet(Keys)
    /\ Starts \subseteq Words
    /\ None \notin Values
    /\ Absent \notin Seq(Entry)
    /\ Writers \cap Readers = {}
    /\ PutsBranchKeys \in BOOLEAN /\ DropsUnderReads \in BOOLEAN
    /\ ListFails \in BOOLEAN
    /\ MaxWrites \in Nat /\ MaxReads \in Nat

VARIABLES feed,     \* path -> entries of the manifest there, or Absent
          listed,   \* whether the list of tables names the table
          open,     \* whether openKVTables holds it
          call,     \* call in progress of each client
          itr,      \* kv.iterator
          writes,   \* puts, deletes and drops begun so far
          reads,    \* gets and seeks begun so far
          content,  \* history: the table as a map (ContentOf the feed)
          answer,   \* history: what KVGet answers, in the state in which it ends
          may,      \* history: values a read's key had since it began
          due       \* history: keys in the table since the last KVSeek began, and
                    \* those since kv.iterator's began that it has not given out

vars == <<feed, listed, open, call, itr, writes, reads, content, answer,
          may, due>>

\* No call.  Otherwise: the operation, its key and value, the path of the
\* manifest to read next and what is left of the key there, the manifests to
\* store, in order, and the stack of a seek.
Idle == [op |-> "idle", key |-> <<>>, value |-> None, path |-> <<>>,
         rest |-> <<>>, todo |-> <<>>, stack |-> <<>>]

NoIterator == [start |-> <<>>, stack |-> <<>>, last |-> <<>>, done |-> FALSE]

NoAnswer == [key |-> None, value |-> None]

-----------------------------------------------------------------------------
\* The table as a map.
ContentOf(trie) ==
    [k \in Keys |->
        IF Leaves(trie, k) = {} THEN None
        ELSE LET l == CHOOSE l \in Leaves(trie, k) : \A m \in Leaves(trie, k) : l[2] <= m[2]
             IN  trie[l[1]][l[2]].value]

Present == {k \in Keys : content[k] # None}

\* The histories follow every step.
Remember ==
    /\ content' = IF feed' = feed THEN content ELSE ContentOf(feed')
    /\ may' = [r \in Readers |->
                 IF call'[r].op # "get" THEN {}
                 ELSE (IF call[r].op = "get" THEN may[r] ELSE {})
                          \cup {content'[call'[r].key]}]
    /\ LET seek == IF \A r \in Readers : call'[r].op # "seek" THEN {}
                   ELSE IF \E r \in Readers : call[r].op = "seek"
                   THEN due.seek \cap Present' ELSE Present'
           made == itr' # itr /\ \E r \in Readers : call[r].op = "seek"
       IN  due' = [seek |-> seek,
                   itr |-> (IF made THEN due.seek ELSE due.itr \ {itr'.last})
                              \cap IF itr' = NoIterator THEN {} ELSE Present']

Init ==
    /\ feed = [p \in Paths |-> Absent]
    /\ listed = FALSE /\ open = FALSE
    /\ call = [c \in Clients |-> Idle]
    /\ itr = NoIterator
    /\ writes = 0 /\ reads = 0
    /\ content = [k \in Keys |-> None]
    /\ answer = NoAnswer
    /\ may = [r \in Readers |-> {}]
    /\ due = [seek |-> {}, itr |-> {}]

-----------------------------------------------------------------------------
\* openKVTMu is taken: these calls hold it to their end.
Locked == \E c \in Clients : call[c].op \in {"delete", "drop", "seek", "next"}

\* A call begins: it finds the table in openKVTables.
Begin(c, new) ==
    /\ call[c] = Idle
    /\ open /\ ~Locked
    /\ call' = [call EXCEPT ![c] = new]

End(c) == call' = [call EXCEPT ![c] = Idle]

\* The call goes on at the branch b of the manifest it has read.
Descend(c, b) ==
    call' = [call EXCEPT ![c].path = @ \o b.name, ![c].rest = After(@, b.name)]

Change == writes < MaxWrites /\ writes' = writes + 1
Read == reads < MaxReads /\ reads' = reads + 1

Unchanged == UNCHANGED <<feed, listed, open, itr, writes, reads>>

\* CreateKVTable is refused when the list has the name, or there is an index;
\* else it creates the index and then stores the list.
CreateKVTable(c) ==
    /\ call[c] = Idle
    /\ ~listed /\ feed[<<>>] = Absent
    /\ feed' = [feed EXCEPT ![<<>>] = <<>>]
    /\ call' = [call EXCEPT ![c] = [Idle EXCEPT !.op = "create"]]
    /\ UNCHANGED <<listed, open, itr, writes, reads>>

\* DeleteKVTable erases the root manifest only, and then stores the list.
DeleteKVTable(c) ==
    /\ call[c] = Idle /\ ~Locked
    /\ listed /\ feed[<<>>] # Absent
    /\ DropsUnderReads \/ \A r \in Readers : call[r].op # "get"
    /\ Change
    /\ feed' = [feed EXCEPT ![<<>>] = Absent]
    /\ open' = FALSE
    /\ call' = [call EXCEPT ![c] = [Idle EXCEPT !.op = "drop"]]
    /\ UNCHANGED <<listed, itr, reads>>

storeKVTables(c, ok) ==
    /\ call[c].op \in {"create", "drop"}
    /\ ok \/ ListFails
    /\ listed' = IF ok THEN call[c].op = "create" ELSE listed
    /\ End(c)
    /\ UNCHANGED <<feed, open, itr, writes, reads>>

\* Mutant: an index is enough, the list is not looked at.
OpenKVTableByIndex ==
    /\ feed[<<>>] # Absent
    /\ ~open /\ ~Locked
    /\ open' = TRUE
    /\ UNCHANGED <<feed, listed, call, itr, writes, reads>>

OpenKVTable ==
    /\ listed /\ feed[<<>>] # Absent
    /\ ~open /\ ~Locked
    /\ open' = TRUE
    /\ UNCHANGED <<feed, listed, call, itr, writes, reads>>

-----------------------------------------------------------------------------
KVPut(c, k, v) ==
    /\ Change
    /\ Begin(c, [Idle EXCEPT !.op = "put", !.key = k, !.value = v, !.rest = k])
    /\ PutsBranchKeys \/ \A l \in Leaves(feed, k) : l[1] # k
    /\ UNCHANGED <<feed, listed, open, itr, reads>>

\* The manifests a put stores: the child of a split before its parent.
PutManifests(p, es, i, key, v) ==
    IF Splits(es, i, key)
    THEN <<[path |-> p \o CommonPrefix(es[i].name, key),
            entries |-> SplitChild(es, i, key, v)],
           [path |-> p, entries |-> SplitParent(es, i, key)]>>
    ELSE <<[path |-> p, entries |-> WithLeaf(es, i, key, v)]>>

\* addOrUpdateStringEntry, from reading a manifest to the next read or store.
putRead(c) ==
    LET p == call[c].path
        es == feed[p]
        i == Sharing(es, call[c].rest)
    IN  /\ call[c].op = "put" /\ call[c].todo = <<>>
        /\ \/ es = Absent /\ End(c)
           \/ es # Absent /\ GoesDown(es, i, call[c].rest) /\ Descend(c, es[i])
           \/ /\ es # Absent /\ ~GoesDown(es, i, call[c].rest)
              /\ call' = [call EXCEPT ![c].todo =
                            PutManifests(p, es, i, call[c].rest, call[c].value)]
        /\ Unchanged

KVDelete(c, k) ==
    /\ Change
    /\ Begin(c, [Idle EXCEPT !.op = "delete", !.key = k, !.rest = k])
    /\ UNCHANGED <<feed, listed, open, itr, reads>>

\* Index.Delete.  When the leaf is the last of a branch and its name is empty,
\* the parent is looked for at filepath.Dir of the name, where no manifest is,
\* and the call fails.
deleteRead(c) ==
    LET p == call[c].path
        es == feed[p]
        i == Find(es, call[c].rest)
        Fails == i = 0 \/ (Len(es) = 1 /\ es[1].name = <<>>)
    IN  /\ call[c].op = "delete" /\ call[c].todo = <<>>
        /\ \/ es = Absent /\ End(c)
           \/ es # Absent /\ Fails /\ End(c)
           \/ /\ es # Absent /\ ~Fails /\ Leads(es[i], call[c].rest)
              /\ Descend(c, es[i])
           \/ /\ es # Absent /\ ~Fails /\ IsKey(es[i], call[c].rest)
              /\ call' = [call EXCEPT ![c].todo =
                            <<[path |-> p, entries |-> RemoveAt(es, i)]>>]
        /\ Unchanged

\* Mutant: the parent of a split is stored before its child.
storeLastFirst(c, ok) ==
    LET w == Last(call[c].todo) IN
    /\ call[c].todo # <<>>
    /\ feed' = IF ok THEN [feed EXCEPT ![w.path] = w.entries] ELSE feed
    /\ IF ok /\ Len(call[c].todo) > 1
       THEN call' = [call EXCEPT ![c].todo = Front(@)]
       ELSE End(c)
    /\ UNCHANGED <<listed, open, itr, writes, reads>>

\* Mutant: a manifest that is in the way is kept.
storeKeeps(c, ok) ==
    LET w == Head(call[c].todo) IN
    /\ call[c].todo # <<>>
    /\ feed' = IF ok /\ (Len(call[c].todo) = 1 \/ feed[w.path] = Absent)
               THEN [feed EXCEPT ![w.path] = w.entries] ELSE feed
    /\ IF ok /\ Len(call[c].todo) > 1
       THEN call' = [call EXCEPT ![c].todo = Tail(@)]
       ELSE End(c)
    /\ UNCHANGED <<listed, open, itr, writes, reads>>

\* storeManifest or updateManifest.  The call ends with the last manifest, or
\* with the first that is not stored.
store(c, ok) ==
    LET w == Head(call[c].todo) IN
    /\ call[c].todo # <<>>
    /\ feed' = IF ok THEN [feed EXCEPT ![w.path] = w.entries] ELSE feed
    /\ IF ok /\ Len(call[c].todo) > 1
       THEN call' = [call EXCEPT ![c].todo = Tail(@)]
       ELSE End(c)
    /\ UNCHANGED <<listed, open, itr, writes, reads>>

-----------------------------------------------------------------------------
KVGet(r, k) ==
    /\ Begin(r, [Idle EXCEPT !.op = "get", !.key = k, !.rest = k])
    /\ Read
    /\ UNCHANGED <<feed, listed, open, itr, writes>>

Found(r, v) ==
    /\ answer' = [key |-> call[r].key, value |-> v]
    /\ End(r)

\* findManifest, one manifest.  A root that cannot be read is an empty table.
getRead(r) ==
    LET es == feed[call[r].path]
        i == IF es = Absent THEN 0 ELSE Find(es, call[r].rest)
    IN  /\ call[r].op = "get"
        /\ \/ i = 0 /\ Found(r, None)
           \/ i # 0 /\ IsKey(es[i], call[r].rest) /\ Found(r, es[i].value)
           \/ /\ i # 0 /\ Leads(es[i], call[r].rest) /\ Descend(r, es[i])
              /\ answer' = NoAnswer
        /\ UNCHANGED <<feed, listed, open, itr, writes, reads>>

\* KVSeek.  It replaces kv.iterator only when it succeeds.
KVSeek(r, s) ==
    /\ Begin(r, [Idle EXCEPT !.op = "seek", !.key = s, !.rest = s])
    /\ Read
    /\ UNCHANGED <<feed, listed, open, itr, writes>>

\* A manifest and the entries of it that are still to come (currentIndex).
Level(p, es) == [path |-> p, left |-> es]

Iterate(r, stack) ==
    /\ itr' = [start |-> call[r].key, stack |-> stack, last |-> <<>>, done |-> FALSE]
    /\ End(r)

\* seekStringKey, one manifest.
seekRead(r) ==
    LET p == call[r].path
        es == feed[p]
        key == call[r].rest
        i == SeekIndex(es, key)
        stack == call[r].stack
    IN  /\ call[r].op = "seek"
        /\ \/ es = Absent /\ End(r) /\ UNCHANGED itr
           \/ es # Absent /\ call[r].key = <<>> /\ Iterate(r, <<Level(p, es)>>)
           \/ /\ es # Absent /\ call[r].key # <<>>
              /\ \/ i = 0 /\ stack = <<>> /\ End(r) /\ UNCHANGED itr
                 \/ i = 0 /\ stack # <<>> /\ Iterate(r, stack)
                 \/ /\ i # 0 /\ Stops(es[i], key)
                    /\ Iterate(r, Append(stack, Level(p, SubSeq(es, i, Len(es)))))
                 \/ /\ i # 0 /\ ~Stops(es[i], key)
                    /\ call' = [call EXCEPT
                         ![r].path = @ \o es[i].name,
                         ![r].rest = After(@, es[i].name),
                         ![r].stack = Append(@, Level(p, SubSeq(es, i + 1, Len(es))))]
                    /\ UNCHANGED itr
        /\ UNCHANGED <<feed, listed, open, writes, reads>>

\* Mutant: only the manifest on top of the stack is looked at.
UnexhaustedTop(stack) == {j \in {Len(stack)} : stack[j].left # <<>>}

\* The levels of the stack that have entries left.
Unexhausted(stack) == {j \in DOMAIN stack : stack[j].left # <<>>}

Stop(r) == itr' = [itr EXCEPT !.done = TRUE] /\ End(r)

\* nextStringKey, one entry: exhausted manifests are popped, a leaf is given
\* out, and the manifest of a branch is pushed.
NextEntry(r) ==
    LET levels == Unexhausted(itr.stack)
        n == CHOOSE j \in levels : \A m \in levels : m <= j
        top == itr.stack[n]
        e == Head(top.left)
        rest == Append(SubSeq(itr.stack, 1, n - 1), [top EXCEPT !.left = Tail(@)])
        child == top.path \o e.name
    IN  /\ IF levels = {} THEN Stop(r)
           ELSE \/ /\ e.kind = "leaf"
                   /\ itr' = [itr EXCEPT !.stack = rest, !.last = child]
                   /\ End(r)
                \/ e.kind = "branch" /\ feed[child] = Absent /\ Stop(r)
                \/ /\ e.kind = "branch" /\ feed[child] # Absent
                   /\ itr' = [itr EXCEPT !.stack = Append(rest, Level(child, feed[child]))]
                   /\ call' = [call EXCEPT ![r] = [Idle EXCEPT !.op = "next"]]
        /\ UNCHANGED <<feed, listed, open, writes, reads>>

KVGetNext(r) ==
    /\ call[r] = Idle /\ open /\ ~Locked
    /\ itr.stack # <<>> /\ ~itr.done
    /\ NextEntry(r)

\* The rest of a KVGetNext that has come to a branch.
nextRead(r) == call[r].op = "next" /\ NextEntry(r)

\* The process stops; what it had in memory is gone.
Crash ==
    /\ ListFails \/ \A c \in Clients : call[c].op \notin {"create", "drop"}
    /\ call' = [c \in Clients |-> Idle]
    /\ open' = FALSE
    /\ itr' = NoIterator
    /\ UNCHANGED <<feed, listed, writes, reads>>

Step ==
    \/ \E c \in Writers :
         \/ CreateKVTable(c) \/ DeleteKVTable(c)
         \/ \E k \in Keys : KVDelete(c, k) \/ \E v \in Values : KVPut(c, k, v)
         \/ putRead(c) \/ deleteRead(c)
         \/ \E ok \in BOOLEAN : store(c, ok) \/ storeKVTables(c, ok)
    \/ \E r \in Readers :
         \/ \E k \in Keys : KVGet(r, k)
         \/ \E s \in Starts : KVSeek(r, s)
         \/ seekRead(r) \/ KVGetNext(r) \/ nextRead(r)
    \/ OpenKVTable
    \/ Crash

Next ==
    /\ \/ Step /\ answer' = NoAnswer
       \/ \E r \in Readers : getRead(r)
    /\ Remember

Spec == Init /\ [][Next]_vars

-----------------------------------------------------------------------------
\* The live part of the trie.
Live == {p \in Paths : Walked(feed, p)}

IsEntry(p, e) ==
    \/ e.kind = "leaf" /\ e.value \in Values /\ p \o e.name \in Keys
    \/ e.kind = "branch" /\ e.name # <<>> /\ p \o e.name \in Paths

\* Every manifest that was ever stored, dead ones included, has leaves that
\* spell keys and branches that lead towards one (Entry of entry.go); answers
\* and histories are about keys and their values.
TypeOK ==
    /\ \A p \in Paths : feed[p] = Absent
                          \/ \A i \in DOMAIN feed[p] : IsEntry(p, feed[p][i])
    /\ listed \in BOOLEAN /\ open \in BOOLEAN
    /\ \A c \in Clients : call[c] = Idle \/ call[c].path \in Paths
    /\ answer = NoAnswer \/ answer \in [key: Keys, value: Values \cup {None}]
    /\ may \in [Readers -> SUBSET (Values \cup {None})]
    /\ due \in [seek: SUBSET Keys, itr: SUBSET Keys]

Letter(e) == IF e.name = <<>> THEN 0 ELSE e.name[1]

\* "Sorted lexicographically": findManifest stops at the first letter that is
\* too large and puts share a branch by its letters, so in the live part of
\* the trie no two entries of a manifest share a first letter, they are in
\* order, and every branch has its manifest.
TrieWellFormed ==
    \A p \in Live : feed[p] # Absent =>
        \A i \in DOMAIN feed[p] :
            /\ feed[p][i].kind = "branch" => feed[p \o feed[p][i].name] # Absent
            /\ i > 1 => Letter(feed[p][i - 1]) < Letter(feed[p][i])

\* The index and the list of tables are changed one after the other, and the
\* second change may fail or never come (kv.go:99, 127): a name is left without
\* an index, or an index without a name.  Such a table is nobody's: one that
\* openKVTables holds, which puts and gets no longer look up in the list, is
\* named by it and has its root.
OpenTableIsThere == open => listed /\ feed[<<>>] # Absent

\* An iteration gives out the keys from its start on, in order and each once,
\* whatever is put and deleted and whichever branches are made meanwhile.
IterationInOrder ==
    [][(/\ itr' # itr /\ itr' # NoIterator /\ ~itr'.done
        /\ \A r \in Readers : call[r].op # "seek" /\ call'[r].op # "next")
       => Less(itr.last, itr'.last) /\ ~Less(itr'.last, itr.start)]_vars

\* When KVGetNext has no more elements, every key from the start on that was
\* in the table all the time has been given out.
IterationComplete == itr.done => \A k \in due.itr : Less(k, itr.start)

\* The trie is a map, although puts are several stores and reads several reads.
Map == INSTANCE KVMap WITH
           asked <- [r \in Readers |-> 
                      [key |-> IF call[r].op = "get" THEN call[r].key ELSE None,
                       may |-> may[r]]]
IsKVMap == Map!Spec
=============================================================================
