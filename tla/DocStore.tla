------------------------------ MODULE DocStore ------------------------------
(***************************************************************************)
(* One mutable document database (pkg/collection/document.go): an index    *)
(* per field, "id" among them, from a key to references of documents. A    *)
(* call changes the indexes one after the other, in the order of Go maps,  *)
(* and stops at the first error; here it is one step that does all of them *)
(* or stops after some. An index is a function: KVIndex has its tries.     *)
(***************************************************************************)
EXTENDS Naturals, Sequences, FiniteSets

CONSTANTS Ids, Values,
          Simple,         \* the fields with a string or number index, but "id"
          Others,         \* the fields with a map or list index
          Tested,         \* those with a string index, whose keys Find tests, "id" among them
          Behind,         \* pairs of a value and a key that sorts behind it
          Matches,        \* pairs of a value and a key it matches as a regular expression
          Docs,           \* the documents clients put
          MayFail,        \* whether a store or a download may fail
          Distinct,       \* whether clients keep to MayBePut
          MaxRefs,        \* bound on the documents uploaded
          None, Unknown

VARIABLES listed,    \* whether the schema is in the list of databases
          made,      \* the indexes there are
          index,     \* field and key -> the references of its entry, in order
          sealed,    \* the indexes whose root manifest says they are not mutable
          docs,      \* reference -> document, or None when it was deleted
          opened,    \* None, or what sealed was when the database was opened
          batch,     \* None, or the entries of the batch in memory
          failed,    \* history: some call stopped half-way
          acked      \* history: id -> the document last put, None, or Unknown

vars == <<listed, made, index, sealed, docs, opened, batch, failed, acked>>

Fields == {"id"} \cup Simple \cup Others
AllEntries == ({"id"} \X Ids) \cup ((Simple \cup Others) \X Values)
Nothing == [e \in AllEntries |-> <<>>]

\* A document may lack a field of Others (None); Put tests only the simple ones.
Lacks(d) == {f \in Others : d.at[f] = None}
Entries(d) == {<<"id", d.id>>} \cup
              UNION {{f} \X d.at[f] : f \in (Simple \cup Others) \ Lacks(d)}
SimpleEntries(d) == {e \in Entries(d) : e[1] \notin Others}

\* The entries done when a call stops: fields in any order, one of them in part.
DoneBefore(es) ==
    {S \in SUBSET es :
        \A e \in S, f \in es \ S : e[1] = f[1] => \A g \in S, h \in es \ S : g[1] = h[1] => g[1] = e[1]}

Without(entries, es) == [e \in AllEntries |-> IF e \in es THEN <<>> ELSE entries[e]]

\* Mutant: the id is appended as the other keys are.
AppendsAll(entries, es, r) ==
    [e \in AllEntries |-> IF e \in es THEN Append(entries[e], r) ELSE entries[e]]

\* Mutant: no key is appended, as the id is not.
ReplacesAll(entries, es, r) == [e \in AllEntries |-> IF e \in es THEN <<r>> ELSE entries[e]]

With(entries, es, r) ==
    [e \in AllEntries |-> IF e \notin es THEN entries[e]
                          ELSE IF e[1] = "id" THEN <<r>> ELSE Append(entries[e], r)]

Init ==
    /\ listed = FALSE /\ made = {} /\ sealed = {} /\ index = Nothing
    /\ docs = <<>> /\ opened = None /\ batch = None
    /\ failed = FALSE /\ acked = [i \in Ids |-> None]

-----------------------------------------------------------------------------
IsDBOpened == opened # None

\* Bound: one failure of a store or a download in the life of a database.
CanFail == MayFail /\ ~failed

\* CreateIndex refuses an index that is there; "id" is created first.
CreateDocumentDB ==
    /\ ~IsDBOpened /\ ~listed
    /\ \E S \in SUBSET Fields :
          /\ S \cap made = {} /\ (S # {} => "id" \in S)
          /\ CanFail \/ S = Fields \/ made \cap (Fields \ S) # {}
          /\ made' = made \cup S /\ sealed' = sealed \ S
          /\ listed' \in {FALSE} \cup {S = Fields}
          /\ listed' \/ CanFail \/ S # Fields
    /\ failed' = (failed \/ ~listed')
    /\ UNCHANGED <<index, docs, opened, batch, acked>>

OpenDocumentDB ==
    /\ ~IsDBOpened /\ listed /\ made = Fields
    /\ opened' = sealed
    /\ UNCHANGED <<listed, made, index, sealed, docs, batch, failed, acked>>

\* The pod is closed: the next Document starts with no open database.
ClosePod ==
    /\ IsDBOpened
    /\ opened' = None /\ batch' = None
    /\ UNCHANGED <<listed, made, index, sealed, docs, failed, acked>>

\* DeleteDocumentDB opens the database if need be, deletes the simple indexes before
\* the others, and stores the list. The documents stay where they are.
DeleteDocumentDB ==
    /\ listed /\ batch = None /\ (IsDBOpened \/ made = Fields)
    /\ opened' = None
    /\ \E S \in SUBSET made :
          /\ S \cap Others # {} => made \ Others \subseteq S
          /\ made' = made \ S
          /\ index' = Without(index, {e \in AllEntries : e[1] \in S})
          /\ CanFail \/ S = made
    /\ listed' \in {TRUE} \cup {made' # {}}
    /\ ~listed' \/ CanFail
    /\ failed' = listed'
    /\ acked' = [i \in Ids |-> IF listed' THEN Unknown ELSE None]
    /\ UNCHANGED <<sealed, docs, batch>>

-----------------------------------------------------------------------------
\* Stopping at the first index that refuses (sealed), lacks the entry, or fails.
StopsAt(entries, es, S) ==
    /\ S # es
    /\ \A e \in S : entries[e] # <<>> /\ e[1] \notin opened
    /\ CanFail \/ \E e \in es \ S : entries[e] = <<>> \/ e[1] \in opened

Removable(entries, es) == \A e \in es : entries[e] # <<>> /\ e[1] \notin opened

Fails(i) ==
    /\ failed' = TRUE
    /\ acked' = [acked EXCEPT ![i] = Unknown]

\* Whether the document the "id" index has can be read: a batch may have deleted it.
IsThere(i) == index[<<"id", i>>] # <<>> /\ docs[index[<<"id", i>>][1]] # None

\* Del of a document that is there: the entries of its simple fields, each with
\* all its references, then the document.
Deletes(i) ==
    LET r == index[<<"id", i>>][1]
        es == SimpleEntries(docs[r])
    IN  \/ /\ Removable(index, es)
           /\ index' = Without(index, es)
           /\ docs' = [docs EXCEPT ![r] = None]
           /\ acked' = [acked EXCEPT ![i] = None]
           /\ UNCHANGED failed
        \/ \E S \in SUBSET es :
             /\ StopsAt(index, es, S) \/ (S = es /\ Removable(index, es) /\ CanFail)
             /\ index' = Without(index, S)
             /\ Fails(i) /\ UNCHANGED docs

Del(i) ==
    /\ IsDBOpened /\ batch = None
    /\ \/ IsThere(i) /\ Deletes(i)
       \/ /\ index[<<"id", i>>] = <<>>
          /\ acked' = [acked EXCEPT ![i] = None] /\ UNCHANGED <<index, docs, failed>>
    /\ UNCHANGED <<listed, made, sealed, opened, batch>>

\* A client that gives no two documents one key of an index Del takes entries from.
MayBePut(d) ==
    Distinct => \A i \in Ids \ {d.id} : acked[i] \in Docs =>
        LET common == Entries(acked[i]) \cap Entries(d) IN
        IF batch = None THEN \A e \in common : e[1] \in Others ELSE common = {}

\* The new document's entries, after those of an old one were taken out: a field
\* that is missing makes the call panic, any index may refuse.
Inserts(d, entries, documents) ==
    LET r == Len(documents) + 1
        es == Entries(d)
    IN  /\ docs' = Append(documents, d)
        /\ \/ /\ Lacks(d) = {} /\ opened = {}
              /\ index' = With(entries, es, r)
              /\ acked' = [acked EXCEPT ![d.id] = d]
           \/ \E S \in DoneBefore(es) :
                /\ \A e \in S : e[1] \notin opened
                /\ S # es \/ Lacks(d) # {}
                /\ CanFail \/ Lacks(d) # {} \/ \E e \in es \ S : e[1] \in opened
                /\ index' = With(entries, S, r)
                /\ acked' = [acked EXCEPT ![d.id] = Unknown]

\* Put of a new document. Any error of idIndex.Get is taken for "not there".
PutNew(d) ==
    /\ IsDBOpened /\ batch = None /\ Len(docs) < MaxRefs /\ MayBePut(d)
    /\ index[<<"id", d.id>>] = <<>> \/ CanFail
    /\ Inserts(d, index, docs)
    /\ failed' = (failed \/ index[<<"id", d.id>>] # <<>> \/ acked'[d.id] = Unknown)
    /\ UNCHANGED <<listed, made, sealed, opened, batch>>

\* Put over an old one: Del, then as above.
PutOver(d) ==
    LET old == index[<<"id", d.id>>]
        es == SimpleEntries(docs[old[1]])
    IN  /\ IsDBOpened /\ batch = None /\ Len(docs) < MaxRefs /\ MayBePut(d)
        /\ IsThere(d.id)
        /\ \/ /\ Removable(index, es)
              /\ Inserts(d, Without(index, es), [docs EXCEPT ![old[1]] = None])
              /\ failed' = (failed \/ acked'[d.id] = Unknown)
           \/ \E S \in SUBSET es :
                /\ StopsAt(index, es, S)
                /\ index' = Without(index, S)
                /\ Fails(d.id) /\ UNCHANGED docs
        /\ UNCHANGED <<listed, made, sealed, opened, batch>>

-----------------------------------------------------------------------------
\* CreateDocBatch means to refuse a database with documents in it, but Find("")
\* never finds one. Here clients load into an empty database only.
CreateDocBatch ==
    /\ IsDBOpened /\ batch = None /\ index = Nothing
    /\ batch' = Nothing
    /\ UNCHANGED <<listed, made, index, sealed, docs, opened, failed, acked>>

\* DocBatchPut takes an old document's entries out of the batch, and stores the root
\* manifests of the fields it puts, made without the mark that they are mutable.
DocBatchPut(d) ==
    LET old == batch[<<"id", d.id>>]
        gone == IF old = <<>> THEN {} ELSE Entries(docs[old[1]])
        documents == IF old = <<>> THEN docs ELSE [docs EXCEPT ![old[1]] = None]
        Stored(S, e) == e[1] \in {f[1] : f \in S}
    IN  /\ batch # None /\ Len(docs) < MaxRefs /\ MayBePut(d)
        /\ \A e \in gone : batch[e] # <<>>
        /\ old # <<>> => Lacks(docs[old[1]]) = {}
        /\ \E S \in DoneBefore(Entries(d)) :
              /\ CanFail \/ S = Entries(d)
              /\ batch' = With(Without(batch, gone), S, Len(docs) + 1)
              /\ index' = [e \in AllEntries |-> IF Stored(S, e) THEN batch'[e] ELSE index[e]]
              /\ sealed' = sealed \cup {e[1] : e \in S}
              /\ IF S = Entries(d) THEN acked' = [acked EXCEPT ![d.id] = d] /\ UNCHANGED failed
                 ELSE Fails(d.id)
        /\ docs' = Append(documents, d)
        /\ UNCHANGED <<listed, made, opened>>

\* DocBatchWrite stores the manifests of the batch once more. It refuses a batch with a
\* field that has no entry; the request that made the batch ends all the same.
DocBatchWrite ==
    /\ batch # None
    /\ batch' = None
    /\ UNCHANGED <<listed, made, index, sealed, docs, opened, failed, acked>>

Next ==
    \/ CreateDocumentDB \/ OpenDocumentDB \/ ClosePod \/ DeleteDocumentDB
    \/ CreateDocBatch \/ DocBatchWrite
    \/ \E i \in Ids : Del(i)
    \/ \E d \in Docs : PutNew(d) \/ PutOver(d) \/ DocBatchPut(d)

Spec == Init /\ [][Next]_vars

-----------------------------------------------------------------------------
Get(i) ==
    LET refs == index[<<"id", i>>] IN
    IF refs = <<>> THEN None ELSE docs[refs[1]]

\* The documents of one key that can be downloaded: those deleted meanwhile are not.
Found(e) == {docs[index[e][k]] : k \in DOMAIN index[e]} \ {None}

\* Where the iterator of Find may stand after one Next: at the value's own key or, if it
\* has no entry, at one behind it (KVIndex has the seek; it passes over some branches).
Landings(e) ==
    IF index[e] # <<>> THEN {e}
    ELSE {g \in AllEntries : g[1] = e[1] /\ <<e[2], g[2]>> \in Behind /\ index[g] # <<>>}

Passes(e, g) == e[1] \in Tested => <<e[2], g[2]>> \in Matches

\* What Find may answer to "field = value". Numbers, maps and lists have no test of the key.
Find(e) ==
    {IF Passes(e, g) THEN Found(g) ELSE {} : g \in Landings(e)}
        \cup (IF index[e] = <<>> THEN {{}} ELSE {})

\* Get gives the document that was put last under its id, and none after Del, through
\* calls that stop half-way and batches (Put, Del, DocBatchPut).
GetGivesLatest == IsDBOpened => \A i \in Ids : acked[i] # Unknown => Get(i) = acked[i]

\* The documents that clients have under a key.
Having(e) == {acked[i] : i \in {j \in Ids : acked[j] \in Docs /\ e \in Entries(acked[j])}}

\* Until a call stops half-way, Find gives exactly the documents with the value: none is
\* lost, and none that was replaced comes back. For a value that no document has it gives
\* none, or all those of a key behind it: never a part of them, never a deleted one.
FindsByField ==
    (IsDBOpened /\ ~failed) =>
        \A e \in AllEntries :
            /\ Having(e) # {} /\ Passes(e, e) => Find(e) = {Having(e)}
            /\ \A answer \in Find(e) :
                  \/ answer = {}
                  \/ \E g \in AllEntries : /\ g = e \/ (g[1] = e[1] /\ <<e[2], g[2]>> \in Behind)
                                           /\ Passes(e, g) /\ answer = Having(g)
=============================================================================
