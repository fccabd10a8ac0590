------------------------------ MODULE KVIndex ------------------------------
(***************************************************************************)
(* The manifests of an index (pkg/collection/index_api.go, iterator.go).   *)
(* A manifest is a sequence of entries, at most one for each first letter  *)
(* and, before them, one with the empty name.  A leaf holds a value; a     *)
(* branch stands for the manifest at this one's path plus its name.  Keys  *)
(* are sequences of letters (numbers).  Counts, creation times and index   *)
(* types are left out.                                                     *)
(***************************************************************************)
EXTENDS Integers, SequencesExt

CONSTANTS None,    \* no value
          Absent   \* what a read of a feed without a manifest gives

Words == Seq(Nat \ {0})

Leaf(name, v) == [name |-> name, kind |-> "leaf", value |-> v]
Branch(name) == [name |-> name, kind |-> "branch", value |-> None]

CommonPrefix(s, t) == LongestCommonPrefix({s, t})

\* The part of s after its prefix p.
After(s, p) == SubSeq(s, Len(p) + 1, Len(s))

\* The order of Go's strings.
Less(s, t) ==
    \E n \in 0 .. Len(s) :
        /\ n < Len(t)
        /\ SubSeq(s, 1, n) = SubSeq(t, 1, n)
        /\ n < Len(s) => s[n + 1] < t[n + 1]

-----------------------------------------------------------------------------
\* Mutant: entries go to the end.
AddLast(es, e) == Append(es, e)

\* addEntryToManifestSortedLexicographically: an entry with an empty name is
\* put first, without a look at the others.
AddSorted(es, e) ==
    LET Larger(f) == f.name # <<>> /\ f.name[1] > e.name[1]
        p == SelectInSeq(es, Larger)
    IN  CASE e.name = <<>> -> <<e>> \o es
          [] e.name # <<>> /\ Contains(es, e) -> es
          [] OTHER -> IF p = 0 THEN Append(es, e) ELSE InsertAt(es, p, e)

-----------------------------------------------------------------------------
\* addOrUpdateStringEntry looks for the first entry that shares letters with
\* the key; there is none for the empty key.
Sharing(es, key) ==
    LET Shares(e) == key # <<>> /\ e.name # <<>> /\ e.name[1] = key[1]
    IN  SelectInSeq(es, Shares)

\* The key is further down, in the manifest of the branch at i.
GoesDown(es, i, key) ==
    i # 0 /\ es[i].kind = "branch" /\ IsPrefix(es[i].name, key)

\* The entry at i has to give way to a branch for its letters and the key's.
Splits(es, i, key) ==
    i # 0 /\ ~GoesDown(es, i, key) /\ es[i] # Leaf(key, es[i].value)

\* The manifest of that branch.
SplitChild(es, i, key, v) ==
    LET p == CommonPrefix(es[i].name, key)
    IN  AddSorted(AddSorted(<<>>, Leaf(After(key, p), v)),
                  [es[i] EXCEPT !.name = After(es[i].name, p)])

\* This manifest with the branch.
SplitParent(es, i, key) ==
    ReplaceAt(es, i, Branch(CommonPrefix(es[i].name, key)))

\* This manifest with the value: in a leaf that is there, or in a new one.
WithLeaf(es, i, key, v) ==
    IF i # 0 THEN ReplaceAt(es, i, Leaf(key, v)) ELSE AddSorted(es, Leaf(key, v))

-----------------------------------------------------------------------------
\* findManifest stops at the first entry that answers it: one beyond the key,
\* the key's leaf, or the branch that leads to it.
Beyond(e, key) == e.name # <<>> /\ (key # <<>> => e.name[1] > key[1])
IsKey(e, key) == e.kind = "leaf" /\ e.name = key
Leads(e, key) == e.kind = "branch" /\ IsPrefix(e.name, key)

\* The index of that entry, 0 when the key is not in the index.
Find(es, key) ==
    LET Answers(e) == Beyond(e, key) \/ IsKey(e, key) \/ Leads(e, key)
        i == SelectInSeq(es, Answers)
    IN  IF i # 0 /\ Beyond(es[i], key) THEN 0 ELSE i

-----------------------------------------------------------------------------
\* seekStringKey also enters a branch that diverges upwards from the key, and
\* passes over a branch longer than the key.
Enters(e, key) ==
    /\ e.kind = "branch"
    /\ \/ IsPrefix(e.name, key)
       \/ (Len(e.name) < Len(key) /\ Less(key, e.name))

Stops(e, key) ==
    \/ Beyond(e, key)
    \/ e.kind = "leaf" /\ (e.name = key \/ (e.name # <<>> /\ Less(key, e.name)))

\* The index of the entry at which a seek stops or which it enters, or 0.
SeekIndex(es, key) ==
    LET Answers(e) == Stops(e, key) \/ Enters(e, key)
    IN  SelectInSeq(es, Answers)

-----------------------------------------------------------------------------
(* An index is a trie: a function from paths to manifests, or Absent.      *)

\* The manifest at p has a branch to the one at q.
Precedes(trie, p, q) ==
    trie[p] # Absent /\ IsPrefix(p, q) /\ Contains(trie[p], Branch(After(q, p)))

\* Branches lead from the root to the manifest at q.
Walked(trie, q) ==
    \E walk \in SUBSET Prefixes(q) :
        q \in walk /\ \A r \in walk : r = <<>> \/ \E p \in walk : Precedes(trie, p, r)

\* The paths a walk for key k reads.
Reached(trie, k) == {p \in Prefixes(k) : Walked(trie, p)}

\* The leaves of key k.
Leaves(trie, k) ==
    UNION {{p} \X {i \in DOMAIN trie[p] : IsKey(trie[p][i], After(k, p))} :
              p \in {q \in Reached(trie, k) : trie[q] # Absent}}
=============================================================================
