--------------------------- MODULE KVStoreProofs ---------------------------
(***************************************************************************)
(* Proofs about KVStore (pkg/collection/kv.go, index.go, index_api.go):    *)
(* the types for any number of writers, and for one writer that the trie   *)
(* stays well formed, that an open table is in the list and has a root, that*)
(* the table is a map (KVMap), and that iterations give out its keys in    *)
(* order and leave none out.  First come words and manifests, then tries   *)
(* and the map a trie stands for, what each store does to them, the calls, *)
(* and last the iterations: the order of words, the stack of an iterator,  *)
(* and what seeks and KVGetNext leave of it.                               *)
(***************************************************************************)
EXTENDS KVStore, SequenceTheorems, WellFoundedInduction, TLAPS

-----------------------------------------------------------------------------
\* Words: the names of entries, the paths of manifests, the keys.

\* Of numbers there is a least one.
LEMMA LeastNumber ==
    ASSUME NEW S, S \subseteq Nat, S # {}
    PROVE  \E k \in S : \A j \in S : k <= j
<1>1. IsWellFoundedOn(OpToRel(<, Nat), Nat)
  BY NatLessThanWellFounded
<1>2. PICK k \in S : \A j \in S : <<j, k>> \notin OpToRel(<, Nat)
  BY <1>1, WFMin
<1>3. \A j \in S : ~(j < k)
  BY <1>2 DEF OpToRel
<1> QED
  BY <1>3

\* A word, its length and its letters.
LEMMA WordIs ==
    ASSUME NEW s \in Words
    PROVE  /\ Len(s) \in Nat /\ DOMAIN s = 1..Len(s)
           /\ \A i \in 1..Len(s) : s[i] \in Nat \ {0}
           /\ s = <<>> <=> Len(s) = 0
<1>1. s \in Seq(Nat \ {0})
  BY DEF Words
<1> QED
  BY <1>1, LenProperties, EmptySeq, ElementOfSeq

LEMMA EmptyWord == <<>> \in Words /\ Len(<<>>) = 0
  BY EmptySeq DEF Words

\* Words with the same letters are the same.
LEMMA SameWord ==
    ASSUME NEW s \in Words, NEW t \in Words, Len(s) = Len(t),
           \A i \in 1..Len(s) : s[i] = t[i]
    PROVE  s = t
  BY SeqEqual DEF Words

\* A word's first letters.
LEMMA CutIs ==
    ASSUME NEW t \in Words, NEW n \in 0..Len(t)
    PROVE  /\ SubSeq(t, 1, n) \in Words /\ Len(SubSeq(t, 1, n)) = n
           /\ \A i \in 1..n : SubSeq(t, 1, n)[i] = t[i]
<1>1. Len(t) \in Nat /\ n \in Int /\ 1 \in Int /\ \A i \in 1..n : t[i] \in Nat \ {0}
  BY WordIs
<1>2. /\ SubSeq(t, 1, n) \in Seq(Nat \ {0})
      /\ Len(SubSeq(t, 1, n)) = IF 1 <= n THEN n - 1 + 1 ELSE 0
      /\ \A i \in 1..(n - 1 + 1) : SubSeq(t, 1, n)[i] = t[1 + i - 1]
  BY <1>1, SubSeqProperties
<1> QED
  BY <1>1, <1>2 DEF Words

LEMMA PrefixIs ==
    ASSUME NEW s \in Words, NEW t \in Words
    PROVE  IsPrefix(s, t) <=> Len(s) <= Len(t) /\ \A i \in 1..Len(s) : s[i] = t[i]
<1>1. Len(s) \in Nat /\ Len(t) \in Nat
  BY WordIs
<1>2. ASSUME Len(s) <= Len(t)
      PROVE  SubSeq(s, 1, Len(s)) = SubSeq(t, 1, Len(s)) <=> \A i \in 1..Len(s) : s[i] = t[i]
  <2>1. Len(s) \in 0..Len(s) /\ Len(s) \in 0..Len(t)
    BY <1>1, <1>2
  <2>2. /\ SubSeq(s, 1, Len(s)) \in Words /\ Len(SubSeq(s, 1, Len(s))) = Len(s)
        /\ \A i \in 1..Len(s) : SubSeq(s, 1, Len(s))[i] = s[i]
    BY <2>1, CutIs
  <2>3. /\ SubSeq(t, 1, Len(s)) \in Words /\ Len(SubSeq(t, 1, Len(s))) = Len(s)
        /\ \A i \in 1..Len(s) : SubSeq(t, 1, Len(s))[i] = t[i]
    BY <2>1, CutIs
  <2> QED
    BY <2>2, <2>3, SameWord
<1> QED
  BY <1>2 DEF IsPrefix

LEMMA AfterIs ==
    ASSUME NEW s \in Words, NEW p \in Words
    PROVE  /\ After(s, p) \in Words
           /\ Len(p) <= Len(s) => /\ Len(After(s, p)) = Len(s) - Len(p)
                                  /\ \A i \in 1..(Len(s) - Len(p)) : After(s, p)[i] = s[Len(p) + i]
<1> DEFINE m == Len(p) + 1
           n == Len(s)
<1>1. Len(s) \in Nat /\ Len(p) \in Nat /\ m \in Int /\ n \in Int
      /\ \A i \in m..n : s[i] \in Nat \ {0}
  BY WordIs
<1> HIDE DEF m, n
<1>2. /\ SubSeq(s, m, n) \in Seq(Nat \ {0})
      /\ Len(SubSeq(s, m, n)) = IF m <= n THEN n - m + 1 ELSE 0
      /\ \A i \in 1..(n - m + 1) : SubSeq(s, m, n)[i] = s[m + i - 1]
  BY <1>1, SubSeqProperties
<1>3. After(s, p) = SubSeq(s, m, n)
  BY DEF After, m, n
<1>4. ASSUME Len(p) <= Len(s)
      PROVE  /\ Len(After(s, p)) = Len(s) - Len(p)
             /\ \A i \in 1..(Len(s) - Len(p)) : After(s, p)[i] = s[Len(p) + i]
  <2>1. n - m + 1 = Len(s) - Len(p) /\ (m <= n \/ Len(s) - Len(p) = 0)
    BY <1>1, <1>4 DEF m, n
  <2>2. Len(After(s, p)) = Len(s) - Len(p)
    BY <1>1, <1>2, <1>3, <2>1
  <2>3. ASSUME NEW i \in 1..(Len(s) - Len(p))
        PROVE  After(s, p)[i] = s[Len(p) + i]
    <3>1. After(s, p)[i] = s[m + i - 1]
      BY <1>2, <1>3, <2>1
    <3>2. m + i - 1 = Len(p) + i
      BY <1>1 DEF m
    <3> QED
      BY <3>1, <3>2
  <2> QED
    BY <2>2, <2>3
<1> QED
  BY <1>2, <1>3, <1>4 DEF Words

LEMMA ConcatIs ==
    ASSUME NEW s \in Words, NEW t \in Words
    PROVE  /\ s \o t \in Words /\ Len(s \o t) = Len(s) + Len(t)
           /\ \A i \in 1..Len(s) : (s \o t)[i] = s[i]
           /\ \A i \in 1..Len(t) : (s \o t)[Len(s) + i] = t[i]
<1>1. Len(s) \in Nat /\ Len(t) \in Nat
  BY WordIs
<1>2. /\ s \o t \in Seq(Nat \ {0})
      /\ Len(s \o t) = Len(s) + Len(t)
      /\ \A i \in 1 .. Len(s) + Len(t) : (s \o t)[i] =
             IF i <= Len(s) THEN s[i] ELSE t[i - Len(s)]
  BY ConcatProperties DEF Words
<1>3. ASSUME NEW i \in 1..Len(t)
      PROVE  (s \o t)[Len(s) + i] = t[i]
  <2>1. Len(s) + i \in 1 .. Len(s) + Len(t) /\ ~(Len(s) + i <= Len(s)) /\ Len(s) + i - Len(s) = i
    BY <1>1
  <2> QED
    BY <1>2, <2>1
<1>4. ASSUME NEW i \in 1..Len(s)
      PROVE  (s \o t)[i] = s[i]
  BY <1>1, <1>2
<1> QED
  BY <1>2, <1>3, <1>4 DEF Words

\* A prefix and what comes after it make the word.
LEMMA PrefixAndAfter ==
    ASSUME NEW s \in Words, NEW t \in Words, IsPrefix(s, t)
    PROVE  s \o After(t, s) = t
<1>1. /\ Len(s) \in Nat /\ Len(t) \in Nat /\ Len(s) <= Len(t)
      /\ \A i \in 1..Len(s) : s[i] = t[i]
  BY WordIs, PrefixIs
<1>2. /\ After(t, s) \in Words /\ Len(After(t, s)) = Len(t) - Len(s)
      /\ \A i \in 1..(Len(t) - Len(s)) : After(t, s)[i] = t[Len(s) + i]
  BY <1>1, AfterIs
<1>3. /\ s \o After(t, s) \in Words /\ Len(s \o After(t, s)) = Len(s) + (Len(t) - Len(s))
      /\ \A i \in 1..Len(s) : (s \o After(t, s))[i] = s[i]
      /\ \A i \in 1..(Len(t) - Len(s)) : (s \o After(t, s))[Len(s) + i] = After(t, s)[i]
  BY <1>2, ConcatIs
<1>4. ASSUME NEW i \in 1..Len(t)
      PROVE  (s \o After(t, s))[i] = t[i]
  <2>1. CASE i <= Len(s)
    BY <1>1, <1>3, <2>1
  <2>2. CASE i > Len(s)
    <3>1. i - Len(s) \in 1..(Len(t) - Len(s)) /\ Len(s) + (i - Len(s)) = i
      BY <1>1, <2>2
    <3> QED
      BY <1>2, <1>3, <3>1
  <2> QED
    <3>1. i <= Len(s) \/ i > Len(s)
      BY <1>1
    <3> QED
      BY <2>1, <2>2, <3>1, Zenon
<1>5. Len(s \o After(t, s)) = Len(t)
  BY <1>1, <1>3
<1> QED
  BY <1>3, <1>4, <1>5, SameWord

LEMMA ConcatHasPrefix ==
    ASSUME NEW s \in Words, NEW t \in Words
    PROVE  IsPrefix(s, s \o t) /\ After(s \o t, s) = t
<1>1. PICK w \in Words : w = s \o t
  BY ConcatIs
<1>2. /\ Len(w) = Len(s) + Len(t)
      /\ \A i \in 1..Len(s) : w[i] = s[i]
      /\ \A i \in 1..Len(t) : w[Len(s) + i] = t[i]
  BY <1>1, ConcatIs
<1>3. Len(s) \in Nat /\ Len(t) \in Nat
  BY WordIs
<1>4. IsPrefix(s, w)
  <2>1. Len(s) <= Len(w) /\ \A i \in 1..Len(s) : s[i] = w[i]
    BY <1>2, <1>3
  <2> QED
    BY <2>1, PrefixIs
<1>5. PICK v \in Words : v = After(w, s)
  BY AfterIs
<1>6. Len(s) <= Len(w)
  BY <1>2, <1>3
<1>7. /\ Len(v) = Len(w) - Len(s)
      /\ \A i \in 1..(Len(w) - Len(s)) : v[i] = w[Len(s) + i]
  BY <1>5, <1>6, AfterIs
<1>8. Len(w) - Len(s) = Len(t)
  BY <1>2, <1>3
<1>9. v = t
  BY <1>2, <1>7, <1>8, SameWord
<1> QED
  BY <1>1, <1>4, <1>5, <1>9

LEMMA PrefixItself ==
    ASSUME NEW s \in Words
    PROVE  IsPrefix(s, s) /\ IsPrefix(<<>>, s)
  BY PrefixIs, WordIs, EmptyWord

LEMMA PrefixOfPrefix ==
    ASSUME NEW s \in Words, NEW t \in Words, NEW u \in Words, IsPrefix(s, t), IsPrefix(t, u)
    PROVE  IsPrefix(s, u)
<1>1. Len(s) \in Nat /\ Len(t) \in Nat /\ Len(u) \in Nat
  BY WordIs
<1> QED
  BY <1>1, PrefixIs

\* Of two prefixes of a word the shorter is a prefix of the other.
LEMMA PrefixesOfOne ==
    ASSUME NEW s \in Words, NEW t \in Words, NEW u \in Words, IsPrefix(s, u), IsPrefix(t, u),
           Len(s) <= Len(t)
    PROVE  IsPrefix(s, t)
<1>1. Len(s) \in Nat /\ Len(t) \in Nat /\ Len(u) \in Nat
  BY WordIs
<1> QED
  BY <1>1, PrefixIs

LEMMA PrefixAsLong ==
    ASSUME NEW s \in Words, NEW t \in Words, IsPrefix(s, t), Len(t) <= Len(s)
    PROVE  s = t
<1>1. Len(s) \in Nat /\ Len(t) \in Nat
  BY WordIs
<1> QED
  BY <1>1, PrefixIs, SameWord

\* What the prefixes of a word are.
LEMMA PrefixesAre ==
    ASSUME NEW t \in Words
    PROVE  Prefixes(t) = {s \in Words : IsPrefix(s, t)}
<1>1. Len(t) \in Nat
  BY WordIs
<1>2. ASSUME NEW n \in 0..Len(t)
      PROVE  SubSeq(t, 1, n) \in Words /\ IsPrefix(SubSeq(t, 1, n), t)
  <2>1. PICK w \in Words : w = SubSeq(t, 1, n)
    BY CutIs
  <2>2. Len(w) = n /\ \A i \in 1..n : w[i] = t[i]
    BY <2>1, CutIs
  <2>3. IsPrefix(w, t)
    BY <1>1, <2>2, PrefixIs
  <2> QED
    BY <2>1, <2>3
<1>3. ASSUME NEW s \in Words, IsPrefix(s, t)
      PROVE  s \in Prefixes(t)
  <2>1. Len(s) \in 0..Len(t) /\ \A i \in 1..Len(s) : s[i] = t[i]
    BY <1>1, <1>3, WordIs, PrefixIs
  <2>2. SubSeq(t, 1, Len(s)) = s
    <3>1. PICK w \in Words : w = SubSeq(t, 1, Len(s))
      BY <2>1, CutIs
    <3>2. Len(w) = Len(s) /\ \A i \in 1..Len(s) : w[i] = t[i]
      BY <2>1, <3>1, CutIs
    <3>3. w = s
      BY <2>1, <3>2, SameWord
    <3> QED
      BY <3>1, <3>3
  <2> QED
    BY <2>1, <2>2 DEF Prefixes
<1> QED
  BY <1>2, <1>3 DEF Prefixes

\* A word after p lies behind a word after p as the whole words do.
LEMMA AfterKeepsPrefix ==
    ASSUME NEW p \in Words, NEW n \in Words, NEW k \in Words, IsPrefix(p, k)
    PROVE  IsPrefix(n, After(k, p)) <=> IsPrefix(p \o n, k)
<1>1. Len(p) \in Nat /\ Len(n) \in Nat /\ Len(k) \in Nat /\ Len(p) <= Len(k)
      /\ \A i \in 1..Len(p) : p[i] = k[i]
  BY WordIs, PrefixIs
<1>2. PICK a \in Words : a = After(k, p)
  BY AfterIs
<1>3. /\ Len(a) = Len(k) - Len(p)
      /\ \A i \in 1..(Len(k) - Len(p)) : a[i] = k[Len(p) + i]
  BY <1>1, <1>2, AfterIs
<1>4. PICK w \in Words : w = p \o n
  BY ConcatIs
<1>5. /\ Len(w) = Len(p) + Len(n)
      /\ \A i \in 1..Len(p) : w[i] = p[i]
      /\ \A i \in 1..Len(n) : w[Len(p) + i] = n[i]
  BY <1>4, ConcatIs
<1>6. ASSUME IsPrefix(n, a)
      PROVE  IsPrefix(w, k)
  <2>1. Len(n) <= Len(k) - Len(p) /\ \A i \in 1..Len(n) : n[i] = a[i]
    BY <1>3, <1>6, PrefixIs
  <2>2. ASSUME NEW i \in 1..Len(w)
        PROVE  w[i] = k[i]
    <3>1. CASE i <= Len(p)
      BY <1>1, <1>5, <3>1
    <3>2. CASE i > Len(p)
      <4> DEFINE j == i - Len(p)
      <4>1. j \in 1..Len(n) /\ Len(p) + j = i /\ j \in 1..(Len(k) - Len(p))
        BY <1>1, <1>5, <2>1, <3>2
      <4> HIDE DEF j
      <4> QED
        BY <1>3, <1>5, <2>1, <4>1
    <3> QED
      BY <1>1, <1>5, <3>1, <3>2
  <2>3. Len(w) <= Len(k)
    BY <1>1, <1>5, <2>1
  <2> QED
    BY <2>2, <2>3, PrefixIs
<1>7. ASSUME IsPrefix(w, k)
      PROVE  IsPrefix(n, a)
  <2>1. Len(p) + Len(n) <= Len(k) /\ \A i \in 1..(Len(p) + Len(n)) : w[i] = k[i]
    BY <1>5, <1>7, PrefixIs
  <2>2. ASSUME NEW i \in 1..Len(n)
        PROVE  n[i] = a[i]
    <3>1. Len(p) + i \in 1..(Len(p) + Len(n)) /\ i \in 1..(Len(k) - Len(p))
      BY <1>1, <2>1
    <3> QED
      BY <1>3, <1>5, <2>1, <3>1
  <2>3. Len(n) <= Len(a)
    BY <1>1, <1>3, <2>1
  <2> QED
    BY <2>2, <2>3, PrefixIs
<1> QED
  BY <1>2, <1>4, <1>6, <1>7

\* One more step of a walk.
LEMMA AfterTwice ==
    ASSUME NEW p \in Words, NEW n \in Words, NEW k \in Words, IsPrefix(p, k),
           IsPrefix(n, After(k, p))
    PROVE  /\ p \o n \in Words /\ IsPrefix(p \o n, k)
           /\ After(After(k, p), n) = After(k, p \o n)
<1>1. Len(p) \in Nat /\ Len(n) \in Nat /\ Len(k) \in Nat /\ Len(p) <= Len(k)
  BY WordIs, PrefixIs
<1>2. PICK a \in Words : a = After(k, p)
  BY AfterIs
<1>3. /\ Len(a) = Len(k) - Len(p)
      /\ \A i \in 1..(Len(k) - Len(p)) : a[i] = k[Len(p) + i]
  BY <1>1, <1>2, AfterIs
<1>4. PICK w \in Words : w = p \o n
  BY ConcatIs
<1>5. Len(w) = Len(p) + Len(n) /\ IsPrefix(w, k)
  BY <1>4, ConcatIs, AfterKeepsPrefix
<1>6. Len(n) <= Len(a) /\ Len(w) <= Len(k)
  BY <1>2, <1>5, PrefixIs
<1>7. PICK b \in Words : b = After(a, n)
  BY AfterIs
<1>8. /\ Len(b) = Len(a) - Len(n)
      /\ \A i \in 1..(Len(a) - Len(n)) : b[i] = a[Len(n) + i]
  <2>1. Len(n) <= Len(a)
    BY <1>6
  <2> QED
    BY <2>1, <1>7, AfterIs
<1>9. PICK c \in Words : c = After(k, w)
  BY AfterIs
<1>10. /\ Len(c) = Len(k) - Len(w)
       /\ \A i \in 1..(Len(k) - Len(w)) : c[i] = k[Len(w) + i]
  <2>1. Len(w) <= Len(k)
    BY <1>6
  <2> QED
    BY <2>1, <1>9, AfterIs
<1>11. Len(b) = Len(c)
  BY <1>1, <1>3, <1>5, <1>8, <1>10
<1>12. ASSUME NEW i \in 1..Len(b)
       PROVE  b[i] = c[i]
  <2>1. /\ i \in 1..(Len(a) - Len(n)) /\ Len(n) + i \in 1..(Len(k) - Len(p))
        /\ i \in 1..(Len(k) - Len(w)) /\ Len(p) + (Len(n) + i) = Len(w) + i
    BY <1>1, <1>3, <1>5, <1>8
  <2>2. b[i] = a[Len(n) + i] /\ c[i] = k[Len(w) + i]
    BY <1>8, <1>10, <2>1
  <2>3. a[Len(n) + i] = k[Len(p) + (Len(n) + i)]
    BY <1>3, <2>1
  <2> QED
    BY <2>1, <2>2, <2>3
<1>13. b = c
  BY <1>11, <1>12, SameWord
<1>14. After(After(k, p), n) = b
  BY <1>2, <1>7
<1>15. After(k, p \o n) = c
  BY <1>4, <1>9
<1>16. p \o n \in Words /\ IsPrefix(p \o n, k)
  BY <1>4, <1>5
<1> QED
  BY <1>13, <1>14, <1>15, <1>16

LEMMA ConcatThrice ==
    ASSUME NEW s \in Words, NEW t \in Words, NEW u \in Words
    PROVE  (s \o t) \o u = s \o (t \o u)
  BY ConcatAssociative, SMTT(30) DEF Words

\* What two words begin with.
LEMMA CommonPrefixIs ==
    ASSUME NEW s \in Words, NEW t \in Words
    PROVE  LET c == CommonPrefix(s, t) IN
           /\ c \in Words /\ IsPrefix(c, s) /\ IsPrefix(c, t)
           /\ Len(c) < Len(s) /\ Len(c) < Len(t) => s[Len(c) + 1] # t[Len(c) + 1]
           /\ s # <<>> /\ t # <<>> /\ s[1] = t[1] => c # <<>>
<1> DEFINE All == CommonPrefixes({s, t})
           Ends == {d \in Nat : d >= Len(s) \/ d >= Len(t) \/ s[d + 1] # t[d + 1]}
<1>1. All = {p \in Words : IsPrefix(p, s) /\ IsPrefix(p, t)}
  <2>1. UNION {Prefixes(seq) : seq \in {s, t}} = Prefixes(s) \cup Prefixes(t)
    OBVIOUS
  <2> QED
    BY <2>1, PrefixesAre DEF CommonPrefixes
<1>2. Len(s) \in Nat /\ Len(t) \in Nat
  BY WordIs
<1>3. PICK d \in Ends : \A e \in Ends : d <= e
  <2>1. Len(s) \in Ends
    BY <1>2
  <2> HIDE DEF Ends
  <2> QED
    BY <2>1, LeastNumber DEF Ends
<1>4. d \in 0..Len(s) /\ d \in 0..Len(t) /\ d \in Nat
  BY <1>2, <1>3
<1>5. \A e \in Nat : e < d => e < Len(s) /\ e < Len(t) /\ s[e + 1] = t[e + 1]
  <2> SUFFICES ASSUME NEW e \in Nat, e < d PROVE e < Len(s) /\ e < Len(t) /\ s[e + 1] = t[e + 1]
    OBVIOUS
  <2>1. e \notin Ends
    <3> HIDE DEF Ends
    <3> QED
      BY <1>3, <1>4
  <2>2. ~(e >= Len(s)) /\ ~(e >= Len(t)) /\ s[e + 1] = t[e + 1]
    BY <2>1
  <2> QED
    BY <1>2, <2>2
<1>6. PICK w \in Words : Len(w) = d /\ \A i \in 1..d : w[i] = s[i]
  BY <1>4, CutIs
<1>7. \A i \in 1..d : s[i] = t[i]
  <2> SUFFICES ASSUME NEW i \in 1..d PROVE s[i] = t[i]
    OBVIOUS
  <2>1. i - 1 \in Nat /\ i - 1 < d /\ (i - 1) + 1 = i
    BY <1>4
  <2> QED
    BY <1>5, <2>1
<1>8. IsPrefix(w, s) /\ IsPrefix(w, t)
  BY <1>2, <1>4, <1>6, <1>7, PrefixIs
<1>9. ASSUME NEW p \in Words, IsPrefix(p, s), IsPrefix(p, t)
      PROVE  Len(p) <= d
  <2>1. Len(p) \in Nat /\ Len(p) <= Len(s) /\ Len(p) <= Len(t)
        /\ \A i \in 1..Len(p) : p[i] = s[i] /\ p[i] = t[i]
    BY <1>9, WordIs, PrefixIs
  <2>2. SUFFICES ASSUME d < Len(p) PROVE FALSE
    BY <1>4, <2>1
  <2>3. d + 1 \in 1..Len(p)
    BY <1>4, <2>1, <2>2
  <2>4. s[d + 1] = t[d + 1] /\ d < Len(s) /\ d < Len(t)
    BY <1>2, <1>4, <2>1, <2>2, <2>3
  <2> QED
    BY <1>2, <1>3, <1>4, <2>4
<1> DEFINE c == CommonPrefix(s, t)
<1>10. c \in All /\ \A other \in All : Len(other) <= Len(c)
  <2>1. w \in All /\ \A other \in All : Len(other) <= Len(w)
    BY <1>1, <1>6, <1>8, <1>9
  <2>2. c = CHOOSE longest \in All : \A other \in All : Len(other) <= Len(longest)
    BY DEF CommonPrefix, LongestCommonPrefix
  <2> HIDE DEF All, c
  <2> QED
    BY <2>1, <2>2
<1>11. c \in Words /\ IsPrefix(c, s) /\ IsPrefix(c, t) /\ Len(c) = d
  <2>1. w \in All
    BY <1>1, <1>6, <1>8
  <2>2. c \in Words /\ IsPrefix(c, s) /\ IsPrefix(c, t) /\ Len(w) <= Len(c)
    BY <1>1, <1>10, <2>1
  <2>3. Len(c) <= d /\ d <= Len(c)
    BY <1>6, <1>9, <2>2
  <2> QED
    BY <1>4, <2>2, <2>3, WordIs
<1> HIDE DEF All, c
<1>12. Len(c) < Len(s) /\ Len(c) < Len(t) => s[Len(c) + 1] # t[Len(c) + 1]
  BY <1>2, <1>3, <1>4, <1>11
<1>13. s # <<>> /\ t # <<>> /\ s[1] = t[1] => c # <<>>
  <2> SUFFICES ASSUME s # <<>>, t # <<>>, s[1] = t[1], c = <<>> PROVE FALSE
    OBVIOUS
  <2>1. d = 0 /\ Len(s) > 0 /\ Len(t) > 0
    BY <1>2, <1>11, EmptyWord, WordIs
  <2> QED
    BY <1>2, <1>3, <2>1
<1> QED
  BY <1>11, <1>12, <1>13 DEF c

-----------------------------------------------------------------------------
\* Manifests.

Manifests == Seq(Entry)

\* The entries spell keys and lead to paths, from p on.
Spells(p, es) == \A e \in Entry : Contains(es, e) => IsEntry(p, e)

Sorted(es) == \A i, j \in 1..Len(es) : i < j => Letter(es[i]) < Letter(es[j])

\* An entry, and how it is read.
LEMMA EntryIs ==
    ASSUME NEW e \in Entry
    PROVE  /\ e.name \in Words /\ Letter(e) \in Nat
           /\ e.name = <<>> <=> Letter(e) = 0
           /\ e.name # <<>> => e.name[1] = Letter(e) /\ Len(e.name) >= 1
           /\ \/ e.kind = "leaf" /\ e.value \in Values /\ e = Leaf(e.name, e.value)
              \/ e.kind = "branch" /\ e.value = None /\ e = Branch(e.name)
<1>1. e.name \in Words
  BY DEF Entry
<1>2. \/ e.kind = "leaf" /\ e.value \in Values /\ e = Leaf(e.name, e.value)
      \/ e.kind = "branch" /\ e.value = None /\ e = Branch(e.name)
  BY DEF Entry, Leaf, Branch
<1>3. e.name # <<>> => Len(e.name) \in Nat /\ Len(e.name) >= 1 /\ e.name[1] \in Nat \ {0}
  BY <1>1, WordIs
<1> QED
  BY <1>1, <1>2, <1>3 DEF Letter

LEMMA MadeEntries ==
    ASSUME NEW n \in Words
    PROVE  /\ \A v \in Values : Leaf(n, v) \in Entry
           /\ Branch(n) \in Entry
           /\ \A v : Leaf(n, v).name = n /\ Leaf(n, v).kind = "leaf" /\ Leaf(n, v).value = v
           /\ Branch(n).name = n /\ Branch(n).kind = "branch"
  BY DEF Entry, Leaf, Branch

LEMMA ManifestIs ==
    ASSUME NEW es \in Manifests
    PROVE  /\ Len(es) \in Nat /\ DOMAIN es = 1..Len(es)
           /\ \A i \in 1..Len(es) : es[i] \in Entry
  BY LenProperties, ElementOfSeq DEF Manifests

\* A piece of a manifest.
LEMMA PieceIs ==
    ASSUME NEW es \in Manifests, NEW m \in Nat, NEW n \in Nat, m >= 1, n <= Len(es)
    PROVE  /\ SubSeq(es, m, n) \in Manifests
           /\ Len(SubSeq(es, m, n)) = IF m <= n THEN n - m + 1 ELSE 0
           /\ \A i \in 1..(n - m + 1) : SubSeq(es, m, n)[i] = es[m + i - 1]
<1>1. \A i \in m..n : es[i] \in Entry
  BY ManifestIs
<1>2. m \in Int /\ n \in Int
  OBVIOUS
<1> QED
  BY <1>1, <1>2, SubSeqProperties DEF Manifests

\* In a sorted manifest an entry is known by its letter.
LEMMA LettersDiffer ==
    ASSUME NEW es \in Manifests, Sorted(es), NEW i \in 1..Len(es), NEW j \in 1..Len(es),
           Letter(es[i]) = Letter(es[j])
    PROVE  i = j
<1>1. Letter(es[i]) \in Nat /\ Letter(es[j]) \in Nat
  BY ManifestIs, EntryIs
<1>2. i \in Nat /\ j \in Nat
  BY ManifestIs
<1>3. ~(i < j) /\ ~(j < i)
  BY <1>1 DEF Sorted
<1> QED
  BY <1>2, <1>3

\* The first of some places.
LEMMA FirstOf ==
    ASSUME NEW n \in Nat, NEW T \in SUBSET (1..n), T # {}
    PROVE  Min(T) \in T /\ \A y \in T : Min(T) <= y
<1>1. T \subseteq Nat
  OBVIOUS
<1>2. \E x \in T : \A y \in T : x <= y
  BY <1>1, LeastNumber
<1> QED
  BY <1>2 DEF Min

LEMMA SharingIs ==
    ASSUME NEW es \in Manifests, NEW key \in Words, NEW i, i = Sharing(es, key)
    PROVE  /\ i \in 0..Len(es)
           /\ i # 0 => es[i].name # <<>> /\ key # <<>> /\ es[i].name[1] = key[1]
           /\ i = 0 => \A j \in 1..Len(es) :
                          key # <<>> /\ es[j].name # <<>> => es[j].name[1] # key[1]
<1> DEFINE I == {j \in 1..Len(es) : key # <<>> /\ es[j].name # <<>> /\ es[j].name[1] = key[1]}
<1>1. i = IF I # {} THEN Min(I) ELSE 0
  BY DEF Sharing, SelectInSeq
<1>2. Len(es) \in Nat
  BY ManifestIs
<1>3. I # {} => Min(I) \in I
  BY <1>2, FirstOf
<1>4. CASE I = {}
  BY <1>1, <1>2, <1>4
<1>5. CASE I # {}
  <2>1. i \in I
    BY <1>1, <1>3, <1>5
  <2> QED
    BY <1>2, <2>1
<1> QED
  BY <1>4, <1>5

\* findManifest finds the entry that answers a key, if there is one.
LEMMA FindIs ==
    ASSUME NEW es \in Manifests, NEW key \in Words, NEW i, i = Find(es, key)
    PROVE  /\ i \in 0..Len(es)
           /\ i # 0 => IsKey(es[i], key) \/ Leads(es[i], key)
           /\ (i = 0 /\ Sorted(es) /\ \A j \in 1..Len(es) : es[j].kind = "branch" => es[j].name # <<>>)
                 => \A j \in 1..Len(es) : ~IsKey(es[j], key) /\ ~Leads(es[j], key)
<1> DEFINE I == {j \in 1..Len(es) : Beyond(es[j], key) \/ IsKey(es[j], key) \/ Leads(es[j], key)}
           n == IF I # {} THEN Min(I) ELSE 0
<1>1. i = IF n # 0 /\ Beyond(es[n], key) THEN 0 ELSE n
  BY DEF Find, SelectInSeq
<1>2. Len(es) \in Nat /\ \A j \in 1..Len(es) : es[j] \in Entry
  BY ManifestIs
<1>3. I # {} => Min(I) \in I /\ \A j \in I : Min(I) <= j
  BY <1>2, FirstOf
<1>4. CASE I = {}
  BY <1>1, <1>2, <1>4
<1>5. CASE I # {}
  <2>1. n \in I /\ \A j \in I : n <= j
    BY <1>3, <1>5
  <2> HIDE DEF n
  <2>2. n \in 1..Len(es) /\ n # 0
    BY <1>2, <2>1
  <2>3. CASE ~Beyond(es[n], key)
    BY <1>1, <1>2, <2>1, <2>2, <2>3
  <2>4. CASE Beyond(es[n], key)
    <3>1. i = 0
      BY <1>1, <2>2, <2>4
    <3>2. ASSUME Sorted(es), \A j \in 1..Len(es) : es[j].kind = "branch" => es[j].name # <<>>,
                 NEW j \in 1..Len(es), IsKey(es[j], key) \/ Leads(es[j], key)
          PROVE  FALSE
      <4>1. j \in I
        BY <3>2
      <4>2. n <= j
        BY <2>1, <4>1
      <4>3. /\ es[n].name # <<>> /\ (key # <<>> => es[n].name[1] > key[1])
            /\ Letter(es[n]) = es[n].name[1] /\ Letter(es[n]) \in Nat
        BY <1>2, <2>2, <2>4, EntryIs DEF Beyond
      <4>4. Letter(es[n]) <= Letter(es[j]) /\ Letter(es[j]) \in Nat /\ Letter(es[n]) # 0
        <5>1. n = j \/ n < j
          BY <2>2, <4>2, <1>2
        <5>2. Letter(es[n]) \in Nat /\ Letter(es[j]) \in Nat /\ Letter(es[n]) # 0
          BY <1>2, <2>2, <4>3, EntryIs
        <5>3. n < j => Letter(es[n]) < Letter(es[j])
          BY <2>2, <3>2 DEF Sorted
        <5> QED
          BY <5>1, <5>2, <5>3
      <4>5. es[j] \in Entry /\ es[j].name \in Words /\ es[j].name # <<>> /\ es[j].name[1] = Letter(es[j])
            /\ Len(es[j].name) >= 1
        <5>1. PICK x \in Entry : x = es[j]
          BY <1>2
        <5> QED
          BY <4>3, <4>4, <5>1, EntryIs
      <4>6. IsPrefix(es[j].name, key)
        <5>1. CASE Leads(es[j], key)
          BY <5>1 DEF Leads
        <5>2. CASE IsKey(es[j], key)
          <6>1. es[j].name = key
            BY <5>2 DEF IsKey
          <6> QED
            BY <6>1, PrefixItself
        <5> QED
          BY <3>2, <5>1, <5>2
      <4>7. Len(key) \in Nat /\ Len(es[j].name) \in Nat /\ Len(es[j].name) <= Len(key)
            /\ \A a \in 1..Len(es[j].name) : es[j].name[a] = key[a]
        BY <4>5, <4>6, PrefixIs, WordIs
      <4>8. key # <<>> /\ es[j].name[1] = key[1]
        BY <4>5, <4>7, WordIs
      <4>9. key[1] \in Nat
        BY <4>7, <4>5, WordIs
      <4> QED
        BY <4>3, <4>4, <4>5, <4>8, <4>9
    <3> QED
      BY <1>2, <3>1, <3>2
  <2> QED
    BY <2>3, <2>4
<1> QED
  BY <1>4, <1>5

\* m is es with e put in at q.
Inserted(m, es, q, e) ==
    /\ m \in Manifests /\ Len(m) = Len(es) + 1
    /\ \A j \in 1..(Len(es) + 1) : m[j] = IF j < q THEN es[j] ELSE IF j = q THEN e ELSE es[j - 1]

LEMMA InsertedHas ==
    ASSUME NEW es \in Manifests, NEW e \in Entry, NEW q \in 1..(Len(es) + 1), NEW m,
           Inserted(m, es, q, e)
    PROVE  \A x : Contains(m, x) <=> x = e \/ Contains(es, x)
<1>1. Len(es) \in Nat /\ Len(m) = Len(es) + 1
  BY ManifestIs DEF Inserted
<1>2. m[q] = e
  BY <1>1 DEF Inserted
<1>3. ASSUME NEW j \in 1..Len(es)
      PROVE  \E k \in 1..Len(m) : m[k] = es[j]
  <2>1. CASE j < q
    BY <1>1, <2>1 DEF Inserted
  <2>2. CASE ~(j < q)
    <3>1. j + 1 \in 1..(Len(es) + 1) /\ ~(j + 1 < q) /\ j + 1 # q /\ (j + 1) - 1 = j
      BY <1>1, <2>2
    <3>2. m[j + 1] = es[j]
      BY <3>1 DEF Inserted
    <3> QED
      BY <1>1, <3>1, <3>2
  <2> QED
    BY <2>1, <2>2
<1>4. ASSUME NEW j \in 1..Len(m)
      PROVE  m[j] = e \/ \E k \in 1..Len(es) : es[k] = m[j]
  <2>1. CASE j < q
    BY <1>1, <2>1 DEF Inserted
  <2>2. CASE j > q
    <3>1. j - 1 \in 1..Len(es) /\ m[j] = es[j - 1]
      BY <1>1, <2>2 DEF Inserted
    <3> QED
      BY <3>1
  <2>3. j < q \/ j = q \/ j > q
    BY <1>1
  <2> QED
    BY <1>2, <2>1, <2>2, <2>3
<1> QED
  BY <1>1, <1>2, <1>3, <1>4 DEF Contains

LEMMA InsertedSorted ==
    ASSUME NEW es \in Manifests, NEW e \in Entry, NEW q \in 1..(Len(es) + 1), NEW m,
           Inserted(m, es, q, e), Sorted(es),
           \A j \in 1..Len(es) : (j < q => Letter(es[j]) < Letter(e))
                                 /\ (j >= q => Letter(e) < Letter(es[j]))
    PROVE  Sorted(m)
<1>1. Len(es) \in Nat /\ Len(m) = Len(es) + 1
  BY ManifestIs DEF Inserted
<1>2. \A j \in 1..Len(es) : Letter(es[j]) \in Nat
  BY ManifestIs, EntryIs
<1>3. SUFFICES ASSUME NEW i \in 1..Len(m), NEW j \in 1..Len(m), i < j
               PROVE  Letter(m[i]) < Letter(m[j])
  BY DEF Sorted
<1>4. CASE j < q
  <2>1. m[i] = es[i] /\ m[j] = es[j] /\ i \in 1..Len(es) /\ j \in 1..Len(es)
    BY <1>1, <1>3, <1>4 DEF Inserted
  <2> QED
    BY <1>3, <2>1 DEF Sorted
<1>5. CASE j = q
  <2>1. m[i] = es[i] /\ m[j] = e /\ i \in 1..Len(es) /\ i < q
    BY <1>1, <1>3, <1>5 DEF Inserted
  <2> QED
    BY <2>1
<1>6. CASE j > q
  <2>1. m[j] = es[j - 1] /\ j - 1 \in 1..Len(es) /\ j - 1 >= q
    BY <1>1, <1>6 DEF Inserted
  <2>2. CASE i < q
    <3>1. m[i] = es[i] /\ i \in 1..Len(es) /\ i < j - 1
      BY <1>1, <1>6, <2>2 DEF Inserted
    <3> QED
      BY <2>1, <3>1 DEF Sorted
  <2>3. CASE i = q
    <3>1. m[i] = e
      BY <1>1, <2>3 DEF Inserted
    <3> QED
      BY <2>1, <3>1
  <2>4. CASE i > q
    <3>1. m[i] = es[i - 1] /\ i - 1 \in 1..Len(es) /\ i - 1 < j - 1
      BY <1>1, <1>3, <2>4 DEF Inserted
    <3> QED
      BY <2>1, <3>1 DEF Sorted
  <2> QED
    BY <1>1, <2>2, <2>3, <2>4
<1> QED
  BY <1>1, <1>4, <1>5, <1>6

\* Where addEntryToManifestSortedLexicographically puts an entry.
LEMMA AddSortedInserts ==
    ASSUME NEW es \in Manifests, NEW e \in Entry, e.name = <<>> \/ ~Contains(es, e)
    PROVE  \E q \in 1..(Len(es) + 1) :
             /\ Inserted(AddSorted(es, e), es, q, e)
             /\ e.name = <<>> => q = 1
             /\ e.name # <<>> => /\ \A j \in 1..Len(es) : j < q => ~(Letter(es[j]) > Letter(e))
                                 /\ q <= Len(es) => Letter(es[q]) > Letter(e)
<1>1. es \in Seq(Entry) /\ <<e>> \in Seq(Entry) /\ Len(es) \in Nat
      /\ Len(<<e>>) = 1 /\ <<e>>[1] = e
  BY ManifestIs DEF Manifests
<1>2. CASE e.name = <<>>
  <2>1. AddSorted(es, e) = <<e>> \o es
    BY <1>2 DEF AddSorted
  <2>2. PICK m \in Seq(Entry) : m = <<e>> \o es
    BY <1>1, ConcatProperties
  <2>3. Len(m) = 1 + Len(es)
        /\ \A i \in 1..(1 + Len(es)) : m[i] = IF i <= 1 THEN <<e>>[i] ELSE es[i - 1]
    BY <1>1, <2>2, ConcatProperties
  <2>4. Inserted(m, es, 1, e)
    BY <1>1, <2>2, <2>3 DEF Inserted, Manifests
  <2> QED
    BY <1>1, <1>2, <2>1, <2>2, <2>4
<1>3. CASE e.name # <<>>
  <2> DEFINE I == {j \in 1..Len(es) : es[j].name # <<>> /\ es[j].name[1] > e.name[1]}
             p == IF I # {} THEN Min(I) ELSE 0
  <2>1. AddSorted(es, e) = IF p = 0 THEN Append(es, e) ELSE InsertAt(es, p, e)
    BY <1>3 DEF AddSorted, SelectInSeq
  <2>2. \A j \in 1..Len(es) : j \in I <=> Letter(es[j]) > Letter(e)
    <3>1. Letter(e) = e.name[1] /\ Letter(e) \in Nat
      BY <1>3, EntryIs
    <3>2. \A j \in 1..Len(es) : es[j] \in Entry
      BY ManifestIs
    <3>3. \A j \in 1..Len(es) : /\ es[j].name # <<>> => Letter(es[j]) = es[j].name[1]
                                /\ es[j].name = <<>> => Letter(es[j]) = 0
      BY DEF Letter
    <3> QED
      BY <3>1, <3>3
  <2>3. CASE I = {}
    <3>1. PICK m \in Seq(Entry) : m = Append(es, e)
      BY <1>1, AppendProperties
    <3>2. Len(m) = Len(es) + 1 /\ (\A i \in 1..Len(es) : m[i] = es[i]) /\ m[Len(es) + 1] = e
      BY <1>1, <3>1, AppendProperties
    <3>3. Inserted(m, es, Len(es) + 1, e)
      BY <1>1, <3>1, <3>2 DEF Inserted, Manifests
    <3>4. AddSorted(es, e) = m
      BY <2>1, <2>3, <3>1
    <3> QED
      BY <1>1, <1>3, <2>2, <2>3, <3>3, <3>4
  <2>4. CASE I # {}
    <3>1. p \in I /\ \A y \in I : p <= y
      BY <1>1, <2>4, FirstOf
    <3> HIDE DEF p
    <3>2. p \in 1..Len(es) /\ p # 0
      BY <1>1, <3>1
    <3> DEFINE l == p - 1
    <3>a. l \in Nat /\ 1 \in Nat /\ 1 >= 1 /\ l <= Len(es) /\ p \in Nat /\ p >= 1 /\ Len(es) <= Len(es)
      BY <1>1, <3>2
    <3> HIDE DEF l
    <3>3. PICK a \in Manifests : a = SubSeq(es, 1, l)
      BY <3>a, PieceIs
    <3>4. Len(a) = p - 1 /\ \A i \in 1..(p - 1) : a[i] = es[i]
      <4>1. Len(a) = (IF 1 <= l THEN l - 1 + 1 ELSE 0)
            /\ \A i \in 1..(l - 1 + 1) : a[i] = es[1 + i - 1]
        BY <3>3, <3>a, PieceIs
      <4> QED
        BY <1>1, <3>2, <3>a, <4>1 DEF l
    <3>5. PICK b \in Manifests : b = SubSeq(es, p, Len(es))
      BY <1>1, <3>a, PieceIs
    <3>6. Len(b) = Len(es) - p + 1 /\ \A i \in 1..(Len(es) - p + 1) : b[i] = es[p + i - 1]
      <4>1. Len(b) = (IF p <= Len(es) THEN Len(es) - p + 1 ELSE 0)
            /\ \A i \in 1..(Len(es) - p + 1) : b[i] = es[p + i - 1]
        BY <1>1, <3>5, <3>a, PieceIs
      <4> QED
        BY <1>1, <3>2, <4>1
    <3>b. a \in Seq(Entry) /\ b \in Seq(Entry)
      BY DEF Manifests
    <3>7. PICK c \in Seq(Entry) : c = a \o <<e>>
      BY <1>1, <3>b, ConcatProperties
    <3>8. Len(c) = p /\ \A i \in 1..p : c[i] = IF i <= p - 1 THEN a[i] ELSE e
      <4>1. Len(c) = Len(a) + 1
            /\ \A i \in 1..(Len(a) + 1) : c[i] = IF i <= Len(a) THEN a[i] ELSE <<e>>[i - Len(a)]
        BY <1>1, <3>b, <3>7, ConcatProperties
      <4>2. Len(a) + 1 = p
        BY <1>1, <3>2, <3>4
      <4>3. ASSUME NEW i \in 1..p, ~(i <= p - 1) PROVE c[i] = e
        <5>1. i - Len(a) = 1 /\ ~(i <= Len(a))
          BY <1>1, <3>2, <3>4, <4>3
        <5> QED
          BY <1>1, <4>1, <4>2, <5>1
      <4> QED
        BY <3>4, <4>1, <4>2, <4>3
    <3>9. PICK m \in Seq(Entry) : m = c \o b
      BY <3>b, ConcatProperties
    <3>10. Len(m) = Len(c) + Len(b)
           /\ \A i \in 1..(Len(c) + Len(b)) : m[i] = IF i <= Len(c) THEN c[i] ELSE b[i - Len(c)]
      BY <3>b, <3>9, ConcatProperties
    <3>11. Len(m) = Len(es) + 1
      BY <1>1, <3>2, <3>6, <3>8, <3>10
    <3>12. ASSUME NEW j \in 1..(Len(es) + 1)
           PROVE  m[j] = IF j < p THEN es[j] ELSE IF j = p THEN e ELSE es[j - 1]
      <4>1. CASE j <= p
        <5>1. m[j] = c[j] /\ j \in 1..p
          BY <1>1, <3>2, <3>8, <3>10, <3>11, <4>1
        <5> QED
          BY <1>1, <3>2, <3>4, <3>8, <4>1, <5>1
      <4>2. CASE j > p
        <5>1. j - p \in 1..(Len(es) - p + 1) /\ p + (j - p) - 1 = j - 1
          BY <1>1, <3>2, <4>2
        <5>2. m[j] = b[j - p]
          BY <1>1, <3>2, <3>8, <3>10, <3>11, <4>2
        <5> QED
          BY <1>1, <3>2, <3>6, <4>2, <5>1, <5>2
      <4> QED
        BY <1>1, <3>2, <4>1, <4>2
    <3>13. Inserted(m, es, p, e)
      BY <3>11, <3>12 DEF Inserted, Manifests
    <3>14. AddSorted(es, e) = m
      BY <2>1, <3>2, <3>3, <3>5, <3>7, <3>9 DEF InsertAt, l
    <3>15. \A j \in 1..Len(es) : j < p => ~(Letter(es[j]) > Letter(e))
      <4> SUFFICES ASSUME NEW j \in 1..Len(es), j < p, Letter(es[j]) > Letter(e) PROVE FALSE
        OBVIOUS
      <4>1. j \in I
        BY <2>2
      <4>2. p <= j
        BY <3>1, <4>1
      <4> QED
        BY <1>1, <3>2, <4>2
    <3>16. Letter(es[p]) > Letter(e)
      BY <2>2, <3>1, <3>2
    <3>17. p \in 1..(Len(es) + 1)
      BY <1>1, <3>2
    <3> QED
      BY <1>3, <3>13, <3>14, <3>15, <3>16, <3>17
  <2> QED
    BY <2>3, <2>4
<1> QED
  BY <1>2, <1>3

LEMMA AddSortedIs ==
    ASSUME NEW es \in Manifests, NEW e \in Entry, NEW m, m = AddSorted(es, e)
    PROVE  /\ m \in Manifests
           /\ \A x : Contains(m, x) <=> x = e \/ Contains(es, x)
           /\ (Sorted(es) /\ \A j \in 1..Len(es) : Letter(es[j]) # Letter(e)) => Sorted(m)
<1>1. CASE e.name # <<>> /\ Contains(es, e)
  <2>1. m = es
    BY <1>1 DEF AddSorted
  <2> QED
    BY <1>1, <2>1
<1>2. CASE ~(e.name # <<>> /\ Contains(es, e))
  <2>1. e.name = <<>> \/ ~Contains(es, e)
    BY <1>2
  <2>2. PICK q \in 1..(Len(es) + 1) :
             /\ Inserted(m, es, q, e)
             /\ e.name = <<>> => q = 1
             /\ e.name # <<>> => /\ \A j \in 1..Len(es) : j < q => ~(Letter(es[j]) > Letter(e))
                                 /\ q <= Len(es) => Letter(es[q]) > Letter(e)
    BY <2>1, AddSortedInserts
  <2>3. ASSUME Sorted(es), \A j \in 1..Len(es) : Letter(es[j]) # Letter(e)
        PROVE  Sorted(m)
    <3>1. Letter(e) \in Nat /\ (e.name = <<>> <=> Letter(e) = 0) /\ Len(es) \in Nat
      BY EntryIs, ManifestIs
    <3>2. \A j \in 1..Len(es) : Letter(es[j]) \in Nat
      BY ManifestIs, EntryIs
    <3>3. ASSUME NEW j \in 1..Len(es), j < q
          PROVE  Letter(es[j]) < Letter(e)
      <4>1. e.name # <<>>
        BY <2>2, <3>1, <3>3
      <4> QED
        BY <2>2, <2>3, <3>1, <3>2, <3>3, <4>1
    <3>4. ASSUME NEW j \in 1..Len(es), j >= q
          PROVE  Letter(e) < Letter(es[j])
      <4>1. CASE e.name = <<>>
        BY <2>3, <3>1, <3>2, <4>1
      <4>2. CASE e.name # <<>>
        <5>1. q \in 1..Len(es) /\ Letter(es[q]) > Letter(e)
          BY <2>2, <3>1, <3>4, <4>2
        <5>2. q = j \/ Letter(es[q]) < Letter(es[j])
          BY <2>3, <3>1, <3>4, <5>1 DEF Sorted
        <5> QED
          BY <3>1, <3>2, <5>1, <5>2
      <4> QED
        BY <4>1, <4>2
    <3> QED
      BY <2>2, <2>3, <3>3, <3>4, InsertedSorted
  <2>4. m \in Manifests
    BY <2>2 DEF Inserted
  <2> QED
    BY <2>2, <2>3, <2>4, InsertedHas
<1> QED
  BY <1>1, <1>2

\* A manifest with another entry in the place of one.
LEMMA ReplacedIs ==
    ASSUME NEW es \in Manifests, NEW i \in 1..Len(es), NEW e \in Entry, NEW m,
           m = ReplaceAt(es, i, e)
    PROVE  /\ m \in Manifests
           /\ \A x : Contains(m, x) => x = e \/ Contains(es, x)
           /\ (Sorted(es) /\ Letter(e) = Letter(es[i])) =>
                 /\ Sorted(m)
                 /\ \A x : Contains(m, x) <=> x = e \/ (Contains(es, x) /\ x # es[i])
<1>1. /\ m \in Manifests /\ Len(m) = Len(es)
      /\ \A j \in 1..Len(es) : m[j] = IF j = i THEN e ELSE es[j]
  <2>1. es \in Seq(Entry) /\ m = [es EXCEPT ![i] = e]
    BY DEF Manifests, ReplaceAt
  <2> QED
    BY <2>1, ExceptSeq DEF Manifests
<1>2. \A x : Contains(m, x) => x = e \/ Contains(es, x)
  BY <1>1 DEF Contains
<1>3. ASSUME Sorted(es), Letter(e) = Letter(es[i])
      PROVE  /\ Sorted(m)
             /\ \A x : Contains(m, x) <=> x = e \/ (Contains(es, x) /\ x # es[i])
  <2>1. Sorted(m)
    BY <1>1, <1>3 DEF Sorted
  <2>2. \A j \in 1..Len(es) : j # i => es[j] # es[i]
    BY <1>3, LettersDiffer
  <2>3. \A j \in 1..Len(m) : m[j] = e \/ (m[j] # es[i] /\ \E k \in 1..Len(es) : es[k] = m[j])
    BY <1>1, <2>2
  <2>4. \A j \in 1..Len(es) : es[j] = es[i] \/ \E k \in 1..Len(m) : m[k] = es[j]
    BY <1>1
  <2>5. \E k \in 1..Len(m) : m[k] = e
    BY <1>1
  <2>6. ASSUME NEW x, Contains(m, x)
        PROVE  x = e \/ (Contains(es, x) /\ x # es[i])
    BY <2>3, <2>6 DEF Contains
  <2>7. ASSUME NEW x, x = e \/ (Contains(es, x) /\ x # es[i])
        PROVE  Contains(m, x)
    BY <2>4, <2>5, <2>7 DEF Contains
  <2> QED
    BY <2>1, <2>6, <2>7
<1> QED
  BY <1>1, <1>2, <1>3

\* A manifest without one of its entries.
LEMMA RemovedIs ==
    ASSUME NEW es \in Manifests, NEW i \in 1..Len(es), NEW m, m = RemoveAt(es, i)
    PROVE  /\ m \in Manifests
           /\ \A x : Contains(m, x) => Contains(es, x)
           /\ Sorted(es) => /\ Sorted(m)
                            /\ \A x : Contains(m, x) <=> Contains(es, x) /\ x # es[i]
<1> DEFINE k == i - 1
           l == i + 1
           n == Len(es)
<1>1. n \in Nat /\ i \in Nat /\ i >= 1 /\ i <= n
      /\ k \in Nat /\ k <= n /\ l \in Nat /\ l >= 1 /\ 1 \in Nat /\ 1 >= 1 /\ n <= Len(es) /\ k <= Len(es)
  BY ManifestIs
<1>k. k = i - 1 /\ l = i + 1 /\ n = Len(es)
  OBVIOUS
<1>m. m = SubSeq(es, 1, k) \o SubSeq(es, l, n)
  BY DEF RemoveAt
<1> HIDE DEF k, l, n
<1>2. PICK a \in Manifests : a = SubSeq(es, 1, k)
  BY <1>1, PieceIs
<1>3. PICK b \in Manifests : b = SubSeq(es, l, n)
  BY <1>1, PieceIs
<1>4. Len(a) = k /\ \A j \in 1..k : a[j] = es[j]
  <2>1. Len(a) = (IF 1 <= k THEN k - 1 + 1 ELSE 0) /\ \A j \in 1..(k - 1 + 1) : a[j] = es[1 + j - 1]
    BY <1>1, <1>2, PieceIs
  <2> QED
    BY <1>1, <2>1
<1>5. Len(b) = n - i /\ \A j \in 1..(n - i) : b[j] = es[i + j]
  <2>1. Len(b) = (IF l <= n THEN n - l + 1 ELSE 0) /\ \A j \in 1..(n - l + 1) : b[j] = es[l + j - 1]
    BY <1>1, <1>3, PieceIs
  <2>2. n - l + 1 = n - i /\ \A j \in 1..(n - i) : l + j - 1 = i + j
    BY <1>1, <1>k
  <2>3. Len(b) = n - i
    BY <1>1, <1>k, <2>1, <2>2
  <2> QED
    BY <2>1, <2>2, <2>3
<1>6. m \in Manifests /\ Len(m) = Len(a) + Len(b)
      /\ \A j \in 1..(Len(a) + Len(b)) : m[j] = IF j <= Len(a) THEN a[j] ELSE b[j - Len(a)]
  <2>1. a \in Seq(Entry) /\ b \in Seq(Entry) /\ m = a \o b
    BY <1>m, <1>2, <1>3 DEF Manifests
  <2> QED
    BY <2>1, ConcatProperties DEF Manifests
<1>7. Len(m) = n - 1
  BY <1>1, <1>k, <1>4, <1>5, <1>6
<1>8. ASSUME NEW j \in 1..(n - 1)
      PROVE  m[j] = es[IF j < i THEN j ELSE j + 1]
  <2>1. CASE j < i
    <3>1. j \in 1..k /\ j <= Len(a) /\ j \in 1..(Len(a) + Len(b))
      BY <1>1, <1>k, <1>4, <1>5, <2>1
    <3> QED
      BY <1>4, <1>6, <2>1, <3>1
  <2>2. CASE ~(j < i)
    <3>1. ~(j <= Len(a)) /\ j \in 1..(Len(a) + Len(b)) /\ j - Len(a) \in 1..(n - i)
          /\ i + (j - Len(a)) = j + 1
      BY <1>1, <1>k, <1>4, <1>5, <2>2
    <3>2. m[j] = b[j - Len(a)]
      BY <1>6, <3>1
    <3>3. b[j - Len(a)] = es[i + (j - Len(a))]
      BY <1>5, <3>1
    <3> QED
      BY <2>2, <3>1, <3>2, <3>3
  <2> QED
    BY <2>1, <2>2
<1> DEFINE At(j) == IF j < i THEN j ELSE j + 1
<1>9. \A j \in 1..Len(m) : At(j) \in 1..n /\ At(j) # i /\ m[j] = es[At(j)]
  BY <1>1, <1>7, <1>8
<1>10. \A x : Contains(m, x) => Contains(es, x)
  BY <1>9, <1>k DEF Contains
<1>11. ASSUME Sorted(es)
       PROVE  /\ Sorted(m)
              /\ \A x : Contains(m, x) <=> Contains(es, x) /\ x # es[i]
  <2>1. \A j, h \in 1..Len(m) : j < h => At(j) < At(h)
    BY <1>1, <1>7
  <2>2. Sorted(m)
    <3> HIDE DEF At
    <3> QED
      BY <1>9, <1>11, <1>k, <2>1 DEF Sorted
  <2>3. \A j \in 1..Len(es) : j # i => es[j] # es[i]
    BY <1>11, LettersDiffer
  <2>4. \A j \in 1..Len(m) : m[j] # es[i]
    BY <1>9, <1>k, <2>3
  <2>5. ASSUME NEW j \in 1..Len(es), j # i
        PROVE  \E h \in 1..Len(m) : m[h] = es[j]
    <3>1. CASE j < i
      BY <1>1, <1>k, <1>7, <1>8, <3>1
    <3>2. CASE ~(j < i)
      <4>1. j - 1 \in 1..Len(m) /\ ~(j - 1 < i) /\ (j - 1) + 1 = j
        BY <1>1, <1>k, <1>7, <2>5, <3>2
      <4> QED
        BY <1>7, <1>8, <4>1
    <3> QED
      BY <3>1, <3>2
  <2>6. ASSUME NEW x, Contains(m, x)
        PROVE  Contains(es, x) /\ x # es[i]
    <3>1. PICK j \in 1..Len(m) : m[j] = x
      BY <2>6 DEF Contains
    <3> QED
      BY <1>10, <2>4, <2>6, <3>1
  <2>7. ASSUME NEW x, Contains(es, x), x # es[i]
        PROVE  Contains(m, x)
    <3>1. PICK j \in 1..Len(es) : es[j] = x
      BY <2>7 DEF Contains
    <3>2. PICK h \in 1..Len(m) : m[h] = es[j]
      BY <2>5, <2>7, <3>1
    <3> QED
      BY <3>1, <3>2 DEF Contains
  <2> QED
    BY <2>2, <2>6, <2>7
<1> QED
  BY <1>6, <1>10, <1>11

LEMMA EmptyManifest ==
    <<>> \in Manifests /\ Len(<<>>) = 0 /\ Sorted(<<>>) /\ \A x : ~Contains(<<>>, x)
<1>1. <<>> \in Manifests /\ Len(<<>>) = 0
  BY EmptySeq DEF Manifests
<1> QED
  BY <1>1 DEF Sorted, Contains

\* A put that stores one manifest.
LEMMA WithLeafIs ==
    ASSUME NEW es \in Manifests, NEW key \in Words, NEW v \in Values,
           NEW i, i = Sharing(es, key), ~GoesDown(es, i, key), ~Splits(es, i, key),
           NEW m, m = WithLeaf(es, i, key, v)
    PROVE  /\ m \in Manifests
           /\ \A x : Contains(m, x) => x = Leaf(key, v) \/ Contains(es, x)
           /\ (Sorted(es) /\ (key = <<>> => \A j \in 1..Len(es) : es[j].name # <<>>)) =>
                 /\ Sorted(m) /\ Contains(m, Leaf(key, v))
                 /\ \A x \in Entry : ~IsKey(x, key) => (Contains(m, x) <=> Contains(es, x))
<1>1. PICK e \in Entry : e = Leaf(key, v) /\ e.name = key /\ e.kind = "leaf"
  BY MadeEntries
<1>2. /\ i \in 0..Len(es) /\ Len(es) \in Nat /\ \A j \in 1..Len(es) : es[j] \in Entry
      /\ i # 0 => es[i].name # <<>> /\ key # <<>> /\ es[i].name[1] = key[1]
      /\ i = 0 => \A j \in 1..Len(es) :
                     key # <<>> /\ es[j].name # <<>> => es[j].name[1] # key[1]
  BY SharingIs, ManifestIs
<1>3. ASSUME NEW x \in Entry, ~IsKey(x, key)
      PROVE  x # e
  BY <1>1, <1>3 DEF IsKey
<1>4. CASE i # 0
  <2>1. i \in 1..Len(es) /\ es[i] = Leaf(key, es[i].value) /\ m = ReplaceAt(es, i, e)
    BY <1>1, <1>2, <1>4 DEF Splits, WithLeaf
  <2>2. es[i].name = key /\ es[i].kind = "leaf" /\ Letter(es[i]) = Letter(e)
    BY <1>1, <2>1, MadeEntries DEF Letter
  <2>3. IsKey(es[i], key)
    BY <2>2 DEF IsKey
  <2>4. /\ m \in Manifests
        /\ \A x : Contains(m, x) => x = e \/ Contains(es, x)
        /\ Sorted(es) => /\ Sorted(m)
                         /\ \A x : Contains(m, x) <=> x = e \/ (Contains(es, x) /\ x # es[i])
    BY <2>1, <2>2, ReplacedIs
  <2> QED
    BY <1>1, <1>3, <2>3, <2>4
<1>5. CASE i = 0
  <2>1. m = AddSorted(es, e)
    BY <1>1, <1>5 DEF WithLeaf
  <2>2. /\ m \in Manifests
        /\ \A x : Contains(m, x) <=> x = e \/ Contains(es, x)
        /\ (Sorted(es) /\ \A j \in 1..Len(es) : Letter(es[j]) # Letter(e)) => Sorted(m)
    BY <2>1, AddSortedIs
  <2>3. ASSUME key = <<>> => \A j \in 1..Len(es) : es[j].name # <<>>, NEW j \in 1..Len(es)
        PROVE  Letter(es[j]) # Letter(e)
    <3>1. es[j] \in Entry
      BY <1>2
    <3>2. /\ es[j].name = <<>> <=> Letter(es[j]) = 0
          /\ es[j].name # <<>> => es[j].name[1] = Letter(es[j])
      BY <3>1, EntryIs
    <3>3. /\ key = <<>> <=> Letter(e) = 0
          /\ key # <<>> => key[1] = Letter(e)
      BY <1>1, EntryIs
    <3> QED
      BY <1>2, <1>5, <2>3, <3>2, <3>3
  <2> QED
    BY <1>1, <1>3, <2>2, <2>3
<1> QED
  BY <1>4, <1>5

\* What follows the letters that two words begin with does not begin alike.
LEMMA AfterCommon ==
    ASSUME NEW s \in Words, NEW t \in Words, s # t,
           NEW c, c = CommonPrefix(s, t)
    PROVE  LET a == After(s, c)
               b == After(t, c)
           IN  /\ a # <<>> \/ b # <<>>
               /\ a # <<>> /\ b # <<>> => a[1] # b[1]
<1>1. /\ c \in Words /\ IsPrefix(c, s) /\ IsPrefix(c, t)
      /\ Len(c) < Len(s) /\ Len(c) < Len(t) => s[Len(c) + 1] # t[Len(c) + 1]
  BY CommonPrefixIs
<1>2. /\ Len(c) \in Nat /\ Len(s) \in Nat /\ Len(t) \in Nat
      /\ Len(c) <= Len(s) /\ Len(c) <= Len(t)
  BY <1>1, PrefixIs, WordIs
<1>3. PICK a \in Words :
        /\ a = After(s, c) /\ Len(a) = Len(s) - Len(c)
        /\ \A i \in 1..(Len(s) - Len(c)) : a[i] = s[Len(c) + i]
  BY <1>1, <1>2, AfterIs
<1>4. PICK b \in Words :
        /\ b = After(t, c) /\ Len(b) = Len(t) - Len(c)
        /\ \A i \in 1..(Len(t) - Len(c)) : b[i] = t[Len(c) + i]
  BY <1>1, <1>2, AfterIs
<1>5. /\ Len(a) = Len(s) - Len(c) /\ Len(b) = Len(t) - Len(c)
      /\ \A i \in 1..(Len(s) - Len(c)) : a[i] = s[Len(c) + i]
      /\ \A i \in 1..(Len(t) - Len(c)) : b[i] = t[Len(c) + i]
  BY <1>3, <1>4
<1>6. /\ a = <<>> <=> Len(a) = 0
      /\ b = <<>> <=> Len(b) = 0
  BY WordIs
<1>7. a # <<>> \/ b # <<>>
  <2>1. SUFFICES ASSUME Len(a) = 0, Len(b) = 0 PROVE FALSE
    BY <1>6
  <2>2. c = s /\ c = t
    BY <1>1, <1>2, <1>5, <2>1, PrefixAsLong
  <2> QED
    BY <2>2
<1>8. ASSUME a # <<>>, b # <<>>
      PROVE  a[1] # b[1]
  <2>1. Len(c) < Len(s) /\ Len(c) < Len(t)
    BY <1>2, <1>5, <1>6, <1>8
  <2>2. 1 \in 1..(Len(s) - Len(c)) /\ 1 \in 1..(Len(t) - Len(c))
    BY <1>2, <2>1
  <2> QED
    BY <1>1, <1>5, <2>1, <2>2
<1> QED
  BY <1>3, <1>4, <1>7, <1>8

\* A manifest made of two entries.
LEMMA TwoEntries ==
    ASSUME NEW f \in Entry, NEW d \in Entry, Letter(f) # Letter(d)
    PROVE  LET m == AddSorted(AddSorted(<<>>, f), d)
           IN  /\ m \in Manifests
               /\ \A x : Contains(m, x) <=> x = f \/ x = d
               /\ Sorted(m)
<1>1. PICK one : one = AddSorted(<<>>, f)
  OBVIOUS
<1>2. /\ one \in Manifests
      /\ \A x : Contains(one, x) <=> x = f
      /\ Sorted(one)
  BY <1>1, EmptyManifest, AddSortedIs
<1>3. \A j \in 1..Len(one) : Letter(one[j]) # Letter(d)
  BY <1>2 DEF Contains
<1>4. PICK m : m = AddSorted(one, d)
  OBVIOUS
<1>5. /\ m \in Manifests
      /\ \A x : Contains(m, x) <=> x = d \/ Contains(one, x)
      /\ (Sorted(one) /\ \A j \in 1..Len(one) : Letter(one[j]) # Letter(d)) => Sorted(m)
  BY <1>2, <1>4, AddSortedIs
<1> QED
  BY <1>1, <1>2, <1>3, <1>4, <1>5

\* A put that makes a branch.
LEMMA SplitIs ==
    ASSUME NEW es \in Manifests, NEW key \in Words, NEW v \in Values,
           NEW i, i = Sharing(es, key), Splits(es, i, key),
           NEW e, e = es[i],
           NEW c, c = CommonPrefix(e.name, key)
    PROVE  /\ i \in 1..Len(es) /\ e \in Entry
           /\ c \in Words /\ c # <<>> /\ IsPrefix(c, key) /\ IsPrefix(c, e.name)
           /\ e.kind = "branch" => ~IsPrefix(e.name, key)
           /\ SplitChild(es, i, key, v) \in Manifests
           /\ Sorted(SplitChild(es, i, key, v))
           /\ \E d \in Entry :
                 /\ d.kind = e.kind /\ d.name = After(e.name, c) /\ d.value = e.value
                 /\ \A x : Contains(SplitChild(es, i, key, v), x)
                               <=> x = Leaf(After(key, c), v) \/ x = d
           /\ SplitParent(es, i, key) \in Manifests
           /\ \A x : Contains(SplitParent(es, i, key), x) => x = Branch(c) \/ Contains(es, x)
           /\ Sorted(es) =>
                 /\ Sorted(SplitParent(es, i, key))
                 /\ \A x : Contains(SplitParent(es, i, key), x)
                              <=> x = Branch(c) \/ (Contains(es, x) /\ x # e)
<1>1. /\ i \in 1..Len(es) /\ e \in Entry /\ e.name \in Words
      /\ e.name # <<>> /\ key # <<>> /\ e.name[1] = key[1]
  BY SharingIs, ManifestIs, EntryIs DEF Splits
<1>2. /\ c \in Words /\ IsPrefix(c, e.name) /\ IsPrefix(c, key) /\ c # <<>>
  BY <1>1, CommonPrefixIs
<1>3. e.kind = "branch" => ~IsPrefix(e.name, key)
  BY <1>1 DEF Splits, GoesDown
<1>4. e.name # key
  <2>1. SUFFICES ASSUME e.name = key PROVE FALSE
    OBVIOUS
  <2>2. e.kind # "branch"
    BY <1>3, <2>1, PrefixItself
  <2>3. e = Leaf(e.name, e.value)
    BY <1>1, <2>2, EntryIs
  <2> QED
    BY <2>1, <2>3 DEF Splits
<1>5. PICK a \in Words : a = After(e.name, c)
  BY <1>1, <1>2, AfterIs
<1>6. PICK b \in Words : b = After(key, c)
  BY <1>2, AfterIs
<1>7. (a # <<>> \/ b # <<>>) /\ (a # <<>> /\ b # <<>> => a[1] # b[1])
  BY <1>1, <1>4, <1>5, <1>6, AfterCommon
<1>8. PICK d \in Entry :
        /\ d = [e EXCEPT !.name = After(e.name, c)]
        /\ d.kind = e.kind /\ d.name = a /\ d.value = e.value
  <2>1. CASE e.kind = "leaf" /\ e.value \in Values /\ e = Leaf(e.name, e.value)
    <3>1. [e EXCEPT !.name = a] = Leaf(a, e.value)
      BY <2>1 DEF Leaf
    <3>2. Leaf(a, e.value) \in Entry
      BY <2>1, MadeEntries
    <3> QED
      BY <1>5, <2>1, <3>1, <3>2, MadeEntries
  <2>2. CASE e.kind = "branch" /\ e.value = None /\ e = Branch(e.name)
    <3>1. [e EXCEPT !.name = a] = Branch(a)
      BY <2>2 DEF Branch
    <3>2. Branch(a) \in Entry /\ Branch(a).value = None
      BY MadeEntries DEF Branch
    <3> QED
      BY <1>5, <2>2, <3>1, <3>2, MadeEntries
  <2> QED
    BY <1>1, <2>1, <2>2, EntryIs
<1>9. PICK f \in Entry : f = Leaf(b, v) /\ f.name = b
  BY MadeEntries
<1>10. Letter(f) # Letter(d)
  <2>1. /\ b = <<>> <=> Letter(f) = 0
        /\ b # <<>> => b[1] = Letter(f)
    BY <1>9, EntryIs
  <2>2. /\ a = <<>> <=> Letter(d) = 0
        /\ a # <<>> => a[1] = Letter(d)
    BY <1>8, EntryIs
  <2> QED
    BY <1>7, <2>1, <2>2
<1>11. PICK child \in Manifests :
         /\ child = AddSorted(AddSorted(<<>>, f), d)
         /\ \A x : Contains(child, x) <=> x = f \/ x = d
         /\ Sorted(child)
  BY <1>8, <1>10, TwoEntries
<1>14. child = SplitChild(es, i, key, v)
  BY <1>5, <1>6, <1>8, <1>9, <1>11 DEF SplitChild
<1>15. PICK g \in Entry : g = Branch(c) /\ g.name = c
  BY <1>2, MadeEntries
<1>16. Letter(g) = Letter(e)
  <2>1. Letter(g) = c[1] /\ Letter(e) = e.name[1]
    BY <1>1, <1>2, <1>15, EntryIs
  <2>2. c[1] = e.name[1]
    <3>1. /\ Len(c) \in Nat /\ Len(c) # 0 /\ \A j \in 1..Len(c) : c[j] = e.name[j]
      BY <1>1, <1>2, PrefixIs, WordIs
    <3>2. 1 \in 1..Len(c)
      BY <3>1
    <3> QED
      BY <3>1, <3>2
  <2> QED
    BY <2>1, <2>2
<1>17. PICK parent : parent = SplitParent(es, i, key)
  OBVIOUS
<1>18. parent = ReplaceAt(es, i, g)
  BY <1>15, <1>17 DEF SplitParent
<1>19. /\ parent \in Manifests
       /\ \A x : Contains(parent, x) => x = g \/ Contains(es, x)
       /\ Sorted(es) =>
             /\ Sorted(parent)
             /\ \A x : Contains(parent, x) <=> x = g \/ (Contains(es, x) /\ x # es[i])
  BY <1>1, <1>16, <1>18, ReplacedIs
<1>20. /\ SplitChild(es, i, key, v) \in Manifests
       /\ Sorted(SplitChild(es, i, key, v))
       /\ \A x : Contains(SplitChild(es, i, key, v), x) <=> x = Leaf(After(key, c), v) \/ x = d
  <2>1. Leaf(After(key, c), v) = f
    BY <1>6, <1>9
  <2> HIDE <1>8
  <2> QED
    BY <2>1, <1>11, <1>14
<1>21. /\ SplitParent(es, i, key) \in Manifests
       /\ \A x : Contains(SplitParent(es, i, key), x) => x = Branch(c) \/ Contains(es, x)
       /\ Sorted(es) =>
             /\ Sorted(SplitParent(es, i, key))
             /\ \A x : Contains(SplitParent(es, i, key), x)
                          <=> x = Branch(c) \/ (Contains(es, x) /\ x # e)
  BY <1>15, <1>17, <1>19
<1>22. d.kind = e.kind /\ d.name = After(e.name, c) /\ d.value = e.value
  BY <1>5, <1>8
<1> QED
  BY <1>1, <1>2, <1>3, <1>20, <1>21, <1>22

-----------------------------------------------------------------------------
\* Tries.

IsTrie(f) ==
    /\ f \in [Paths -> Manifests \cup {Absent}]
    /\ \A p \in Paths : f[p] # Absent => Spells(p, f[p])

LEMMA PathsAre ==
    /\ Paths \subseteq Words /\ <<>> \in Paths /\ Keys \subseteq Paths
    /\ \A p \in Words : p \in Paths <=> \E k \in Keys : IsPrefix(p, k)
    /\ \A q \in Paths : \A p \in Words : IsPrefix(p, q) => p \in Paths
<1>1. Keys \subseteq Words /\ Keys # {}
  BY KVAssumption
<1>2. \A k \in Keys : Prefixes(k) = {s \in Words : IsPrefix(s, k)}
  BY <1>1, PrefixesAre
<1>3. Paths \subseteq Words
  BY <1>2 DEF Paths
<1>4. \A p \in Words : p \in Paths <=> \E k \in Keys : IsPrefix(p, k)
  BY <1>2 DEF Paths
<1>5. \A q \in Paths : \A p \in Words : IsPrefix(p, q) => p \in Paths
  BY <1>1, <1>3, <1>4, PrefixOfPrefix
<1>6. <<>> \in Paths /\ Keys \subseteq Paths
  BY <1>1, <1>4, EmptyWord, PrefixItself
<1> QED
  BY <1>3, <1>4, <1>5, <1>6

LEMMA ManifestThere ==
    ASSUME NEW f, IsTrie(f), NEW p \in Paths, f[p] # Absent
    PROVE  f[p] \in Manifests /\ Spells(p, f[p])
  BY DEF IsTrie

LEMMA ManifestNotAbsent == Absent \notin Manifests
  BY KVAssumption DEF Manifests

\* A branch leads to a longer path.
LEMMA BranchLeads ==
    ASSUME NEW f, IsTrie(f), NEW p \in Paths, NEW n \in Words,
           f[p] # Absent, Contains(f[p], Branch(n))
    PROVE  /\ n # <<>> /\ p \o n \in Paths /\ Len(p \o n) > Len(p) /\ IsPrefix(p, p \o n)
           /\ After(p \o n, p) = n /\ Precedes(f, p, p \o n)
<1>1. Branch(n) \in Entry /\ Branch(n).name = n /\ Branch(n).kind = "branch"
  BY MadeEntries
<1>2. IsEntry(p, Branch(n))
  BY <1>1, ManifestThere DEF Spells
<1>3. n # <<>> /\ p \o n \in Paths
  BY <1>1, <1>2 DEF IsEntry
<1>4. p \in Words
  BY PathsAre
<1>5. Len(p \o n) > Len(p)
  <2>1. Len(p \o n) = Len(p) + Len(n) /\ Len(p) \in Nat /\ Len(n) \in Nat /\ Len(n) # 0
    BY <1>3, <1>4, ConcatIs, WordIs
  <2> QED
    BY <2>1
<1>6. IsPrefix(p, p \o n) /\ After(p \o n, p) = n
  BY <1>4, ConcatHasPrefix
<1> QED
  BY <1>3, <1>5, <1>6 DEF Precedes

LEMMA PrecedesIs ==
    ASSUME NEW f, IsTrie(f), NEW p \in Paths, NEW q \in Paths, Precedes(f, p, q)
    PROVE  /\ IsPrefix(p, q) /\ Len(p) < Len(q) /\ f[p] # Absent
           /\ After(q, p) \in Words /\ After(q, p) # <<>> /\ p \o After(q, p) = q
           /\ Contains(f[p], Branch(After(q, p)))
<1>1. p \in Words /\ q \in Words /\ IsPrefix(p, q) /\ f[p] # Absent
      /\ Contains(f[p], Branch(After(q, p)))
  BY PathsAre DEF Precedes
<1>2. PICK n \in Words : n = After(q, p) /\ p \o n = q
  BY <1>1, AfterIs, PrefixAndAfter
<1>3. n # <<>> /\ Len(p \o n) > Len(p)
  BY <1>1, <1>2, BranchLeads
<1>4. Len(p) < Len(q)
  <2>1. Len(p) \in Nat /\ Len(q) \in Nat
    BY <1>1, WordIs
  <2> QED
    BY <1>2, <1>3, <2>1
<1> QED
  BY <1>1, <1>2, <1>3, <1>4

LEMMA WalkedRoot ==
    ASSUME NEW f
    PROVE  Walked(f, <<>>)
<1>1. <<>> \in Prefixes(<<>>)
  BY EmptyWord, PrefixesAre, PrefixItself
<1>2. PICK w : w = {<<>>}
  OBVIOUS
<1>3. w \in SUBSET Prefixes(<<>>) /\ <<>> \in w /\ \A r \in w : r = <<>>
  BY <1>1, <1>2
<1> QED
  BY <1>3 DEF Walked

LEMMA WalkedOn ==
    ASSUME NEW f, NEW p \in Paths, NEW q \in Paths, Walked(f, p), Precedes(f, p, q)
    PROVE  Walked(f, q)
<1>1. p \in Words /\ q \in Words /\ IsPrefix(p, q)
  BY PathsAre DEF Precedes
<1>2. Prefixes(p) = {s \in Words : IsPrefix(s, p)} /\ Prefixes(q) = {s \in Words : IsPrefix(s, q)}
  BY <1>1, PrefixesAre
<1>3. Prefixes(p) \subseteq Prefixes(q)
  BY <1>1, <1>2, PrefixOfPrefix
<1>4. q \in Prefixes(q)
  BY <1>1, <1>2, PrefixItself
<1>5. PICK walk \in SUBSET Prefixes(p) :
        p \in walk /\ \A r \in walk : r = <<>> \/ \E s \in walk : Precedes(f, s, r)
  BY DEF Walked
<1>6. walk \cup {q} \in SUBSET Prefixes(q)
  BY <1>3, <1>4
<1>7. \A r \in walk \cup {q} : r = <<>> \/ \E s \in walk \cup {q} : Precedes(f, s, r)
  BY <1>5
<1> QED
  BY <1>6, <1>7 DEF Walked

LEMMA WalkedBack ==
    ASSUME NEW f, IsTrie(f), NEW q \in Paths, Walked(f, q), q # <<>>
    PROVE  \E p \in Paths : Walked(f, p) /\ Precedes(f, p, q) /\ Len(p) < Len(q)
<1>1. q \in Words /\ Prefixes(q) = {s \in Words : IsPrefix(s, q)}
  BY PathsAre, PrefixesAre
<1>2. PICK walk \in SUBSET Prefixes(q) :
        q \in walk /\ \A r \in walk : r = <<>> \/ \E s \in walk : Precedes(f, s, r)
  BY DEF Walked
<1>3. PICK p \in walk : Precedes(f, p, q)
  BY <1>2
<1>4. p \in Words /\ IsPrefix(p, q) /\ p \in Paths
  BY <1>1, <1>3, PathsAre
<1>5. Len(p) < Len(q)
  BY <1>3, <1>4, PrecedesIs
<1>6. Prefixes(p) = {s \in Words : IsPrefix(s, p)}
  BY <1>4, PrefixesAre
<1> DEFINE part == walk \cap Prefixes(p)
<1>7. p \in part
  BY <1>4, <1>6, PrefixItself
<1>8. ASSUME NEW r \in part, r # <<>>
      PROVE  \E s \in part : Precedes(f, s, r)
  <2>1. PICK s \in walk : Precedes(f, s, r)
    BY <1>2, <1>8
  <2>2. s \in Words /\ r \in Words /\ IsPrefix(s, r) /\ IsPrefix(r, p)
    BY <1>1, <1>6, <2>1 DEF Precedes
  <2>3. s \in Prefixes(p)
    BY <1>4, <1>6, <2>2, PrefixOfPrefix
  <2> QED
    BY <2>1, <2>3
<1>9. Walked(f, p)
  <2>1. part \in SUBSET Prefixes(p) /\ \A r \in part : r = <<>> \/ \E s \in part : Precedes(f, s, r)
    BY <1>8
  <2> HIDE DEF part
  <2> QED
    BY <1>7, <2>1 DEF Walked
<1> QED
  BY <1>3, <1>4, <1>5, <1>9

\* What holds of a path when it holds of the shorter ones, holds of all.
LEMMA PathInduction ==
    ASSUME NEW X,
           \A q \in Paths : (\A r \in Paths : Len(r) < Len(q) => r \in X) => q \in X
    PROVE  Paths \subseteq X
<1> SUFFICES ASSUME NEW z \in Paths, z \notin X PROVE FALSE
  OBVIOUS
<1> DEFINE Lengths == {Len(q) : q \in Paths \ X}
<1>1. \A q \in Paths : Len(q) \in Nat
  BY PathsAre, WordIs
<1>2. Lengths \subseteq Nat /\ Lengths # {}
  <2>1. Len(z) \in Lengths
    OBVIOUS
  <2>2. \A m \in Lengths : m \in Nat
    BY <1>1
  <2> QED
    BY <2>1, <2>2
<1>3. PICK n \in Lengths : \A m \in Lengths : n <= m
  <2> HIDE DEF Lengths
  <2> QED
    BY <1>2, LeastNumber
<1>4. PICK q \in Paths \ X : n = Len(q)
  BY <1>3
<1>5. ASSUME NEW r \in Paths, Len(r) < Len(q)
      PROVE  r \in X
  <2>1. SUFFICES ASSUME r \notin X PROVE FALSE
    OBVIOUS
  <2>2. Len(r) \in Lengths
    BY <2>1
  <2>3. n <= Len(r) /\ n \in Nat /\ Len(r) \in Nat
    BY <1>1, <1>2, <1>3, <2>2
  <2> QED
    BY <1>4, <1>5, <2>3
<1> QED
  BY <1>4, <1>5

\* What holds of the root and is handed on along branches, holds where they lead.
LEMMA WalkInduction ==
    ASSUME NEW f, IsTrie(f), NEW X, <<>> \in X,
           \A p \in Paths : \A q \in Paths :
               p \in X /\ Walked(f, p) /\ Precedes(f, p, q) => q \in X
    PROVE  \A q \in Paths : Walked(f, q) => q \in X
<1> DEFINE Y == {q \in Paths : Walked(f, q) => q \in X}
<1>1. ASSUME NEW q \in Paths, \A r \in Paths : Len(r) < Len(q) => r \in Y
      PROVE  q \in Y
  <2>1. SUFFICES ASSUME Walked(f, q), q # <<>> PROVE q \in X
    OBVIOUS
  <2>2. PICK p \in Paths : Walked(f, p) /\ Precedes(f, p, q) /\ Len(p) < Len(q)
    BY <2>1, WalkedBack
  <2>3. p \in X
    BY <1>1, <2>2
  <2> QED
    BY <2>2, <2>3
<1>2. Paths \subseteq Y
  <2> HIDE DEF Y
  <2> QED
    BY <1>1, PathInduction
<1> QED
  BY <1>2

\* The manifests that branches lead to are sorted, and every branch has one.
Whole(f) ==
    /\ IsTrie(f)
    /\ \A p \in Paths : Walked(f, p) /\ f[p] # Absent =>
          /\ Sorted(f[p])
          /\ \A n \in Words : Contains(f[p], Branch(n)) => f[p \o n] # Absent

\* The index has the value v for key k.
HasLeaf(f, k, v) ==
    \E p \in Paths : /\ IsPrefix(p, k) /\ Walked(f, p) /\ f[p] # Absent
                     /\ Contains(f[p], Leaf(After(k, p), v))

LEMMA LongerPath ==
    ASSUME NEW p \in Words, NEW q \in Words, IsPrefix(p, q), p # q
    PROVE  Len(p) < Len(q)
<1>1. Len(p) \in Nat /\ Len(q) \in Nat
  BY WordIs
<1> QED
  BY <1>1, PrefixAsLong

\* Of the entries of a sorted manifest one can lead to a key.
LEMMA OneWay ==
    ASSUME NEW es \in Manifests, Sorted(es), NEW d \in Entry, NEW e \in Entry,
           Contains(es, d), Contains(es, e), NEW k \in Words,
           \/ d.name = e.name
           \/ /\ d.name # <<>> /\ IsPrefix(d.name, k)
              /\ e.name # <<>> /\ IsPrefix(e.name, k)
    PROVE  d = e
<1>1. PICK i \in 1..Len(es) : es[i] = d
  BY DEF Contains
<1>2. PICK j \in 1..Len(es) : es[j] = e
  BY DEF Contains
<1>3. Letter(d) = Letter(e)
  <2>1. CASE d.name = e.name
    BY <2>1 DEF Letter
  <2>2. CASE /\ d.name # <<>> /\ IsPrefix(d.name, k)
             /\ e.name # <<>> /\ IsPrefix(e.name, k)
    <3>1. d.name \in Words /\ e.name \in Words
      BY EntryIs
    <3>2. /\ \A a \in 1..Len(d.name) : d.name[a] = k[a]
          /\ \A a \in 1..Len(e.name) : e.name[a] = k[a]
      BY <2>2, <3>1, PrefixIs
    <3>3. 1 \in 1..Len(d.name) /\ 1 \in 1..Len(e.name)
      BY <2>2, <3>1, WordIs
    <3> QED
      BY <2>2, <3>2, <3>3 DEF Letter
  <2> QED
    BY <2>1, <2>2
<1>4. i = j
  BY <1>1, <1>2, <1>3, LettersDiffer
<1> QED
  BY <1>1, <1>2, <1>4

\* From a manifest on the way to another one a branch leads towards it.
LEMMA BranchOnTheWay ==
    ASSUME NEW f, Whole(f), NEW p \in Paths, NEW q \in Paths, Walked(f, p), Walked(f, q),
           IsPrefix(p, q), p # q
    PROVE  /\ f[p] # Absent
           /\ \E n \in Words : n # <<>> /\ Contains(f[p], Branch(n)) /\ IsPrefix(p \o n, q)
<1> DEFINE On(r, s) == /\ f[r] # Absent
                       /\ \E n \in Words : n # <<>> /\ Contains(f[r], Branch(n)) /\ IsPrefix(r \o n, s)
           X == {s \in Paths : \A r \in Paths :
                    Walked(f, r) /\ Walked(f, s) /\ IsPrefix(r, s) /\ r # s => On(r, s)}
<1>1. IsTrie(f) /\ Paths \subseteq Words
  BY PathsAre DEF Whole
<1>2. ASSUME NEW s \in Paths, \A t \in Paths : Len(t) < Len(s) => t \in X,
             NEW r \in Paths, Walked(f, r), Walked(f, s), IsPrefix(r, s), r # s
      PROVE  On(r, s)
  <2>1. r \in Words /\ s \in Words /\ Len(r) < Len(s) /\ Len(r) \in Nat /\ Len(s) \in Nat
    BY <1>1, <1>2, LongerPath, WordIs
  <2>2. s # <<>>
    BY <2>1, EmptyWord
  <2>3. PICK t \in Paths : Walked(f, t) /\ Precedes(f, t, s) /\ Len(t) < Len(s)
    BY <1>1, <1>2, <2>2, WalkedBack
  <2>4. PICK m \in Words : /\ m = After(s, t) /\ m # <<>> /\ t \o m = s
                           /\ Contains(f[t], Branch(m)) /\ f[t] # Absent /\ IsPrefix(t, s)
    BY <1>1, <2>3, PrecedesIs
  <2>5. t \in Words /\ Len(t) \in Nat
    BY <1>1, WordIs
  <2>6. CASE t = r
    <3>1. IsPrefix(r \o m, s)
      BY <2>1, <2>4, <2>6, PrefixItself
    <3> QED
      BY <2>4, <2>6, <3>1
  <2>7. CASE t # r /\ Len(r) <= Len(t)
    <3>1. IsPrefix(r, t)
      BY <1>2, <2>1, <2>4, <2>5, <2>7, PrefixesOfOne
    <3>2. On(r, t)
      BY <1>2, <2>3, <2>7, <3>1
    <3>3. PICK n \in Words : n # <<>> /\ Contains(f[r], Branch(n)) /\ IsPrefix(r \o n, t)
      BY <3>2
    <3>4. IsPrefix(r \o n, s)
      <4>1. r \o n \in Words
        BY <2>1, ConcatIs
      <4> QED
        BY <2>1, <2>4, <2>5, <3>3, <4>1, PrefixOfPrefix
    <3> QED
      BY <3>2, <3>3, <3>4
  <2>8. CASE ~(Len(r) <= Len(t))
    <3>1. IsPrefix(t, r) /\ t # r
      BY <1>2, <2>1, <2>4, <2>5, <2>8, PrefixesOfOne
    <3>2. On(t, r)
      BY <1>2, <2>1, <2>3, <3>1
    <3>3. PICK n \in Words : n # <<>> /\ Contains(f[t], Branch(n)) /\ IsPrefix(t \o n, r)
      BY <3>2
    <3>4. t \o n \in Words /\ IsPrefix(t \o n, s)
      BY <1>2, <2>1, <2>5, <3>3, ConcatIs, PrefixOfPrefix
    <3>5. IsPrefix(n, m) /\ IsPrefix(m, m)
      BY <2>1, <2>4, <2>5, <3>4, AfterKeepsPrefix, PrefixItself
    <3>6. f[t] \in Manifests /\ Sorted(f[t])
      BY <1>1, <2>3, <2>4, ManifestThere DEF Whole
    <3>7. /\ Branch(n) \in Entry /\ Branch(n).name = n
          /\ Branch(m) \in Entry /\ Branch(m).name = m
      BY MadeEntries
    <3>8. Branch(n) = Branch(m)
      BY <2>4, <3>3, <3>5, <3>6, <3>7, OneWay
    <3>9. n = m
      BY <3>7, <3>8
    <3>10. IsPrefix(s, r)
      BY <2>4, <3>3, <3>9
    <3>11. s = r
      BY <2>1, <3>10, PrefixAsLong
    <3> QED
      BY <1>2, <3>11
  <2> QED
    BY <2>6, <2>7, <2>8
<1>3. \A s \in Paths : (\A t \in Paths : Len(t) < Len(s) => t \in X) => s \in X
  BY <1>2
<1>4. Paths \subseteq X
  <2> HIDE DEF X
  <2> QED
    BY <1>3, PathInduction
<1>5. On(p, q)
  BY <1>4
<1> QED
  BY <1>5

\* Below the leaf of a key there is nothing on the way to the key.
LEMMA NothingBelow ==
    ASSUME NEW f, Whole(f), NEW k \in Keys, NEW p \in Paths, NEW q \in Paths,
           Walked(f, p), Walked(f, q), IsPrefix(p, q), IsPrefix(q, k), f[p] # Absent,
           NEW e \in Entry, Contains(f[p], e), IsKey(e, After(k, p))
    PROVE  p = q
<1>1. SUFFICES ASSUME p # q PROVE FALSE
  OBVIOUS
<1>2. PICK n \in Words : n # <<>> /\ Contains(f[p], Branch(n)) /\ IsPrefix(p \o n, q)
  BY <1>1, BranchOnTheWay
<1>3. p \in Words /\ q \in Words /\ k \in Words /\ IsPrefix(p, k) /\ p \o n \in Words
  BY PathsAre, PrefixOfPrefix, ConcatIs
<1>4. PICK a \in Words : a = After(k, p)
  BY <1>3, AfterIs
<1>5. IsPrefix(n, a)
  <2>1. IsPrefix(p \o n, k)
    BY <1>2, <1>3, PrefixOfPrefix
  <2> QED
    BY <1>3, <1>4, <2>1, AfterKeepsPrefix
<1>6. a # <<>>
  <2>1. Len(n) \in Nat /\ Len(n) # 0 /\ Len(n) <= Len(a)
    BY <1>2, <1>5, PrefixIs, WordIs
  <2> QED
    BY <2>1, EmptyWord
<1>7. e.name = a /\ e.kind = "leaf"
  BY <1>4 DEF IsKey
<1>8. Branch(n) \in Entry /\ Branch(n).name = n /\ Branch(n).kind = "branch"
  BY MadeEntries
<1>9. f[p] \in Manifests /\ Sorted(f[p])
  BY ManifestThere DEF Whole
<1>10. e = Branch(n)
  BY <1>2, <1>5, <1>6, <1>7, <1>8, <1>9, OneWay, PrefixItself
<1> QED
  BY <1>7, <1>8, <1>10

LEMMA OneLeaf ==
    ASSUME NEW f, Whole(f), NEW k \in Keys, NEW p \in Paths, NEW q \in Paths,
           Walked(f, p), Walked(f, q), IsPrefix(p, k), IsPrefix(q, k),
           f[p] # Absent, f[q] # Absent,
           NEW d \in Entry, Contains(f[p], d), IsKey(d, After(k, p)),
           NEW e \in Entry, Contains(f[q], e), IsKey(e, After(k, q))
    PROVE  p = q /\ d = e
<1>1. p \in Words /\ q \in Words /\ k \in Words /\ Len(p) \in Nat /\ Len(q) \in Nat
  BY PathsAre, WordIs
<1>2. IsPrefix(p, q) \/ IsPrefix(q, p)
  BY <1>1, PrefixesOfOne
<1>3. p = q
  BY <1>2, NothingBelow
<1>4. d.name = e.name
  BY <1>3 DEF IsKey
<1>5. f[p] \in Manifests /\ Sorted(f[p])
  BY ManifestThere DEF Whole
<1>6. After(k, p) \in Words
  BY <1>1, AfterIs
<1> QED
  BY <1>3, <1>4, <1>5, <1>6, OneWay

-----------------------------------------------------------------------------
\* The map a trie stands for.

IsLeafAt(f, k, p, i) ==
    /\ p \in Paths /\ IsPrefix(p, k) /\ Walked(f, p) /\ f[p] # Absent
    /\ i \in 1..Len(f[p]) /\ IsKey(f[p][i], After(k, p))

LEMMA LeavesAre ==
    ASSUME NEW f, IsTrie(f), NEW k \in Keys
    PROVE  \A l : l \in Leaves(f, k) <=> \E p, i : l = <<p, i>> /\ IsLeafAt(f, k, p, i)
<1>1. k \in Words /\ Prefixes(k) = {s \in Words : IsPrefix(s, k)}
  BY PathsAre, PrefixesAre
<1>2. \A p : p \in Reached(f, k) /\ f[p] # Absent
               <=> p \in Paths /\ IsPrefix(p, k) /\ Walked(f, p) /\ f[p] # Absent
  BY <1>1, PathsAre DEF Reached
<1>3. \A p \in Paths : f[p] # Absent => DOMAIN f[p] = 1..Len(f[p])
  BY ManifestThere, ManifestIs
<1>4. ASSUME NEW l, l \in Leaves(f, k)
      PROVE  \E p, i : l = <<p, i>> /\ IsLeafAt(f, k, p, i)
  <2>1. PICK p \in {q \in Reached(f, k) : f[q] # Absent} :
          l \in {p} \X {i \in DOMAIN f[p] : IsKey(f[p][i], After(k, p))}
    BY <1>4 DEF Leaves
  <2>2. PICK i : l = <<p, i>> /\ i \in DOMAIN f[p] /\ IsKey(f[p][i], After(k, p))
    BY <2>1
  <2> QED
    BY <1>2, <1>3, <2>1, <2>2 DEF IsLeafAt
<1>5. ASSUME NEW l, NEW p, NEW i, l = <<p, i>>, IsLeafAt(f, k, p, i)
      PROVE  l \in Leaves(f, k)
  <2>1. p \in {q \in Reached(f, k) : f[q] # Absent}
    BY <1>2, <1>5 DEF IsLeafAt
  <2>2. l \in {p} \X {j \in DOMAIN f[p] : IsKey(f[p][j], After(k, p))}
    BY <1>3, <1>5 DEF IsLeafAt
  <2> QED
    BY <2>1, <2>2 DEF Leaves
<1> QED
  BY <1>4, <1>5

LEMMA LeafValue ==
    ASSUME NEW f, IsTrie(f), NEW k \in Keys, NEW p, NEW i, IsLeafAt(f, k, p, i)
    PROVE  /\ f[p] \in Manifests /\ f[p][i] \in Entry /\ Contains(f[p], f[p][i])
           /\ f[p][i].value \in Values /\ f[p][i] = Leaf(After(k, p), f[p][i].value)
<1>1. p \in Paths /\ f[p] # Absent /\ i \in 1..Len(f[p])
      /\ f[p][i].kind = "leaf" /\ f[p][i].name = After(k, p)
  BY DEF IsLeafAt, IsKey
<1>2. f[p] \in Manifests
  BY <1>1, ManifestThere
<1>3. PICK e \in Entry : e = f[p][i]
  BY <1>1, <1>2, ManifestIs
<1>4. e.value \in Values /\ e = Leaf(e.name, e.value)
  BY <1>1, <1>3, EntryIs
<1>5. Contains(f[p], e)
  BY <1>1, <1>3 DEF Contains
<1> QED
  BY <1>1, <1>2, <1>3, <1>4, <1>5

\* The value is that of a leaf of the key.
LEMMA ContentFromLeaf ==
    ASSUME NEW f, IsTrie(f), NEW k \in Keys
    PROVE  \/ ContentOf(f)[k] = None /\ \A p, i : ~IsLeafAt(f, k, p, i)
           \/ \E p, i : IsLeafAt(f, k, p, i) /\ ContentOf(f)[k] = f[p][i].value
<1> DEFINE L == Leaves(f, k)
           least(l) == \A m \in L : l[2] <= m[2]
           z == CHOOSE l \in L : least(l)
<1>1. ContentOf(f)[k] = IF L = {} THEN None ELSE f[z[1]][z[2]].value
  BY DEF ContentOf
<1>2. CASE L = {}
  <2>1. ASSUME NEW p, NEW i, IsLeafAt(f, k, p, i)
        PROVE  FALSE
    <3>1. <<p, i>> \in L
      BY <2>1, LeavesAre
    <3> QED
      BY <1>2, <3>1
  <2> QED
    BY <1>1, <1>2, <2>1
<1>3. CASE L # {}
  <2> DEFINE S == {l[2] : l \in L}
  <2>1. \A l \in L : l[2] \in Nat
    <3>1. SUFFICES ASSUME NEW l \in L PROVE l[2] \in Nat
      OBVIOUS
    <3>2. PICK p, i : l = <<p, i>> /\ IsLeafAt(f, k, p, i)
      BY LeavesAre
    <3>3. i \in 1..Len(f[p]) /\ Len(f[p]) \in Nat
      BY <3>2, LeafValue, ManifestIs DEF IsLeafAt
    <3> QED
      BY <3>2, <3>3
  <2>2. S \subseteq Nat /\ S # {}
    BY <1>3, <2>1
  <2>3. PICK n \in S : \A m \in S : n <= m
    <3> HIDE DEF S
    <3> QED
      BY <2>2, LeastNumber
  <2>4. \E l \in L : least(l)
    <3>1. PICK l \in L : n = l[2]
      BY <2>3
    <3>2. \A m \in L : l[2] <= m[2]
      BY <2>3, <3>1
    <3> QED
      BY <3>2
  <2>5. z \in L
    BY <2>4
  <2> HIDE DEF z
  <2>6. PICK p, i : z = <<p, i>> /\ IsLeafAt(f, k, p, i)
    BY <2>5, LeavesAre
  <2>7. ContentOf(f)[k] = f[p][i].value
    BY <1>1, <1>3, <2>6
  <2> QED
    BY <2>6, <2>7
<1> QED
  BY <1>2, <1>3

LEMMA ContentTyped ==
    ASSUME NEW f, IsTrie(f)
    PROVE  ContentOf(f) \in [Keys -> Values \cup {None}]
<1>1. \A k \in Keys : ContentOf(f)[k] \in Values \cup {None}
  BY ContentFromLeaf, LeafValue
<1>2. \A k \in Keys : ContentOf(f)[k] \in Values \cup {None}
  BY <1>1
<1>3. PICK g : g = ContentOf(f)
  OBVIOUS
<1>4. DOMAIN g = Keys /\ g = [k \in Keys |-> g[k]]
  BY <1>3 DEF ContentOf
<1> QED
  BY <1>2, <1>3, <1>4

LEMMA LeafIsAt ==
    ASSUME NEW f, IsTrie(f), NEW k \in Keys, NEW p \in Paths, NEW e \in Entry,
           IsPrefix(p, k), Walked(f, p), f[p] # Absent, Contains(f[p], e), IsKey(e, After(k, p))
    PROVE  \E i : IsLeafAt(f, k, p, i) /\ f[p][i] = e
  BY DEF Contains, IsLeafAt

\* In a whole trie there is one leaf of a key, and it is in the manifest where a
\* walk for the key comes to it.
LEMMA ContentIs ==
    ASSUME NEW f, Whole(f), NEW k \in Keys
    PROVE  /\ ContentOf(f)[k] \in Values \cup {None}
           /\ \A v \in Values : ContentOf(f)[k] = v <=> HasLeaf(f, k, v)
<1>1. IsTrie(f) /\ k \in Words /\ None \notin Values
  BY PathsAre, KVAssumption DEF Whole
<1>2. ContentOf(f)[k] \in Values \cup {None}
  BY <1>1, ContentTyped
<1>3. ASSUME NEW v \in Values, ContentOf(f)[k] = v
      PROVE  HasLeaf(f, k, v)
  <2>1. PICK p, i : IsLeafAt(f, k, p, i) /\ ContentOf(f)[k] = f[p][i].value
    BY <1>1, <1>3, ContentFromLeaf
  <2>2. Contains(f[p], Leaf(After(k, p), v))
    BY <1>1, <1>3, <2>1, LeafValue
  <2> QED
    BY <2>1, <2>2 DEF HasLeaf, IsLeafAt
<1>4. ASSUME NEW v \in Values, HasLeaf(f, k, v)
      PROVE  ContentOf(f)[k] = v
  <2>1. PICK p \in Paths : /\ IsPrefix(p, k) /\ Walked(f, p) /\ f[p] # Absent
                           /\ Contains(f[p], Leaf(After(k, p), v))
    BY <1>4 DEF HasLeaf
  <2>2. After(k, p) \in Words
    BY <1>1, PathsAre, AfterIs
  <2>3. PICK e \in Entry : e = Leaf(After(k, p), v) /\ IsKey(e, After(k, p)) /\ e.value = v
    BY <2>2, MadeEntries DEF IsKey
  <2>4. PICK i : IsLeafAt(f, k, p, i) /\ f[p][i] = e
    BY <1>1, <2>1, <2>3, LeafIsAt
  <2>5. PICK q, j : IsLeafAt(f, k, q, j) /\ ContentOf(f)[k] = f[q][j].value
    BY <1>1, <2>4, ContentFromLeaf
  <2>6. f[q][j] \in Entry /\ Contains(f[q], f[q][j])
    BY <1>1, <2>5, LeafValue
  <2>7. f[q][j] = e
    BY <2>1, <2>3, <2>5, <2>6, OneLeaf DEF IsLeafAt
  <2> QED
    BY <2>3, <2>5, <2>7
<1> QED
  BY <1>2, <1>3, <1>4

\* Tries with the same leaves are the same map.
LEMMA SameContent ==
    ASSUME NEW f, NEW g, Whole(f), Whole(g), NEW k \in Keys,
           \A v \in Values : HasLeaf(f, k, v) <=> HasLeaf(g, k, v)
    PROVE  ContentOf(f)[k] = ContentOf(g)[k]
<1>1. /\ ContentOf(f)[k] \in Values \cup {None} /\ ContentOf(g)[k] \in Values \cup {None}
      /\ \A v \in Values : ContentOf(f)[k] = v <=> HasLeaf(f, k, v)
      /\ \A v \in Values : ContentOf(g)[k] = v <=> HasLeaf(g, k, v)
  BY ContentIs
<1> QED
  BY <1>1

-----------------------------------------------------------------------------
\* What the stores do to a trie.

\* g is f with m at p.
Stored(f, g, p, m) ==
    g[p] = m /\ \A q \in Paths : q # p => g[q] = f[q]

LEMMA StoredIs ==
    ASSUME NEW f, IsTrie(f), NEW p \in Paths, NEW m \in Manifests \cup {Absent},
           m # Absent => Spells(p, m)
    PROVE  LET g == [f EXCEPT ![p] = m] IN IsTrie(g) /\ Stored(f, g, p, m)
  BY DEF IsTrie, Stored

LEMMA WalkedToo ==
    ASSUME NEW f, IsTrie(f), NEW g,
           \A r \in Paths : \A s \in Paths :
               Walked(f, r) /\ Walked(g, r) /\ Precedes(f, r, s) => Walked(g, s)
    PROVE  \A q \in Paths : Walked(f, q) => Walked(g, q)
<1> DEFINE X == {q \in Paths : Walked(g, q)}
<1>1. <<>> \in X
  BY PathsAre, WalkedRoot
<1>2. \A r \in Paths : \A s \in Paths : r \in X /\ Walked(f, r) /\ Precedes(f, r, s) => s \in X
  OBVIOUS
<1>3. \A q \in Paths : Walked(f, q) => q \in X
  <2> HIDE DEF X
  <2> QED
    BY <1>1, <1>2, WalkInduction
<1> QED
  BY <1>3

\* A value of one key changes.
LEMMA ContentChanges ==
    ASSUME NEW f, IsTrie(f), NEW g, IsTrie(g), NEW k \in Keys, NEW v,
           ContentOf(g)[k] = v,
           \A j \in Keys : j # k => ContentOf(g)[j] = ContentOf(f)[j]
    PROVE  ContentOf(g) = [ContentOf(f) EXCEPT ![k] = v]
<1>1. ContentOf(f) \in [Keys -> Values \cup {None}] /\ ContentOf(g) \in [Keys -> Values \cup {None}]
  BY ContentTyped
<1>2. PICK cf \in [Keys -> Values \cup {None}] : cf = ContentOf(f)
  BY <1>1
<1>3. PICK cg \in [Keys -> Values \cup {None}] : cg = ContentOf(g)
  BY <1>1
<1>4. cg = [cf EXCEPT ![k] = v]
  BY <1>2, <1>3
<1> QED
  BY <1>2, <1>3, <1>4

LEMMA ContentStays ==
    ASSUME NEW f, IsTrie(f), NEW g, IsTrie(g),
           \A j \in Keys : ContentOf(g)[j] = ContentOf(f)[j]
    PROVE  ContentOf(g) = ContentOf(f)
<1>1. ContentOf(f) \in [Keys -> Values \cup {None}] /\ ContentOf(g) \in [Keys -> Values \cup {None}]
  BY ContentTyped
<1>2. PICK cf \in [Keys -> Values \cup {None}] : cf = ContentOf(f)
  BY <1>1
<1>3. PICK cg \in [Keys -> Values \cup {None}] : cg = ContentOf(g)
  BY <1>1
<1>4. cg = cf
  BY <1>2, <1>3
<1> QED
  BY <1>2, <1>3, <1>4

\* A manifest to which no branch leads yet changes nothing.
LEMMA OffTheWalk ==
    ASSUME NEW f, Whole(f), NEW p \in Paths, ~Walked(f, p), NEW m \in Manifests,
           NEW g, IsTrie(g), Stored(f, g, p, m)
    PROVE  /\ Whole(g)
           /\ \A q \in Paths : Walked(g, q) <=> Walked(f, q)
           /\ ContentOf(g) = ContentOf(f)
<1>1. IsTrie(f)
  BY DEF Whole
<1>2. \A r \in Paths : Walked(f, r) => g[r] = f[r]
  BY DEF Stored
<1>3. \A r \in Paths : \A s \in Paths :
         Walked(f, r) => (Precedes(f, r, s) <=> Precedes(g, r, s))
  BY <1>2 DEF Precedes
<1>4. \A q \in Paths : Walked(f, q) => Walked(g, q)
  BY <1>1, <1>3, WalkedOn, WalkedToo
<1>5. \A q \in Paths : Walked(g, q) => Walked(f, q)
  BY <1>3, WalkedOn, WalkedToo
<1>6. Whole(g)
  <2>1. SUFFICES ASSUME NEW q \in Paths, Walked(g, q), g[q] # Absent
                 PROVE  /\ Sorted(g[q])
                        /\ \A n \in Words : Contains(g[q], Branch(n)) => g[q \o n] # Absent
    BY DEF Whole
  <2>2. Walked(f, q) /\ g[q] = f[q]
    BY <1>2, <1>5, <2>1
  <2>3. ASSUME NEW n \in Words, Contains(f[q], Branch(n))
        PROVE  g[q \o n] # Absent
    <3>1. q \o n \in Paths /\ Precedes(f, q, q \o n)
      BY <1>1, <2>1, <2>2, <2>3, BranchLeads
    <3>2. Walked(f, q \o n)
      BY <2>2, <3>1, WalkedOn
    <3>3. f[q \o n] # Absent
      BY <2>1, <2>2, <2>3 DEF Whole
    <3> QED
      BY <1>2, <3>1, <3>2, <3>3
  <2> QED
    BY <2>1, <2>2, <2>3 DEF Whole
<1>7. \A k \in Keys : \A v \in Values : HasLeaf(f, k, v) <=> HasLeaf(g, k, v)
  BY <1>2, <1>4, <1>5 DEF HasLeaf
<1> QED
  BY <1>1, <1>4, <1>5, <1>6, <1>7, SameContent, ContentStays

\* A manifest that differs in the leaves of one key.
LEMMA LeafStored ==
    ASSUME NEW f, Whole(f), NEW k \in Keys, NEW p \in Paths, Walked(f, p), IsPrefix(p, k),
           f[p] # Absent, NEW m \in Manifests, Sorted(m), Spells(p, m),
           \A x \in Entry : ~IsKey(x, After(k, p)) => (Contains(m, x) <=> Contains(f[p], x)),
           NEW g, IsTrie(g), Stored(f, g, p, m)
    PROVE  /\ Whole(g)
           /\ \A q \in Paths : Walked(g, q) <=> Walked(f, q)
           /\ \A j \in Keys : j # k => ContentOf(g)[j] = ContentOf(f)[j]
<1>1. IsTrie(f) /\ m # Absent /\ k \in Words /\ p \in Words
  BY ManifestNotAbsent, PathsAre DEF Whole
<1>2. \A q \in Paths : (g[q] # Absent <=> f[q] # Absent) /\ (q # p => g[q] = f[q]) /\ g[p] = m
  BY <1>1 DEF Stored
<1>3. \A q \in Paths : \A n \in Words : Contains(g[q], Branch(n)) <=> Contains(f[q], Branch(n))
  <2>1. \A n \in Words : Branch(n) \in Entry /\ ~IsKey(Branch(n), After(k, p))
    BY MadeEntries DEF IsKey
  <2> QED
    BY <1>2, <2>1
<1>4. \A r \in Paths : \A s \in Paths : Precedes(f, r, s) <=> Precedes(g, r, s)
  <2>1. \A r \in Paths : \A s \in Paths : After(s, r) \in Words
    BY PathsAre, AfterIs
  <2> QED
    BY <1>2, <1>3, <2>1 DEF Precedes
<1>5. \A q \in Paths : Walked(f, q) => Walked(g, q)
  BY <1>1, <1>4, WalkedOn, WalkedToo
<1>6. \A q \in Paths : Walked(g, q) => Walked(f, q)
  BY <1>4, WalkedOn, WalkedToo
<1>7. Whole(g)
  <2>1. SUFFICES ASSUME NEW q \in Paths, Walked(g, q), g[q] # Absent
                 PROVE  /\ Sorted(g[q])
                        /\ \A n \in Words : Contains(g[q], Branch(n)) => g[q \o n] # Absent
    BY DEF Whole
  <2>2. Walked(f, q) /\ f[q] # Absent
    BY <1>2, <1>6, <2>1
  <2>3. ASSUME NEW n \in Words, Contains(g[q], Branch(n))
        PROVE  g[q \o n] # Absent
    <3>1. Contains(f[q], Branch(n)) /\ f[q \o n] # Absent
      BY <1>3, <2>2, <2>3 DEF Whole
    <3>2. q \o n \in Paths
      BY <1>1, <2>2, <3>1, BranchLeads
    <3> QED
      BY <1>2, <3>1, <3>2
  <2>4. Sorted(g[q])
    BY <1>2, <2>2 DEF Whole
  <2> QED
    BY <2>3, <2>4
<1>8. ASSUME NEW j \in Keys, j # k
      PROVE  ContentOf(g)[j] = ContentOf(f)[j]
  <2>1. ASSUME NEW q \in Paths, IsPrefix(q, j), NEW v \in Values
        PROVE  Contains(g[q], Leaf(After(j, q), v)) <=> Contains(f[q], Leaf(After(j, q), v))
    <3>1. q \in Words /\ j \in Words /\ After(j, q) \in Words
      BY PathsAre, AfterIs
    <3>2. CASE q # p
      BY <1>2, <3>2
    <3>3. CASE q = p
      <4>1. After(j, p) # After(k, p)
        BY <1>1, <1>8, <2>1, <3>1, <3>3, PrefixAndAfter
      <4>2. /\ Leaf(After(j, p), v) \in Entry
            /\ ~IsKey(Leaf(After(j, p), v), After(k, p))
        BY <3>1, <3>3, <4>1, MadeEntries DEF IsKey
      <4> QED
        BY <1>2, <3>3, <4>2
    <3> QED
      BY <3>2, <3>3
  <2>2. \A v \in Values : HasLeaf(f, j, v) <=> HasLeaf(g, j, v)
    BY <1>2, <1>5, <1>6, <2>1 DEF HasLeaf
  <2> QED
    BY <1>7, <2>2, SameContent
<1> QED
  BY <1>5, <1>6, <1>7, <1>8

LEMMA LeafPut ==
    ASSUME NEW f, Whole(f), NEW k \in Keys, NEW p \in Paths, Walked(f, p), IsPrefix(p, k),
           f[p] # Absent, NEW m \in Manifests, Sorted(m), Spells(p, m),
           \A x \in Entry : ~IsKey(x, After(k, p)) => (Contains(m, x) <=> Contains(f[p], x)),
           NEW g, IsTrie(g), Stored(f, g, p, m),
           NEW v \in Values, Contains(m, Leaf(After(k, p), v))
    PROVE  ContentOf(g) = [ContentOf(f) EXCEPT ![k] = v]
<1>1. /\ Whole(g) /\ Walked(g, p)
      /\ \A j \in Keys : j # k => ContentOf(g)[j] = ContentOf(f)[j]
  BY LeafStored
<1>2. HasLeaf(g, k, v)
  BY <1>1, ManifestNotAbsent DEF HasLeaf, Stored
<1>3. ContentOf(g)[k] = v
  BY <1>1, <1>2, ContentIs
<1>4. IsTrie(f)
  BY DEF Whole
<1> QED
  BY <1>1, <1>3, <1>4, ContentChanges

LEMMA LeafDeleted ==
    ASSUME NEW f, Whole(f), NEW k \in Keys, NEW p \in Paths, Walked(f, p), IsPrefix(p, k),
           f[p] # Absent, NEW m \in Manifests, Sorted(m), Spells(p, m),
           NEW e \in Entry, Contains(f[p], e), IsKey(e, After(k, p)),
           \A x : Contains(m, x) <=> Contains(f[p], x) /\ x # e,
           NEW g, IsTrie(g), Stored(f, g, p, m)
    PROVE  /\ Whole(g)
           /\ \A q \in Paths : Walked(g, q) <=> Walked(f, q)
           /\ ContentOf(g) = [ContentOf(f) EXCEPT ![k] = None]
<1>1. \A x \in Entry : ~IsKey(x, After(k, p)) => (Contains(m, x) <=> Contains(f[p], x))
  OBVIOUS
<1>2. /\ Whole(g) /\ \A q \in Paths : Walked(g, q) <=> Walked(f, q)
      /\ \A j \in Keys : j # k => ContentOf(g)[j] = ContentOf(f)[j]
  BY <1>1, LeafStored
<1>3. ASSUME NEW v \in Values, HasLeaf(g, k, v)
      PROVE  FALSE
  <2>1. PICK q \in Paths : /\ IsPrefix(q, k) /\ Walked(g, q) /\ g[q] # Absent
                           /\ Contains(g[q], Leaf(After(k, q), v))
    BY <1>3 DEF HasLeaf
  <2>2. After(k, q) \in Words
    BY PathsAre, AfterIs
  <2>3. PICK d \in Entry : d = Leaf(After(k, q), v) /\ IsKey(d, After(k, q))
    BY <2>2, MadeEntries DEF IsKey
  <2>4. Walked(f, q) /\ f[q] # Absent /\ Contains(f[q], d)
    BY <1>2, <2>1, <2>3 DEF Stored
  <2>5. p = q /\ e = d
    BY <2>1, <2>3, <2>4, OneLeaf
  <2> QED
    BY <2>1, <2>3, <2>5 DEF Stored
<1>4. ContentOf(g)[k] = None
  <2>1. /\ ContentOf(g)[k] \in Values \cup {None}
        /\ \A v \in Values : ContentOf(g)[k] = v <=> HasLeaf(g, k, v)
    BY <1>2, ContentIs
  <2> QED
    BY <1>3, <2>1
<1>5. IsTrie(f)
  BY DEF Whole
<1> QED
  BY <1>2, <1>4, <1>5, ContentChanges

\* Nothing leads to the place of a new branch.
LEMMA SplitOffTheWalk ==
    ASSUME NEW f, Whole(f), NEW p \in Paths, Walked(f, p), f[p] # Absent,
           NEW e \in Entry, Contains(f[p], e),
           NEW c \in Words, c # <<>>, IsPrefix(c, e.name), e.kind = "branch" => c # e.name,
           NEW q \in Paths, q = p \o c
    PROVE  ~Walked(f, q)
<1>1. SUFFICES ASSUME Walked(f, q) PROVE FALSE
  OBVIOUS
<1>2. p \in Words /\ q \in Words /\ e.name \in Words
  BY PathsAre, EntryIs
<1>3. IsPrefix(p, q) /\ After(q, p) = c
  BY <1>2, ConcatHasPrefix
<1>4. c # <<>> /\ p # q
  BY <1>1, <1>2, <1>3, ConcatIs, WordIs
<1>5. PICK n \in Words : n # <<>> /\ Contains(f[p], Branch(n)) /\ IsPrefix(p \o n, q)
  BY <1>1, <1>3, <1>4, BranchOnTheWay
<1>6. IsPrefix(n, c)
  BY <1>2, <1>3, <1>5, AfterKeepsPrefix
<1>7. IsPrefix(n, e.name) /\ IsPrefix(e.name, e.name)
  BY <1>2, <1>6, PrefixOfPrefix, PrefixItself
<1>8. e.name # <<>>
  BY <1>2, PrefixIs, WordIs, EmptyWord
<1>9. f[p] \in Manifests /\ Sorted(f[p])
  BY ManifestThere DEF Whole
<1>10. Branch(n) \in Entry /\ Branch(n).name = n /\ Branch(n).kind = "branch"
  BY MadeEntries
<1>11. e = Branch(n)
  BY <1>2, <1>5, <1>7, <1>8, <1>9, <1>10, OneWay
<1>12. n = c
  <2>1. IsPrefix(c, n) /\ Len(c) \in Nat /\ Len(n) \in Nat
    BY <1>10, <1>11, WordIs
  <2> QED
    BY <1>6, <2>1, PrefixIs, PrefixAsLong
<1> QED
  BY <1>10, <1>11, <1>12

\* The root of an empty table is made.
LEMMA RootMade ==
    ASSUME NEW f, IsTrie(f), f[<<>>] = Absent, NEW g, IsTrie(g), Stored(f, g, <<>>, <<>>)
    PROVE  /\ Whole(g)
           /\ \A q \in Paths : Walked(g, q) <=> Walked(f, q)
           /\ ContentOf(g) = ContentOf(f)
<1>1. <<>> \in Paths /\ g[<<>>] = <<>>
  BY PathsAre DEF Stored
<1>2. \A r \in Paths : ~Precedes(f, <<>>, r) /\ ~Precedes(g, <<>>, r)
  BY <1>1, EmptyManifest DEF Precedes
<1>3. \A h : IsTrie(h) /\ (\A r \in Paths : ~Precedes(h, <<>>, r))
               => \A q \in Paths : Walked(h, q) <=> q = <<>>
  <2>1. SUFFICES ASSUME NEW h, IsTrie(h), \A r \in Paths : ~Precedes(h, <<>>, r), NEW q \in Paths
                 PROVE  Walked(h, q) <=> q = <<>>
    OBVIOUS
  <2>2. \A r \in Paths : \A s \in Paths : r \in {<<>>} /\ Walked(h, r) /\ Precedes(h, r, s) => s \in {<<>>}
    BY <2>1
  <2>3. Walked(h, q) => q \in {<<>>}
    <3>1. PICK X : X = {<<>>}
      OBVIOUS
    <3> QED
      BY <2>1, <2>2, <3>1, WalkInduction
  <2> QED
    BY <2>3, WalkedRoot
<1>4. \A q \in Paths : (Walked(g, q) <=> q = <<>>) /\ (Walked(f, q) <=> q = <<>>)
  BY <1>2, <1>3
<1>5. Whole(g)
  BY <1>1, <1>4, EmptyManifest DEF Whole
<1>6. Whole(f)
  BY <1>4 DEF Whole
<1>7. \A j \in Keys : \A v \in Values : HasLeaf(f, j, v) <=> HasLeaf(g, j, v)
  BY <1>1, <1>4, EmptyManifest DEF HasLeaf
<1> QED
  BY <1>4, <1>5, <1>6, <1>7, SameContent, ContentStays

\* The root is erased.
LEMMA RootErased ==
    ASSUME NEW g, IsTrie(g), g[<<>>] = Absent
    PROVE  Whole(g) /\ ContentOf(g) = [k \in Keys |-> None]
<1>1. \A r \in Paths : ~Precedes(g, <<>>, r)
  BY DEF Precedes
<1>2. \A q \in Paths : Walked(g, q) => q = <<>>
  <2>1. PICK X : X = {<<>>}
    OBVIOUS
  <2>2. \A q \in Paths : Walked(g, q) => q \in X
    BY <1>1, <2>1, WalkInduction
  <2> QED
    BY <2>1, <2>2
<1>3. Whole(g)
  BY <1>2 DEF Whole
<1>4. \A k \in Keys : \A v \in Values : ~HasLeaf(g, k, v)
  BY <1>2 DEF HasLeaf
<1>5. \A k \in Keys : ContentOf(g)[k] = None
  BY <1>3, <1>4, ContentIs
<1>6. PICK cg \in [Keys -> Values \cup {None}] : cg = ContentOf(g)
  BY ContentTyped
<1>7. cg = [k \in Keys |-> None]
  BY <1>5, <1>6
<1> QED
  BY <1>3, <1>6, <1>7

\* At p the entry e gives way to a branch c: m is the manifest with the branch,
\* and that of the branch, at q, has a leaf for the key k at its end and, beside
\* it, what is left of e.
IsSplit(f, k, p, e, c, d, v, q, m) ==
    /\ Walked(f, p) /\ IsPrefix(p, k) /\ f[p] # Absent /\ Contains(f[p], e)
    /\ c # <<>> /\ IsPrefix(c, After(k, p)) /\ IsPrefix(c, e.name)
    /\ d.kind = e.kind /\ d.name = After(e.name, c) /\ d.value = e.value
    /\ q = p \o c /\ ~Walked(f, q) /\ f[q] # Absent /\ Sorted(f[q])
    /\ \A x : Contains(f[q], x) <=> x = Leaf(After(After(k, p), c), v) \/ x = d
    /\ Sorted(m)
    /\ \A x : Contains(m, x) <=> x = Branch(c) \/ (Contains(f[p], x) /\ x # e)

LEMMA SplitStored ==
    ASSUME NEW f, Whole(f), NEW k \in Keys, NEW p \in Paths, NEW e \in Entry, NEW c \in Words,
           NEW d \in Entry, NEW v \in Values, NEW q \in Paths, NEW m \in Manifests,
           IsSplit(f, k, p, e, c, d, v, q, m), NEW g, IsTrie(g), Stored(f, g, p, m)
    PROVE  /\ Whole(g)
           /\ \A r \in Paths : Walked(f, r) => Walked(g, r)
           /\ ContentOf(g) = [ContentOf(f) EXCEPT ![k] = v]
<1>0. /\ Walked(f, p) /\ IsPrefix(p, k) /\ f[p] # Absent /\ Contains(f[p], e)
      /\ c # <<>> /\ IsPrefix(c, After(k, p)) /\ IsPrefix(c, e.name)
      /\ d.kind = e.kind /\ d.name = After(e.name, c) /\ d.value = e.value
      /\ ~Walked(f, q) /\ f[q] # Absent /\ Sorted(f[q])
      /\ \A x : Contains(f[q], x) <=> x = Leaf(After(After(k, p), c), v) \/ x = d
      /\ Sorted(m)
      /\ \A x : Contains(m, x) <=> x = Branch(c) \/ (Contains(f[p], x) /\ x # e)
  BY DEF IsSplit
<1>q. q = p \o c
  BY DEF IsSplit
<1> USE <1>0
<1> DEFINE n == e.name
           t == p \o n
           a == After(k, p)
<1>1. /\ IsTrie(f) /\ p \in Words /\ q \in Words /\ k \in Words /\ n \in Words /\ a \in Words
      /\ After(n, c) \in Words /\ After(a, c) \in Words /\ t \in Words
  BY PathsAre, EntryIs, AfterIs, ConcatIs DEF Whole
<1>2. q # p /\ g[p] = m /\ m # Absent /\ \A r \in Paths : r # p => g[r] = f[r]
  BY ManifestNotAbsent DEF Stored
<1>3. IsPrefix(p, q) /\ After(q, p) = c /\ IsPrefix(p, t) /\ After(t, p) = n
  BY <1>q, <1>1, ConcatHasPrefix
<1>4. t = q \o After(n, c) /\ IsPrefix(q, t) /\ After(t, q) = After(n, c)
  <2>1. c \o After(n, c) = n
    BY <1>1, PrefixAndAfter
  <2>2. t = q \o After(n, c)
    <3>1. PICK u \in Words : u = After(n, c)
      BY <1>1
    <3>2. (p \o c) \o u = p \o (c \o u)
      <4>1. p \in Words /\ c \in Words /\ u \in Words
        BY <1>1
      <4> QED
        BY <4>1, ConcatThrice
    <3> QED
      BY <1>q, <2>1, <3>1, <3>2
  <2> HIDE DEF n, t
  <2> QED
    BY <1>1, <2>2, ConcatHasPrefix
<1>5. k = q \o After(a, c) /\ IsPrefix(q, k) /\ After(k, q) = After(a, c)
  <2>1. IsPrefix(q, k) /\ After(a, c) = After(k, q)
    BY <1>q, <1>1, AfterTwice
  <2> QED
    BY <1>1, <2>1, PrefixAndAfter
<1>6. Precedes(g, p, q)
  BY <1>2, <1>3 DEF Precedes
<1>7. /\ e.kind = "branch" => e = Branch(n) /\ d = Branch(After(n, c))
      /\ e.kind = "leaf" => e = Leaf(n, e.value) /\ d = Leaf(After(n, c), e.value)
      /\ e.kind = "branch" \/ e.kind = "leaf"
  BY EntryIs
<1> HIDE DEF n, t, a
<1>8. ASSUME e.kind = "branch"
      PROVE  t \in Paths /\ Precedes(f, p, t) /\ Precedes(g, q, t)
  <2>1. t \in Paths /\ Precedes(f, p, t)
    BY <1>1, <1>7, <1>8, BranchLeads DEF t
  <2>2. Contains(g[q], Branch(After(t, q)))
    BY <1>2, <1>4, <1>7, <1>8
  <2> QED
    BY <1>2, <1>4, <2>1, <2>2 DEF Precedes
<1>9. ASSUME NEW r \in Paths, NEW s \in Paths, Walked(f, r), Walked(g, r), Precedes(f, r, s)
      PROVE  Walked(g, s)
  <2>1. CASE r # p
    <3>1. Precedes(g, r, s)
      BY <1>2, <1>9, <2>1 DEF Precedes
    <3> QED
      BY <1>9, <3>1, WalkedOn
  <2>2. CASE r = p /\ Branch(After(s, p)) # e
    <3>1. Precedes(g, p, s)
      BY <1>2, <1>9, <2>2 DEF Precedes
    <3> QED
      BY <1>9, <2>2, <3>1, WalkedOn
  <2>3. CASE r = p /\ Branch(After(s, p)) = e
    <3>1. After(s, p) \in Words /\ p \o After(s, p) = s
      BY <1>1, <1>9, <2>3, PrecedesIs
    <3>2. n = After(s, p) /\ e.kind = "branch"
      BY <2>3, <3>1, MadeEntries DEF n
    <3>3. s = t
      BY <3>1, <3>2 DEF t
    <3>4. Walked(g, q)
      BY <1>6, <1>9, <2>3, WalkedOn
    <3> QED
      BY <1>8, <3>2, <3>3, <3>4, WalkedOn
  <2> QED
    BY <2>1, <2>2, <2>3
<1>10. \A r \in Paths : Walked(f, r) => Walked(g, r)
  BY <1>1, <1>9, WalkedToo
<1>11. Walked(g, q)
  BY <1>6, <1>10, WalkedOn
<1>12. \A r \in Paths : Walked(g, r) => Walked(f, r) \/ r = q
  <2> DEFINE X == {r \in Paths : Walked(f, r) \/ r = q}
  <2>1. <<>> \in X
    BY PathsAre, WalkedRoot
  <2>2. ASSUME NEW r \in Paths, NEW s \in Paths, r \in X, Precedes(g, r, s)
        PROVE  s \in X
    <3>1. /\ IsPrefix(r, s) /\ Contains(g[r], Branch(After(s, r))) /\ r \o After(s, r) = s
          /\ After(s, r) \in Words
      BY <2>2, PrecedesIs
    <3>2. CASE r = p
      <4>1. CASE Branch(After(s, p)) = Branch(c)
        <5>1. After(s, p) = c
          BY <3>1, <3>2, <4>1, MadeEntries
        <5> QED
          BY <1>q, <3>1, <3>2, <5>1
      <4>2. CASE Branch(After(s, p)) # Branch(c)
        <5>1. Precedes(f, p, s)
          BY <1>2, <3>1, <3>2, <4>2 DEF Precedes
        <5> QED
          BY <5>1, WalkedOn
      <4> QED
        BY <4>1, <4>2
    <3>3. CASE r = q
      <4>1. Contains(f[q], Branch(After(s, q)))
        BY <1>2, <3>1, <3>3
      <4>2. Branch(After(s, q)) # Leaf(After(After(k, p), c), v)
        BY DEF Branch, Leaf
      <4>3. Branch(After(s, q)) = d
        BY <4>1, <4>2
      <4>4. d.kind = "branch" /\ d.name = After(s, q)
        BY <3>1, <3>3, <4>3, MadeEntries
      <4>5. s = t
        BY <1>4, <3>1, <3>3, <4>4 DEF n
      <4> QED
        BY <1>8, <4>4, <4>5, WalkedOn
    <3>4. CASE r # p /\ r # q
      <4>1. Precedes(f, r, s) /\ Walked(f, r)
        BY <1>2, <2>2, <3>4 DEF Precedes
      <4> QED
        BY <4>1, WalkedOn
    <3> QED
      BY <3>2, <3>3, <3>4
  <2>3. \A r \in Paths : Walked(g, r) => r \in X
    <3> HIDE DEF X
    <3> QED
      BY <2>1, <2>2, WalkInduction
  <2> QED
    BY <2>3
<1>13. \A r \in Paths : g[r] # Absent <=> f[r] # Absent
  BY <1>2
<1>14. Whole(g)
  <2>1. SUFFICES ASSUME NEW r \in Paths, Walked(g, r), g[r] # Absent
                 PROVE  /\ Sorted(g[r])
                        /\ \A b \in Words : Contains(g[r], Branch(b)) => g[r \o b] # Absent
    BY DEF Whole
  <2>2. Sorted(g[r])
    BY <1>2, <1>12, <2>1 DEF Whole
  <2>3. ASSUME NEW b \in Words, Contains(g[r], Branch(b))
        PROVE  g[r \o b] # Absent
    <3>1. r \o b \in Paths
      BY <2>1, <2>3, BranchLeads
    <3>2. SUFFICES f[r \o b] # Absent
      BY <1>13, <3>1
    <3>3. CASE r = p
      <4>1. CASE Branch(b) = Branch(c)
        <5>1. b = c
          BY <4>1, MadeEntries
        <5> QED
          BY <1>q, <3>3, <5>1
      <4>2. CASE Branch(b) # Branch(c)
        BY <1>2, <2>3, <3>3, <4>2 DEF Whole
      <4> QED
        BY <4>1, <4>2
    <3>4. CASE r = q
      <4>1. Branch(b) = d
        <5>1. Contains(f[q], Branch(b))
          BY <1>2, <2>3, <3>4
        <5>2. Branch(b) # Leaf(After(After(k, p), c), v)
          BY DEF Branch, Leaf
        <5> QED
          BY <5>1, <5>2
      <4>2. d.kind = "branch" /\ b = After(n, c)
        BY <4>1, MadeEntries DEF n
      <4>3. Contains(f[p], Branch(n)) /\ r \o b = p \o n
        BY <1>4, <1>7, <3>4, <4>2 DEF t
      <4> QED
        BY <1>1, <4>3 DEF Whole
    <3>5. CASE r # p /\ r # q
      BY <1>2, <1>12, <2>1, <2>3, <3>5 DEF Whole
    <3> QED
      BY <3>3, <3>4, <3>5
  <2> QED
    BY <2>2, <2>3
<1>15. ASSUME NEW j \in Keys, j # k, NEW w \in Values, HasLeaf(g, j, w)
       PROVE  HasLeaf(f, j, w)
  <2>1. PICK r \in Paths : /\ IsPrefix(r, j) /\ Walked(g, r) /\ g[r] # Absent
                           /\ Contains(g[r], Leaf(After(j, r), w))
    BY <1>15 DEF HasLeaf
  <2>2. j \in Words /\ r \in Words /\ After(j, r) \in Words /\ r \o After(j, r) = j
    BY <2>1, PathsAre, AfterIs, PrefixAndAfter
  <2>3. CASE r = p
    <3>1. Leaf(After(j, r), w) # Branch(c)
      BY DEF Branch, Leaf
    <3>2. Contains(f[r], Leaf(After(j, r), w))
      BY <1>2, <2>1, <2>3, <3>1
    <3> QED
      BY <2>1, <2>3, <3>2 DEF HasLeaf
  <2>4. CASE r = q
    <3>1. Contains(f[q], Leaf(After(j, q), w))
      BY <1>2, <2>1, <2>4
    <3>2. Leaf(After(j, q), w) # Leaf(After(After(k, p), c), v)
      <4>1. After(j, q) # After(a, c)
        BY <1>5, <1>15, <2>2, <2>4
      <4>2. Leaf(After(j, q), w).name = After(j, q) /\ Leaf(After(a, c), v).name = After(a, c)
        BY DEF Leaf
      <4> QED
        BY <4>1, <4>2 DEF a
    <3>3. Leaf(After(j, q), w) = d
      BY <3>1, <3>2
    <3>4. d.kind = "leaf" /\ d.name = After(j, q) /\ d.value = w
      BY <3>3 DEF Leaf
    <3>5. j = t
      BY <1>4, <2>2, <2>4, <3>4 DEF n
    <3>6. e = Leaf(After(j, p), w)
      BY <1>3, <1>7, <3>4, <3>5
    <3> QED
      BY <1>3, <3>5, <3>6 DEF HasLeaf
  <2>5. CASE r # p /\ r # q
    BY <1>2, <1>12, <2>1, <2>5 DEF HasLeaf
  <2> QED
    BY <2>3, <2>4, <2>5
<1>16. ASSUME NEW j \in Keys, NEW w \in Values, HasLeaf(f, j, w)
       PROVE  HasLeaf(g, j, w)
  <2>1. PICK r \in Paths : /\ IsPrefix(r, j) /\ Walked(f, r) /\ f[r] # Absent
                           /\ Contains(f[r], Leaf(After(j, r), w))
    BY <1>16 DEF HasLeaf
  <2>2. Walked(g, r) /\ g[r] # Absent
    BY <1>10, <1>13, <2>1
  <2>3. CASE r # p
    BY <1>2, <2>1, <2>2, <2>3 DEF HasLeaf
  <2>4. CASE r = p /\ Leaf(After(j, p), w) # e
    <3>1. Contains(g[r], Leaf(After(j, r), w))
      BY <1>2, <2>1, <2>4
    <3> QED
      BY <2>1, <2>2, <3>1 DEF HasLeaf
  <2>5. CASE r = p /\ Leaf(After(j, p), w) = e
    <3>1. j \in Words /\ After(j, p) \in Words /\ p \o After(j, p) = j
      BY <1>1, <2>1, <2>5, PathsAre, AfterIs, PrefixAndAfter
    <3>2. n = After(j, p) /\ e.kind = "leaf" /\ e.value = w
      BY <2>5 DEF Leaf, n
    <3>3. j = t
      BY <3>1, <3>2 DEF t
    <3>4. d = Leaf(After(j, q), w)
      BY <1>4, <1>7, <3>2, <3>3
    <3>5. Contains(g[q], Leaf(After(j, q), w)) /\ g[q] # Absent
      BY <1>2, <3>4
    <3> QED
      BY <1>4, <1>11, <3>3, <3>5 DEF HasLeaf
  <2> QED
    BY <2>3, <2>4, <2>5
<1>17. HasLeaf(g, k, v)
  <2>1. Contains(g[q], Leaf(After(k, q), v)) /\ g[q] # Absent
    BY <1>2, <1>5 DEF a
  <2> QED
    BY <1>5, <1>11, <2>1 DEF HasLeaf
<1>18. ContentOf(g)[k] = v
  BY <1>14, <1>17, ContentIs
<1>19. \A j \in Keys : j # k => ContentOf(g)[j] = ContentOf(f)[j]
  BY <1>14, <1>15, <1>16, SameContent
<1> QED
  BY <1>1, <1>10, <1>14, <1>18, <1>19, ContentChanges

-----------------------------------------------------------------------------
\* What the calls store.

Stores == [path: Paths, entries: Manifests]

LEMMA LeafSpells ==
    ASSUME NEW p \in Paths, NEW key \in Words, p \o key \in Keys, NEW v \in Values
    PROVE  IsEntry(p, Leaf(key, v))
  BY DEF IsEntry, Leaf

LEMMA WithLeafSpells ==
    ASSUME NEW p \in Paths, NEW es \in Manifests, Spells(p, es), NEW key \in Words,
           p \o key \in Keys, NEW v \in Values, NEW i, i = Sharing(es, key),
           ~GoesDown(es, i, key), ~Splits(es, i, key)
    PROVE  WithLeaf(es, i, key, v) \in Manifests /\ Spells(p, WithLeaf(es, i, key, v))
<1>1. PICK m : m = WithLeaf(es, i, key, v)
  OBVIOUS
<1>2. m \in Manifests /\ \A x : Contains(m, x) => x = Leaf(key, v) \/ Contains(es, x)
  BY <1>1, WithLeafIs
<1> QED
  BY <1>1, <1>2, LeafSpells DEF Spells

LEMMA RemovedSpells ==
    ASSUME NEW p \in Paths, NEW es \in Manifests, Spells(p, es), NEW i \in 1..Len(es)
    PROVE  RemoveAt(es, i) \in Manifests /\ Spells(p, RemoveAt(es, i))
<1>1. PICK m : m = RemoveAt(es, i)
  OBVIOUS
<1> QED
  BY <1>1, RemovedIs DEF Spells

LEMMA SplitSpells ==
    ASSUME NEW p \in Paths, NEW es \in Manifests, Spells(p, es), NEW key \in Words,
           p \o key \in Keys, NEW v \in Values, NEW i, i = Sharing(es, key), Splits(es, i, key),
           NEW c, c = CommonPrefix(es[i].name, key)
    PROVE  /\ p \o c \in Paths /\ c \in Words /\ c # <<>>
           /\ SplitChild(es, i, key, v) \in Manifests /\ Spells(p \o c, SplitChild(es, i, key, v))
           /\ SplitParent(es, i, key) \in Manifests /\ Spells(p, SplitParent(es, i, key))
<1>1. PICK e : e = es[i]
  OBVIOUS
<1>2. PICK child : child = SplitChild(es, i, key, v)
  OBVIOUS
<1>3. PICK parent : parent = SplitParent(es, i, key)
  OBVIOUS
<1>4. /\ i \in 1..Len(es) /\ e \in Entry
      /\ c \in Words /\ c # <<>> /\ IsPrefix(c, key) /\ IsPrefix(c, e.name)
      /\ e.kind = "branch" => ~IsPrefix(e.name, key)
      /\ child \in Manifests /\ parent \in Manifests
      /\ \A x : Contains(parent, x) => x = Branch(c) \/ Contains(es, x)
      /\ \E d \in Entry :
            /\ d.kind = e.kind /\ d.name = After(e.name, c) /\ d.value = e.value
            /\ \A x : Contains(child, x) <=> x = Leaf(After(key, c), v) \/ x = d
  BY <1>1, <1>2, <1>3, SplitIs
<1>5. PICK d \in Entry :
         /\ d.kind = e.kind /\ d.name = After(e.name, c) /\ d.value = e.value
         /\ \A x : Contains(child, x) <=> x = Leaf(After(key, c), v) \/ x = d
  BY <1>4
<1>6. p \in Words /\ e.name \in Words /\ p \o key \in Words
  BY <1>4, PathsAre, EntryIs, ConcatIs
<1>7. PICK q \in Words : q = p \o c
  BY <1>4, <1>6, ConcatIs
<1>8. PICK a \in Words : a = After(key, c) /\ c \o a = key
  <2>1. c \in Words /\ IsPrefix(c, key)
    BY <1>4
  <2>2. After(key, c) \in Words
    BY <2>1, AfterIs
  <2>3. c \o After(key, c) = key
    BY <2>1, PrefixAndAfter
  <2> QED
    BY <2>2, <2>3
<1>9. PICK b \in Words : b = After(e.name, c) /\ c \o b = e.name
  <2>1. PICK n \in Words : n = e.name
    BY <1>6
  <2>2. c \in Words /\ IsPrefix(c, n)
    BY <1>4, <2>1
  <2>3. After(n, c) \in Words
    BY <2>2, AfterIs
  <2>4. c \o After(n, c) = n
    BY <2>2, PrefixAndAfter
  <2> QED
    BY <2>1, <2>3, <2>4
<1>10. q \o a = p \o key
  <2>1. p \in Words /\ c \in Words
    BY <1>4, <1>6
  <2>2. (p \o c) \o a = p \o (c \o a)
    BY <2>1, ConcatThrice, SMTT(30)
  <2>3. q \o a = (p \o c) \o a
    BY <1>7
  <2>4. p \o (c \o a) = p \o key
    BY <1>8
  <2> QED
    BY <2>2, <2>3, <2>4
<1>11. q \o b = p \o e.name
  <2>1. p \in Words /\ c \in Words
    BY <1>4, <1>6
  <2>2. (p \o c) \o b = p \o (c \o b)
    BY <2>1, ConcatThrice, SMTT(30)
  <2>3. q \o b = (p \o c) \o b
    BY <1>7
  <2>4. p \o (c \o b) = p \o e.name
    BY <1>9
  <2> QED
    BY <2>2, <2>3, <2>4
<1>12. q \in Paths
  <2>1. IsPrefix(q, q \o a)
    BY <1>7, <1>8, ConcatHasPrefix
  <2>2. q \o a \in Paths
    BY <1>10, PathsAre
  <2> QED
    BY <1>7, <2>1, <2>2, PathsAre
<1>13. IsEntry(p, e)
  <2>1. Contains(es, e)
    BY <1>1, <1>4 DEF Contains
  <2> QED
    BY <1>4, <2>1 DEF Spells
<1>14. IsEntry(q, d)
  <2>1. CASE e.kind = "leaf"
    BY <1>5, <1>9, <1>11, <1>13, <2>1 DEF IsEntry
  <2>2. CASE e.kind = "branch"
    <3>1. b # <<>>
      <4>1. SUFFICES ASSUME b = <<>> PROVE FALSE
        OBVIOUS
      <4>2. c = e.name
        BY <1>4, <1>9, <4>1, ConcatEmptySeq DEF Words
      <4> QED
        BY <1>4, <2>2, <4>2
    <3>2. p \o e.name \in Paths
      BY <1>13, <2>2 DEF IsEntry
    <3> QED
      BY <1>5, <1>9, <1>11, <2>2, <3>1, <3>2 DEF IsEntry
  <2> QED
    BY <1>4, <2>1, <2>2, EntryIs
<1>15. Spells(q, child)
  <2>1. IsEntry(q, Leaf(a, v))
    BY <1>8, <1>10, <1>12, LeafSpells
  <2> QED
    BY <1>5, <1>8, <1>14, <2>1 DEF Spells
<1>16. Spells(p, parent)
  <2>1. IsEntry(p, Branch(c))
    BY <1>4, <1>7, <1>12 DEF IsEntry, Branch
  <2> QED
    BY <1>4, <2>1 DEF Spells
<1> QED
  BY <1>2, <1>3, <1>4, <1>7, <1>12, <1>15, <1>16

AllSpell(todo) == \A j \in 1..Len(todo) : Spells(todo[j].path, todo[j].entries)

LEMMA OneStore ==
    ASSUME NEW w \in Stores, Spells(w.path, w.entries)
    PROVE  <<w>> \in Seq(Stores) /\ AllSpell(<<w>>) /\ Len(<<w>>) = 1 /\ <<w>>[1] = w
  BY DEF AllSpell

LEMMA TwoStores ==
    ASSUME NEW w \in Stores, Spells(w.path, w.entries), NEW u \in Stores, Spells(u.path, u.entries)
    PROVE  <<w, u>> \in Seq(Stores) /\ AllSpell(<<w, u>>)
  BY DEF AllSpell

LEMMA PutManifestsSpell ==
    ASSUME NEW p \in Paths, NEW es \in Manifests, Spells(p, es), NEW key \in Words,
           p \o key \in Keys, NEW v \in Values, NEW i, i = Sharing(es, key),
           ~GoesDown(es, i, key)
    PROVE  /\ PutManifests(p, es, i, key, v) \in Seq(Stores)
           /\ AllSpell(PutManifests(p, es, i, key, v))
<1>1. CASE Splits(es, i, key)
  <2>1. PICK c : c = CommonPrefix(es[i].name, key)
    OBVIOUS
  <2>2. PICK child : child = SplitChild(es, i, key, v)
    OBVIOUS
  <2>3. PICK parent : parent = SplitParent(es, i, key)
    OBVIOUS
  <2>4. /\ p \o c \in Paths /\ child \in Manifests /\ Spells(p \o c, child)
        /\ parent \in Manifests /\ Spells(p, parent)
    BY <1>1, <2>1, <2>2, <2>3, SplitSpells
  <2>5. PICK w \in Stores : w = [path |-> p \o c, entries |-> child]
    BY <2>4 DEF Stores
  <2>6. PICK u \in Stores : u = [path |-> p, entries |-> parent]
    BY <2>4 DEF Stores
  <2>7. Spells(w.path, w.entries) /\ Spells(u.path, u.entries)
    BY <2>4, <2>5, <2>6
  <2>8. PutManifests(p, es, i, key, v) = <<w, u>>
    BY <1>1, <2>1, <2>2, <2>3, <2>5, <2>6 DEF PutManifests
  <2> QED
    BY <2>7, <2>8, TwoStores
<1>2. CASE ~Splits(es, i, key)
  <2>1. PICK m : m = WithLeaf(es, i, key, v)
    OBVIOUS
  <2>2. m \in Manifests /\ Spells(p, m)
    BY <1>2, <2>1, WithLeafSpells
  <2>3. PICK w \in Stores : w = [path |-> p, entries |-> m]
    BY <2>2 DEF Stores
  <2>4. PutManifests(p, es, i, key, v) = <<w>>
    BY <1>2, <2>1, <2>3 DEF PutManifests
  <2> QED
    BY <2>2, <2>3, <2>4, OneStore
<1> QED
  BY <1>1, <1>2

-----------------------------------------------------------------------------
\* The calls in progress.

Levels == [path: Paths, left: Manifests]
WriterOps == {"idle", "create", "drop", "put", "delete"}
ReaderOps == {"idle", "get", "seek", "next"}

Calls == [op: WriterOps \cup ReaderOps, key: Words, value: Values \cup {None}, path: Paths,
          rest: Words, todo: Seq(Stores), stack: Seq(Levels)]

CallTyped(c, x) ==
    /\ x \in Calls
    /\ c \in Writers => x.op \in WriterOps
    /\ c \in Readers => x.op \in ReaderOps
    /\ x.op \in {"put", "delete", "get"} => x.key \in Keys
    /\ x.op = "put" => x.value \in Values /\ x.path \o x.rest = x.key
    /\ AllSpell(x.todo)

CallsTyped == call \in [Clients -> Calls] /\ \A c \in Clients : CallTyped(c, call[c])

LEMMA NothingToDo ==
    /\ <<>> \in Seq(Stores) /\ <<>> \in Seq(Levels) /\ AllSpell(<<>>) /\ <<>> \in Paths
    /\ <<>> \in Words
<1>1. Len(<<>>) = 0 /\ <<>> \in Seq(Stores) /\ <<>> \in Seq(Levels)
  BY EmptySeq
<1> QED
  BY <1>1, PathsAre, EmptyWord DEF AllSpell

LEMMA IdleTyped ==
    ASSUME NEW c
    PROVE  CallTyped(c, Idle) /\ Idle.op = "idle" /\ Idle.todo = <<>> /\ Idle.path = <<>>
  BY NothingToDo DEF CallTyped, Idle, Calls, WriterOps, ReaderOps

\* A call that begins.
NewCall(op, k, v, rest) ==
    [op |-> op, key |-> k, value |-> v, path |-> <<>>, rest |-> rest, todo |-> <<>>,
     stack |-> <<>>]

LEMMA NewCalls ==
    /\ \A op : [Idle EXCEPT !.op = op] = NewCall(op, <<>>, None, <<>>)
    /\ \A op, k : [Idle EXCEPT !.op = op, !.key = k, !.rest = k] = NewCall(op, k, None, k)
    /\ \A k, v : [Idle EXCEPT !.op = "put", !.key = k, !.value = v, !.rest = k]
                    = NewCall("put", k, v, k)
<1>1. ASSUME NEW op
      PROVE  [Idle EXCEPT !.op = op] = NewCall(op, <<>>, None, <<>>)
  BY DEF Idle, NewCall
<1>2. ASSUME NEW op, NEW k
      PROVE  [Idle EXCEPT !.op = op, !.key = k, !.rest = k] = NewCall(op, k, None, k)
  <2>1. [NewCall(op, <<>>, None, <<>>) EXCEPT !.key = k] = NewCall(op, k, None, <<>>)
    BY DEF NewCall
  <2>2. [NewCall(op, k, None, <<>>) EXCEPT !.rest = k] = NewCall(op, k, None, k)
    BY DEF NewCall
  <2> QED
    BY <1>1, <2>1, <2>2
<1>3. ASSUME NEW k, NEW v
      PROVE  [Idle EXCEPT !.op = "put", !.key = k, !.value = v, !.rest = k]
                = NewCall("put", k, v, k)
  <2>1. [NewCall("put", <<>>, None, <<>>) EXCEPT !.key = k] = NewCall("put", k, None, <<>>)
    BY DEF NewCall
  <2>2. [NewCall("put", k, None, <<>>) EXCEPT !.value = v] = NewCall("put", k, v, <<>>)
    BY DEF NewCall
  <2>3. [NewCall("put", k, v, <<>>) EXCEPT !.rest = k] = NewCall("put", k, v, k)
    BY DEF NewCall
  <2> QED
    BY <1>1, <2>1, <2>2, <2>3
<1> QED
  BY <1>1, <1>2, <1>3

LEMMA NewCallTyped ==
    ASSUME NEW c, NEW op \in WriterOps \cup ReaderOps,
           c \in Writers => op \in WriterOps, c \in Readers => op \in ReaderOps,
           NEW k \in Words, op \in {"put", "delete", "get"} => k \in Keys,
           NEW v \in Values \cup {None}, op = "put" => v \in Values
    PROVE  CallTyped(c, NewCall(op, k, v, k))
<1>1. <<>> \o k = k
  BY ConcatEmptySeq DEF Words
<1> QED
  BY <1>1, NothingToDo DEF CallTyped, NewCall, Calls

LEMMA SetCall ==
    ASSUME CallsTyped, NEW c \in Clients, NEW x, CallTyped(c, x),
           call' = [call EXCEPT ![c] = x]
    PROVE  CallsTyped' /\ call'[c] = x /\ \A d \in Clients : d # c => call'[d] = call[d]
<1>1. x \in Calls
  BY DEF CallTyped
<1>2. call'[c] = x /\ (\A d \in Clients : d # c => call'[d] = call[d]) /\ call' \in [Clients -> Calls]
  BY <1>1 DEF CallsTyped
<1>3. ASSUME NEW d \in Clients
      PROVE  CallTyped(d, call'[d])
  BY <1>2 DEF CallsTyped
<1> QED
  BY <1>2, <1>3 DEF CallsTyped, CallTyped

\* A call that goes on at a branch.
Moved(x, n) == [x EXCEPT !.path = @ \o n, !.rest = After(@, n)]

LEMMA DescendMoves ==
    ASSUME CallsTyped, NEW c \in Clients, NEW b, Descend(c, b)
    PROVE  call' = [call EXCEPT ![c] = Moved(call[c], b.name)]
  BY DEF CallsTyped, Descend, Moved, Calls

LEMMA MovedIs ==
    ASSUME NEW x \in Calls, NEW n
    PROVE  LET y == Moved(x, n)
           IN  /\ y.op = x.op /\ y.key = x.key /\ y.value = x.value /\ y.todo = x.todo
               /\ y.path = x.path \o n /\ y.rest = After(x.rest, n)
  BY DEF Moved, Calls

LEMMA MovedTyped ==
    ASSUME NEW c, NEW x, CallTyped(c, x), NEW n \in Words, x.path \o n \in Paths,
           x.op = "put" => IsPrefix(n, x.rest)
    PROVE  CallTyped(c, Moved(x, n))
<1>1. x \in Calls /\ x.rest \in Words /\ x.path \in Words
  BY PathsAre DEF CallTyped, Calls
<1>2. PICK a \in Words : a = After(x.rest, n)
  BY <1>1, AfterIs
<1>3. PICK q \in Paths : q = x.path \o n
  OBVIOUS
<1>4. PICK y : y = Moved(x, n)
  OBVIOUS
<1>5. y = [x EXCEPT !.path = q, !.rest = a]
  BY <1>1, <1>2, <1>3, <1>4 DEF Moved, Calls
<1>6. /\ y \in Calls
      /\ y.op = x.op /\ y.key = x.key /\ y.value = x.value /\ y.todo = x.todo
      /\ y.path = q /\ y.rest = a
  BY <1>1, <1>5 DEF Calls
<1>7. ASSUME x.op = "put"
      PROVE  q \o a = x.key
  <2>1. n \o a = x.rest
    BY <1>1, <1>2, <1>7, PrefixAndAfter
  <2>2. (x.path \o n) \o a = x.path \o (n \o a)
    BY <1>1, ConcatThrice
  <2>3. x.path \o x.rest = x.key
    BY <1>7 DEF CallTyped
  <2> QED
    BY <1>3, <2>1, <2>2, <2>3
<1>8. CallTyped(c, y)
  BY <1>6, <1>7 DEF CallTyped
<1> QED
  BY <1>4, <1>8

\* The entry at which a seek stops or which it enters.
LEMMA SeekIndexIs ==
    ASSUME NEW es \in Manifests, NEW key, NEW i, i = SeekIndex(es, key), i # 0
    PROVE  i \in 1..Len(es) /\ (Stops(es[i], key) \/ Enters(es[i], key))
<1> DEFINE I == {j \in 1..Len(es) : Stops(es[j], key) \/ Enters(es[j], key)}
<1>1. i = IF I # {} THEN Min(I) ELSE 0
  BY DEF SeekIndex, SelectInSeq
<1>2. I # {} => Min(I) \in I
  BY ManifestIs, FirstOf
<1> QED
  BY <1>1, <1>2

LEMMA TodoTyped ==
    ASSUME NEW c, NEW x, CallTyped(c, x), NEW t \in Seq(Stores), AllSpell(t)
    PROVE  LET y == [x EXCEPT !.todo = t]
           IN  /\ CallTyped(c, y) /\ y.todo = t
               /\ y.op = x.op /\ y.key = x.key /\ y.value = x.value
               /\ y.path = x.path /\ y.rest = x.rest
<1>1. x \in Calls
  BY DEF CallTyped
<1>2. PICK y : y = [x EXCEPT !.todo = t]
  OBVIOUS
<1>3. /\ y \in Calls /\ y.todo = t
      /\ y.op = x.op /\ y.key = x.key /\ y.value = x.value
      /\ y.path = x.path /\ y.rest = x.rest
  BY <1>1, <1>2 DEF Calls
<1>4. CallTyped(c, y)
  BY <1>3 DEF CallTyped
<1> QED
  BY <1>2, <1>3, <1>4

\* A branch of a manifest leads to a path.
LEMMA BranchToPath ==
    ASSUME NEW f, IsTrie(f), NEW p \in Paths, f[p] # Absent, NEW i \in 1..Len(f[p]),
           f[p][i].kind = "branch"
    PROVE  /\ f[p][i].name \in Words /\ p \o f[p][i].name \in Paths
           /\ Contains(f[p], Branch(f[p][i].name)) /\ f[p][i] = Branch(f[p][i].name)
<1>1. f[p] \in Manifests
  BY ManifestThere
<1>2. PICK e \in Entry : e = f[p][i]
  BY <1>1, ManifestIs
<1>3. e.name \in Words /\ e = Branch(e.name)
  BY <1>2, EntryIs
<1>4. Contains(f[p], Branch(e.name))
  BY <1>2, <1>3 DEF Contains
<1>5. p \o e.name \in Paths
  BY <1>3, <1>4, BranchLeads
<1> QED
  BY <1>2, <1>3, <1>4, <1>5

Sound == IsTrie(feed) /\ CallsTyped

\* What a read of a put does.
LEMMA putReadDoes ==
    ASSUME Sound, NEW c \in Writers, putRead(c)
    PROVE  LET x == call[c]
               es == feed[x.path]
               i == Sharing(es, x.rest)
               t == PutManifests(x.path, es, i, x.rest, x.value)
           IN  /\ x \in Calls /\ x.op = "put" /\ x.todo = <<>> /\ feed' = feed /\ CallsTyped'
               /\ \/ call' = [call EXCEPT ![c] = Idle]
                  \/ /\ es # Absent /\ es \in Manifests
                     /\ GoesDown(es, i, x.rest) /\ i \in 1..Len(es)
                     /\ call' = [call EXCEPT ![c] = Moved(x, es[i].name)]
                  \/ /\ es # Absent /\ es \in Manifests
                     /\ ~GoesDown(es, i, x.rest)
                     /\ call' = [call EXCEPT ![c] = [x EXCEPT !.todo = t]]
<1> DEFINE x == call[c]
           es == feed[x.path]
           i == Sharing(es, x.rest)
           t == PutManifests(x.path, es, i, x.rest, x.value)
<1>1. c \in Clients /\ CallTyped(c, x) /\ x \in Calls /\ x.path \in Paths /\ x.rest \in Words
  BY DEF Sound, CallsTyped, CallTyped, Calls, Clients
<1>2. x.op = "put" /\ x.todo = <<>> /\ feed' = feed
  BY DEF putRead, Unchanged
<1>3. x.key \in Keys /\ x.value \in Values /\ x.path \o x.rest = x.key
  BY <1>1, <1>2 DEF CallTyped
<1>4. es # Absent => es \in Manifests /\ Spells(x.path, es)
  BY <1>1, ManifestThere DEF Sound
<1>5. CASE es = Absent /\ End(c)
  <2>1. call' = [call EXCEPT ![c] = Idle]
    BY <1>5 DEF End
  <2>2. CallsTyped'
    BY <1>1, <2>1, IdleTyped, SetCall DEF Sound
  <2> QED
    BY <1>1, <1>2, <2>1, <2>2
<1>6. CASE es # Absent /\ GoesDown(es, i, x.rest) /\ Descend(c, es[i])
  <2>1. i \in 1..Len(es) /\ es[i].kind = "branch" /\ IsPrefix(es[i].name, x.rest)
    BY <1>1, <1>4, <1>6, SharingIs, ManifestIs DEF GoesDown
  <2>2. es[i].name \in Words /\ x.path \o es[i].name \in Paths
    BY <1>1, <1>6, <2>1, BranchToPath DEF Sound
  <2>3. call' = [call EXCEPT ![c] = Moved(x, es[i].name)]
    BY <1>1, <1>6, DescendMoves DEF Sound
  <2>4. CallTyped(c, Moved(x, es[i].name))
    BY <1>1, <2>1, <2>2, MovedTyped
  <2>5. CallsTyped'
    BY <1>1, <2>3, <2>4, SetCall DEF Sound
  <2> QED
    BY <1>1, <1>2, <1>4, <1>6, <2>1, <2>3, <2>5
<1>7. CASE /\ es # Absent /\ ~GoesDown(es, i, x.rest)
           /\ call' = [call EXCEPT ![c].todo = t]
  <2>1. call' = [call EXCEPT ![c] = [x EXCEPT !.todo = t]]
    BY <1>1, <1>7 DEF Sound, CallsTyped
  <2>2. t \in Seq(Stores) /\ AllSpell(t)
    BY <1>1, <1>3, <1>4, <1>7, PutManifestsSpell
  <2>3. CallTyped(c, [x EXCEPT !.todo = t])
    BY <1>1, <2>2, TodoTyped
  <2>4. CallsTyped'
    BY <1>1, <2>1, <2>3, SetCall DEF Sound
  <2> QED
    BY <1>1, <1>2, <1>4, <1>7, <2>1, <2>4
<1>8. \/ es = Absent /\ End(c)
      \/ es # Absent /\ GoesDown(es, i, x.rest) /\ Descend(c, es[i])
      \/ /\ es # Absent /\ ~GoesDown(es, i, x.rest)
         /\ call' = [call EXCEPT ![c].todo = t]
  BY DEF putRead
<1> QED
  BY <1>5, <1>6, <1>7, <1>8

\* What a read of a delete does.
LEMMA deleteReadDoes ==
    ASSUME Sound, NEW c \in Writers, deleteRead(c)
    PROVE  LET x == call[c]
               es == feed[x.path]
               i == Find(es, x.rest)
               t == <<[path |-> x.path, entries |-> RemoveAt(es, i)]>>
           IN  /\ x \in Calls /\ x.op = "delete" /\ x.todo = <<>> /\ feed' = feed /\ CallsTyped'
               /\ \/ call' = [call EXCEPT ![c] = Idle]
                  \/ /\ es # Absent /\ es \in Manifests /\ i \in 1..Len(es)
                     /\ Leads(es[i], x.rest)
                     /\ call' = [call EXCEPT ![c] = Moved(x, es[i].name)]
                  \/ /\ es # Absent /\ es \in Manifests /\ i \in 1..Len(es)
                     /\ IsKey(es[i], x.rest)
                     /\ call' = [call EXCEPT ![c] = [x EXCEPT !.todo = t]]
<1> DEFINE x == call[c]
           es == feed[x.path]
           i == Find(es, x.rest)
           t == <<[path |-> x.path, entries |-> RemoveAt(es, i)]>>
<1>1. c \in Clients /\ CallTyped(c, x) /\ x \in Calls /\ x.path \in Paths /\ x.rest \in Words
  BY DEF Sound, CallsTyped, CallTyped, Calls, Clients
<1>2. x.op = "delete" /\ x.todo = <<>> /\ feed' = feed
  BY DEF deleteRead, Unchanged
<1>3. es # Absent => es \in Manifests /\ Spells(x.path, es)
  BY <1>1, ManifestThere DEF Sound
<1>4. es # Absent /\ i # 0 => i \in 1..Len(es)
  BY <1>1, <1>3, FindIs, ManifestIs
<1>5. CASE End(c)
  <2>1. call' = [call EXCEPT ![c] = Idle]
    BY <1>5 DEF End
  <2>2. CallsTyped'
    BY <1>1, <2>1, IdleTyped, SetCall DEF Sound
  <2> QED
    BY <1>1, <1>2, <2>1, <2>2
<1>6. CASE es # Absent /\ i # 0 /\ Leads(es[i], x.rest) /\ Descend(c, es[i])
  <2>1. i \in 1..Len(es) /\ es[i].kind = "branch"
    BY <1>4, <1>6 DEF Leads
  <2>2. es[i].name \in Words /\ x.path \o es[i].name \in Paths
    BY <1>1, <1>6, <2>1, BranchToPath DEF Sound
  <2>3. call' = [call EXCEPT ![c] = Moved(x, es[i].name)]
    BY <1>1, <1>6, DescendMoves DEF Sound
  <2>4. CallTyped(c, Moved(x, es[i].name))
    BY <1>1, <1>2, <2>2, MovedTyped
  <2>5. CallsTyped'
    BY <1>1, <2>3, <2>4, SetCall DEF Sound
  <2> QED
    BY <1>1, <1>2, <1>3, <1>6, <2>1, <2>3, <2>5
<1>7. CASE /\ es # Absent /\ i # 0 /\ IsKey(es[i], x.rest)
           /\ call' = [call EXCEPT ![c].todo = t]
  <2>1. call' = [call EXCEPT ![c] = [x EXCEPT !.todo = t]]
    BY <1>1, <1>7 DEF Sound, CallsTyped
  <2>2. i \in 1..Len(es)
    BY <1>4, <1>7
  <2>3. PICK m \in Manifests : m = RemoveAt(es, i) /\ Spells(x.path, m)
    BY <1>1, <1>3, <1>7, <2>2, RemovedSpells
  <2>4. PICK w \in Stores : w = [path |-> x.path, entries |-> m]
    BY <1>1 DEF Stores
  <2>5. t = <<w>> /\ Spells(w.path, w.entries)
    BY <2>3, <2>4
  <2>6. t \in Seq(Stores) /\ AllSpell(t)
    BY <2>5, OneStore
  <2> HIDE DEF t
  <2>7. CallTyped(c, [x EXCEPT !.todo = t])
    BY <1>1, <2>6, TodoTyped
  <2>8. CallsTyped'
    BY <1>1, <2>1, <2>7, SetCall DEF Sound
  <2> QED
    BY <1>1, <1>2, <1>3, <1>7, <2>1, <2>2, <2>8 DEF t
<1>8. \/ End(c)
      \/ es # Absent /\ i # 0 /\ Leads(es[i], x.rest) /\ Descend(c, es[i])
      \/ /\ es # Absent /\ i # 0 /\ IsKey(es[i], x.rest)
         /\ call' = [call EXCEPT ![c].todo = t]
  BY DEF deleteRead
<1> QED
  BY <1>5, <1>6, <1>7, <1>8

LEMMA TodoParts ==
    ASSUME NEW t \in Seq(Stores), t # <<>>, AllSpell(t)
    PROVE  /\ Head(t) \in Stores /\ Spells(Head(t).path, Head(t).entries)
           /\ Tail(t) \in Seq(Stores) /\ AllSpell(Tail(t))
<1>1. Len(t) \in Nat \ {0}
  BY EmptySeq
<1>2. /\ Head(t) \in Stores /\ Tail(t) \in Seq(Stores) /\ Len(Tail(t)) = Len(t) - 1
      /\ \A j \in 1..Len(Tail(t)) : Tail(t)[j] = t[j + 1]
  BY HeadTailProperties
<1>3. Head(t) = t[1]
  OBVIOUS
<1>4. \A j \in 1..Len(Tail(t)) : j + 1 \in 1..Len(t)
  BY <1>1, <1>2
<1> QED
  BY <1>1, <1>2, <1>3, <1>4 DEF AllSpell

LEMMA storeDoes ==
    ASSUME Sound, NEW c \in Writers, NEW ok \in BOOLEAN, store(c, ok)
    PROVE  LET x == call[c]
               w == Head(x.todo)
           IN  /\ x \in Calls /\ x.todo # <<>> /\ w \in Stores /\ Spells(w.path, w.entries)
               /\ IsTrie(feed') /\ CallsTyped'
               /\ ok => Stored(feed, feed', w.path, w.entries)
               /\ ~ok => feed' = feed
               /\ \/ call' = [call EXCEPT ![c] = Idle] /\ (ok => ~(Len(x.todo) > 1))
                  \/ /\ ok /\ Len(x.todo) > 1
                     /\ call' = [call EXCEPT ![c] = [x EXCEPT !.todo = Tail(x.todo)]]
<1> DEFINE x == call[c]
           w == Head(x.todo)
<1>1. /\ c \in Clients /\ CallTyped(c, x) /\ x \in Calls /\ x.todo \in Seq(Stores)
      /\ AllSpell(x.todo) /\ x.todo # <<>>
  BY DEF Sound, CallsTyped, CallTyped, Calls, Clients, store
<1>2. /\ w \in Stores /\ Spells(w.path, w.entries)
      /\ Tail(x.todo) \in Seq(Stores) /\ AllSpell(Tail(x.todo))
  BY <1>1, TodoParts
<1>3. feed' = IF ok THEN [feed EXCEPT ![w.path] = w.entries] ELSE feed
  BY DEF store
<1>4. IsTrie(feed') /\ (ok => Stored(feed, feed', w.path, w.entries))
  <2>1. w.path \in Paths /\ w.entries \in Manifests
    BY <1>2 DEF Stores
  <2>2. LET g == [feed EXCEPT ![w.path] = w.entries]
        IN  IsTrie(g) /\ Stored(feed, g, w.path, w.entries)
    BY <1>2, <2>1, StoredIs DEF Sound
  <2> QED
    BY <1>3, <2>2 DEF Sound
<1>5. CASE ok /\ Len(x.todo) > 1
  <2>1. call' = [call EXCEPT ![c] = [x EXCEPT !.todo = Tail(x.todo)]]
    BY <1>1, <1>5 DEF store, Sound, CallsTyped, Calls
  <2>2. CallTyped(c, [x EXCEPT !.todo = Tail(x.todo)])
    BY <1>1, <1>2, TodoTyped
  <2>3. CallsTyped'
    BY <1>1, <2>1, <2>2, SetCall DEF Sound
  <2> QED
    BY <1>1, <1>2, <1>3, <1>4, <1>5, <2>1, <2>3
<1>6. CASE ~(ok /\ Len(x.todo) > 1)
  <2>1. call' = [call EXCEPT ![c] = Idle]
    BY <1>6 DEF store, End
  <2>2. CallsTyped'
    BY <1>1, <2>1, IdleTyped, SetCall DEF Sound
  <2> QED
    BY <1>1, <1>2, <1>3, <1>4, <1>6, <2>1, <2>2
<1> QED
  BY <1>5, <1>6

\* What a read of a get does.
LEMMA getReadDoes ==
    ASSUME Sound, NEW r \in Readers, getRead(r)
    PROVE  LET x == call[r]
               es == feed[x.path]
               i == IF es = Absent THEN 0 ELSE Find(es, x.rest)
           IN  /\ x \in Calls /\ x.op = "get" /\ x.key \in Keys /\ feed' = feed /\ CallsTyped'
               /\ \/ /\ i = 0 /\ call' = [call EXCEPT ![r] = Idle]
                     /\ answer' = [key |-> x.key, value |-> None]
                  \/ /\ es # Absent /\ es \in Manifests /\ i \in 1..Len(es)
                     /\ IsKey(es[i], x.rest)
                     /\ call' = [call EXCEPT ![r] = Idle]
                     /\ es[i].value \in Values
                     /\ answer' = [key |-> x.key, value |-> es[i].value]
                  \/ /\ es # Absent /\ es \in Manifests /\ i \in 1..Len(es)
                     /\ Leads(es[i], x.rest)
                     /\ call' = [call EXCEPT ![r] = Moved(x, es[i].name)]
                     /\ answer' = NoAnswer
<1> DEFINE x == call[r]
           es == feed[x.path]
           i == IF es = Absent THEN 0 ELSE Find(es, x.rest)
<1>1. r \in Clients /\ CallTyped(r, x) /\ x \in Calls /\ x.path \in Paths /\ x.rest \in Words
  BY DEF Sound, CallsTyped, CallTyped, Calls, Clients
<1>2. x.op = "get" /\ feed' = feed /\ x.key \in Keys
  BY <1>1 DEF getRead, CallTyped
<1>3. es # Absent => es \in Manifests
  BY <1>1, ManifestThere DEF Sound
<1>4. i # 0 => es # Absent /\ i \in 1..Len(es)
  BY <1>1, <1>3, FindIs, ManifestIs
<1>5. ASSUME End(r)
      PROVE  call' = [call EXCEPT ![r] = Idle] /\ CallsTyped'
  <2>1. call' = [call EXCEPT ![r] = Idle]
    BY <1>5 DEF End
  <2> QED
    BY <1>1, <2>1, IdleTyped, SetCall DEF Sound
<1>6. CASE i = 0 /\ Found(r, None)
  BY <1>1, <1>2, <1>5, <1>6 DEF Found
<1>7. CASE i # 0 /\ IsKey(es[i], x.rest) /\ Found(r, es[i].value)
  <2>1. es[i].value \in Values
    <3>1. PICK e \in Entry : e = es[i]
      BY <1>3, <1>4, <1>7, ManifestIs
    <3>2. e.kind = "leaf"
      BY <1>7, <3>1 DEF IsKey
    <3> QED
      BY <3>1, <3>2, EntryIs
  <2> HIDE DEF es, i
  <2> QED
    BY <1>1, <1>2, <1>3, <1>4, <1>5, <1>7, <2>1 DEF Found, es, i
<1>8. CASE i # 0 /\ Leads(es[i], x.rest) /\ Descend(r, es[i]) /\ answer' = NoAnswer
  <2>1. i \in 1..Len(es) /\ es[i].kind = "branch"
    BY <1>4, <1>8 DEF Leads
  <2>2. es[i].name \in Words /\ x.path \o es[i].name \in Paths
    BY <1>1, <1>4, <1>8, <2>1, BranchToPath DEF Sound
  <2>3. call' = [call EXCEPT ![r] = Moved(x, es[i].name)]
    BY <1>1, <1>8, DescendMoves DEF Sound
  <2>4. CallTyped(r, Moved(x, es[i].name))
    BY <1>1, <1>2, <2>2, MovedTyped
  <2>5. CallsTyped'
    BY <1>1, <2>3, <2>4, SetCall DEF Sound
  <2> HIDE DEF es, i
  <2> QED
    BY <1>1, <1>2, <1>3, <1>4, <1>8, <2>1, <2>3, <2>5 DEF es, i
<1>9. \/ i = 0 /\ Found(r, None)
      \/ i # 0 /\ IsKey(es[i], x.rest) /\ Found(r, es[i].value)
      \/ i # 0 /\ Leads(es[i], x.rest) /\ Descend(r, es[i]) /\ answer' = NoAnswer
  BY DEF getRead
<1> QED
  BY <1>6, <1>7, <1>8, <1>9

\* Only the call of c changes, to x.
Becomes(c, x) == call' = [call EXCEPT ![c] = x]

LEMMA seekReadDoes ==
    ASSUME Sound, NEW r \in Readers, seekRead(r)
    PROVE  /\ feed' = feed /\ CallsTyped' /\ call[r].op = "seek"
           /\ \E x : Becomes(r, x) /\ x.op \in {"idle", "seek"}
<1> DEFINE x == call[r]
           p == x.path
           es == feed[p]
           i == SeekIndex(es, x.rest)
           lv == Level(p, SubSeq(es, i + 1, Len(es)))
<1>1. r \in Clients /\ CallTyped(r, x) /\ x \in Calls /\ p \in Paths /\ x.rest \in Words
      /\ x.stack \in Seq(Levels)
  BY DEF Sound, CallsTyped, CallTyped, Calls, Clients
<1>2. x.op = "seek" /\ feed' = feed
  BY DEF seekRead
<1>3. CASE End(r)
  <2>1. Becomes(r, Idle)
    BY <1>3 DEF End, Becomes
  <2>2. CallsTyped' /\ Idle.op = "idle"
    BY <1>1, <2>1, IdleTyped, SetCall DEF Sound, Becomes
  <2> QED
    BY <1>2, <2>1, <2>2
<1>4. CASE /\ es # Absent /\ i # 0 /\ ~Stops(es[i], x.rest)
           /\ call' = [call EXCEPT
                         ![r].path = @ \o es[i].name,
                         ![r].rest = After(@, es[i].name),
                         ![r].stack = Append(@, lv)]
  <2>1. es \in Manifests
    BY <1>1, <1>4, ManifestThere DEF Sound
  <2>2. i \in 1..Len(es) /\ Enters(es[i], x.rest)
    BY <1>4, <2>1, SeekIndexIs
  <2>a. es[i].kind = "branch"
    BY <2>2, <1>4 DEF Enters
  <2>b. es[i].name \in Words /\ p \o es[i].name \in Paths
    BY <1>1, <1>4, <2>2, <2>a, BranchToPath DEF Sound
  <2>3. PICK n \in Words : n = es[i].name /\ p \o n \in Paths
    BY <2>b
  <2>4. lv \in Levels
    <3>1. PICK j \in Nat : j = i + 1 /\ j >= 1
      BY <2>1, <2>2, ManifestIs
    <3>2. PICK h \in Nat : h = Len(es) /\ h <= Len(es)
      BY <2>1, ManifestIs
    <3>3. SubSeq(es, j, h) \in Manifests
      BY <2>1, <3>1, <3>2, PieceIs
    <3> QED
      BY <1>1, <3>1, <3>2, <3>3 DEF Levels, Level
  <2>5. PICK s \in Seq(Levels) : s = Append(x.stack, lv)
    BY <1>1, <2>4, AppendProperties
  <2>6. call' = [call EXCEPT ![r].path = @ \o n, ![r].rest = After(@, n), ![r].stack = s]
    <3> HIDE DEF lv
    <3> QED
      BY <1>1, <1>4, <2>3, <2>5 DEF Sound, CallsTyped
  <2>7. PICK z : z = Moved(x, n) /\ CallTyped(r, z)
    BY <1>1, <1>2, <2>3, MovedTyped
  <2>8. PICK u : u = [z EXCEPT !.stack = s]
    OBVIOUS
  <2>9. z \in Calls /\ z.op = "seek" /\ z.todo = x.todo
    BY <1>1, <1>2, <2>7, MovedIs DEF CallTyped
  <2>10. u \in Calls /\ u.op = z.op /\ u.todo = z.todo
    BY <2>8, <2>9 DEF Calls
  <2>11. CallTyped(r, u)
    BY <2>7, <2>9, <2>10 DEF CallTyped
  <2>12. call' = [call EXCEPT ![r] = u]
    <3>1. u = [x EXCEPT !.path = @ \o n, !.rest = After(@, n), !.stack = s]
      BY <1>1, <2>7, <2>8 DEF Moved, Calls
    <3> QED
      BY <1>1, <2>6, <3>1 DEF Sound, CallsTyped, Calls
  <2>13. CallsTyped'
    BY <1>1, <2>11, <2>12, SetCall DEF Sound
  <2> QED
    BY <1>2, <2>9, <2>10, <2>12, <2>13 DEF Becomes
<1>5. \/ End(r)
      \/ /\ es # Absent /\ i # 0 /\ ~Stops(es[i], x.rest)
         /\ call' = [call EXCEPT
                       ![r].path = @ \o es[i].name,
                       ![r].rest = After(@, es[i].name),
                       ![r].stack = Append(@, lv)]
  BY DEF seekRead, Iterate
<1> QED
  BY <1>3, <1>4, <1>5

LEMMA NextEntryDoes ==
    ASSUME Sound, NEW r \in Readers, NextEntry(r)
    PROVE  /\ feed' = feed /\ CallsTyped'
           /\ \E x : Becomes(r, x) /\ x.op \in {"idle", "next"}
<1>1. r \in Clients /\ r \notin Writers
  BY KVAssumption DEF Clients
<1>2. feed' = feed /\ (End(r) \/ call' = [call EXCEPT ![r] = [Idle EXCEPT !.op = "next"]])
  BY DEF NextEntry, Stop
<1>3. CASE End(r)
  <2>1. Becomes(r, Idle)
    BY <1>3 DEF End, Becomes
  <2>2. CallsTyped' /\ Idle.op = "idle"
    BY <1>1, <2>1, IdleTyped, SetCall DEF Sound, Becomes
  <2> QED
    BY <1>2, <2>1, <2>2
<1>4. CASE call' = [call EXCEPT ![r] = [Idle EXCEPT !.op = "next"]]
  <2>1. PICK x : x = NewCall("next", <<>>, None, <<>>)
    OBVIOUS
  <2>2. CallTyped(r, x)
    BY <1>1, <2>1, NewCallTyped, NothingToDo DEF WriterOps, ReaderOps
  <2>3. Becomes(r, x)
    BY <1>4, <2>1, NewCalls DEF Becomes
  <2>4. x.op = "next"
    BY <2>1 DEF NewCall
  <2>5. CallsTyped'
    BY <1>1, <2>2, <2>3, SetCall DEF Sound, Becomes
  <2> QED
    BY <1>2, <2>3, <2>4, <2>5
<1> QED
  BY <1>2, <1>3, <1>4

\* A call begins.
LEMMA BeginDoes ==
    ASSUME Sound, NEW c \in Clients, NEW op \in WriterOps \cup ReaderOps,
           c \in Writers => op \in WriterOps, c \in Readers => op \in ReaderOps,
           NEW k \in Words, op \in {"put", "delete", "get"} => k \in Keys,
           NEW v \in Values \cup {None}, op = "put" => v \in Values,
           NEW x, x = NewCall(op, k, v, k), Becomes(c, x)
    PROVE  CallsTyped'
<1>1. CallTyped(c, x)
  BY NewCallTyped
<1> QED
  BY <1>1, SetCall DEF Sound, Becomes

LEMMA EndDoes ==
    ASSUME Sound, NEW c \in Clients, End(c)
    PROVE  Becomes(c, Idle) /\ CallsTyped'
<1>1. Becomes(c, Idle)
  BY DEF End, Becomes
<1> QED
  BY <1>1, IdleTyped, SetCall DEF Sound, Becomes

LEMMA ClientsAre ==
    /\ \A c \in Writers : c \in Clients /\ c \notin Readers
    /\ \A c \in Readers : c \in Clients /\ c \notin Writers
  BY KVAssumption DEF Clients

LEMMA CreateDoes ==
    ASSUME Sound, NEW c \in Writers, CreateKVTable(c)
    PROVE  /\ IsTrie(feed') /\ Stored(feed, feed', <<>>, <<>>) /\ CallsTyped'
           /\ Becomes(c, NewCall("create", <<>>, None, <<>>))
<1>1. LET g == [feed EXCEPT ![<<>>] = <<>>] IN IsTrie(g) /\ Stored(feed, g, <<>>, <<>>)
  <2>1. <<>> \in Paths /\ <<>> \in Manifests /\ Spells(<<>>, <<>>)
    BY PathsAre, EmptyManifest DEF Spells
  <2> QED
    BY <2>1, StoredIs DEF Sound
<1>2. feed' = [feed EXCEPT ![<<>>] = <<>>]
  BY DEF CreateKVTable
<1>3. PICK x : x = NewCall("create", <<>>, None, <<>>)
  OBVIOUS
<1>4. Becomes(c, x)
  BY <1>3, NewCalls DEF CreateKVTable, Becomes
<1>5. CallsTyped'
  BY <1>3, <1>4, BeginDoes, ClientsAre, NothingToDo DEF WriterOps, ReaderOps
<1> QED
  BY <1>1, <1>2, <1>3, <1>4, <1>5

LEMMA DropDoes ==
    ASSUME Sound, NEW c \in Writers, DeleteKVTable(c)
    PROVE  /\ IsTrie(feed') /\ Stored(feed, feed', <<>>, Absent) /\ CallsTyped'
           /\ Becomes(c, NewCall("drop", <<>>, None, <<>>))
<1>1. LET g == [feed EXCEPT ![<<>>] = Absent] IN IsTrie(g) /\ Stored(feed, g, <<>>, Absent)
  BY PathsAre, StoredIs DEF Sound
<1>2. feed' = [feed EXCEPT ![<<>>] = Absent]
  BY DEF DeleteKVTable
<1>3. PICK x : x = NewCall("drop", <<>>, None, <<>>)
  OBVIOUS
<1>4. Becomes(c, x)
  BY <1>3, NewCalls DEF DeleteKVTable, Becomes
<1>5. CallsTyped'
  BY <1>3, <1>4, BeginDoes, ClientsAre, NothingToDo DEF WriterOps, ReaderOps
<1> QED
  BY <1>1, <1>2, <1>3, <1>4, <1>5

LEMMA KVPutDoes ==
    ASSUME Sound, NEW c \in Writers, NEW k \in Keys, NEW v \in Values, KVPut(c, k, v)
    PROVE  feed' = feed /\ CallsTyped' /\ Becomes(c, NewCall("put", k, v, k))
<1>1. PICK x : x = NewCall("put", k, v, k)
  OBVIOUS
<1>2. Becomes(c, x) /\ feed' = feed
  BY <1>1, NewCalls DEF KVPut, Begin, Becomes
<1>3. CallsTyped'
  BY <1>1, <1>2, BeginDoes, ClientsAre, KVAssumption DEF WriterOps, ReaderOps
<1> QED
  BY <1>1, <1>2, <1>3

LEMMA KVDeleteDoes ==
    ASSUME Sound, NEW c \in Writers, NEW k \in Keys, KVDelete(c, k)
    PROVE  feed' = feed /\ CallsTyped' /\ Becomes(c, NewCall("delete", k, None, k))
<1>1. PICK x : x = NewCall("delete", k, None, k)
  OBVIOUS
<1>2. Becomes(c, x) /\ feed' = feed
  <2>1. [Idle EXCEPT !.op = "delete", !.key = k, !.rest = k] = x
    BY <1>1, NewCalls
  <2> QED
    BY <2>1 DEF KVDelete, Begin, Becomes
<1>3. CallsTyped'
  BY <1>1, <1>2, BeginDoes, ClientsAre, KVAssumption DEF WriterOps, ReaderOps
<1> QED
  BY <1>1, <1>2, <1>3

LEMMA KVGetDoes ==
    ASSUME Sound, NEW r \in Readers, NEW k \in Keys, KVGet(r, k)
    PROVE  feed' = feed /\ CallsTyped' /\ Becomes(r, NewCall("get", k, None, k))
<1>1. PICK x : x = NewCall("get", k, None, k)
  OBVIOUS
<1>2. Becomes(r, x) /\ feed' = feed
  <2>1. [Idle EXCEPT !.op = "get", !.key = k, !.rest = k] = x
    BY <1>1, NewCalls
  <2> QED
    BY <2>1 DEF KVGet, Begin, Becomes
<1>3. CallsTyped'
  BY <1>1, <1>2, BeginDoes, ClientsAre, KVAssumption DEF WriterOps, ReaderOps
<1> QED
  BY <1>1, <1>2, <1>3

LEMMA KVSeekDoes ==
    ASSUME Sound, NEW r \in Readers, NEW s \in Starts, KVSeek(r, s)
    PROVE  feed' = feed /\ CallsTyped' /\ Becomes(r, NewCall("seek", s, None, s))
<1>1. PICK x : x = NewCall("seek", s, None, s)
  OBVIOUS
<1>2. Becomes(r, x) /\ feed' = feed
  <2>1. [Idle EXCEPT !.op = "seek", !.key = s, !.rest = s] = x
    BY <1>1, NewCalls
  <2> QED
    BY <2>1 DEF KVSeek, Begin, Becomes
<1>3. CallsTyped'
  BY <1>1, <1>2, BeginDoes, ClientsAre, KVAssumption DEF WriterOps, ReaderOps
<1> QED
  BY <1>1, <1>2, <1>3

LEMMA CrashDoes ==
    ASSUME Sound, Crash
    PROVE  feed' = feed /\ CallsTyped' /\ \A c \in Clients : call'[c] = Idle
<1>1. feed' = feed /\ call' = [c \in Clients |-> Idle]
  BY DEF Crash
<1>2. Idle \in Calls /\ \A c \in Clients : CallTyped(c, Idle)
  BY IdleTyped DEF CallTyped
<1>3. call' \in [Clients -> Calls] /\ \A c \in Clients : call'[c] = Idle
  BY <1>1, <1>2
<1>4. \A c \in Clients : CallTyped(c, call'[c])
  BY <1>2, <1>3
<1> QED
  BY <1>1, <1>3, <1>4 DEF CallsTyped, CallTyped

LEMMA SoundInit == Init => Sound
<1> SUFFICES ASSUME Init PROVE Sound
  OBVIOUS
<1>1. IsTrie(feed)
  BY DEF Init, IsTrie
<1>2. Idle \in Calls /\ \A c \in Clients : CallTyped(c, Idle)
  BY IdleTyped DEF CallTyped
<1>3. call = [c \in Clients |-> Idle]
  BY DEF Init
<1>4. CallsTyped
  BY <1>2, <1>3 DEF CallsTyped
<1> QED
  BY <1>1, <1>4 DEF Sound

LEMMA SoundStep ==
    ASSUME Sound, [Next]_vars
    PROVE  Sound'
<1>1. SUFFICES IsTrie(feed') /\ CallsTyped'
  BY DEF Sound
<1>2. CASE UNCHANGED vars
  BY <1>2 DEF Sound, CallsTyped, CallTyped, vars
<1>3. CASE Step
  <2>1. CASE \E c \in Writers :
               \/ CreateKVTable(c) \/ DeleteKVTable(c)
               \/ \E k \in Keys : KVDelete(c, k) \/ \E v \in Values : KVPut(c, k, v)
               \/ putRead(c) \/ deleteRead(c)
               \/ \E ok \in BOOLEAN : store(c, ok) \/ storeKVTables(c, ok)
    <3>1. SUFFICES ASSUME NEW c \in Writers,
                          \/ CreateKVTable(c) \/ DeleteKVTable(c)
                          \/ \E k \in Keys : KVDelete(c, k) \/ \E v \in Values : KVPut(c, k, v)
                          \/ putRead(c) \/ deleteRead(c)
                          \/ \E ok \in BOOLEAN : store(c, ok) \/ storeKVTables(c, ok)
                   PROVE  IsTrie(feed') /\ CallsTyped'
      BY <2>1
    <3>2. CASE CreateKVTable(c)
      BY <3>2, CreateDoes
    <3>3. CASE DeleteKVTable(c)
      BY <3>3, DropDoes
    <3>4. CASE \E k \in Keys : KVDelete(c, k)
      BY <3>4, KVDeleteDoes DEF Sound
    <3>5. CASE \E k \in Keys : \E v \in Values : KVPut(c, k, v)
      BY <3>5, KVPutDoes DEF Sound
    <3>6. CASE putRead(c)
      BY <3>6, putReadDoes DEF Sound
    <3>7. CASE deleteRead(c)
      BY <3>7, deleteReadDoes DEF Sound
    <3>8. CASE \E ok \in BOOLEAN : store(c, ok)
      BY <3>8, storeDoes
    <3>9. CASE \E ok \in BOOLEAN : storeKVTables(c, ok)
      BY <3>9, EndDoes, ClientsAre DEF storeKVTables, Sound
    <3> QED
      BY <3>1, <3>2, <3>3, <3>4, <3>5, <3>6, <3>7, <3>8, <3>9
  <2>2. CASE \E r \in Readers :
               \/ \E k \in Keys : KVGet(r, k)
               \/ \E s \in Starts : KVSeek(r, s)
               \/ seekRead(r) \/ KVGetNext(r) \/ nextRead(r)
    BY <2>2, KVGetDoes, KVSeekDoes, seekReadDoes, NextEntryDoes DEF KVGetNext, nextRead, Sound
  <2>3. CASE OpenKVTable
    BY <2>3 DEF OpenKVTable, Sound, CallsTyped, CallTyped
  <2>4. CASE Crash
    BY <2>4, CrashDoes DEF Sound
  <2> QED
    BY <1>3, <2>1, <2>2, <2>3, <2>4 DEF Step
<1>4. CASE \E r \in Readers : getRead(r)
  BY <1>4, getReadDoes DEF Sound
<1> QED
  BY <1>2, <1>3, <1>4 DEF Next

AnswersTyped ==
    /\ answer = NoAnswer \/ answer \in [key: Keys, value: Values \cup {None}]
    /\ content \in [Keys -> Values \cup {None}]
    /\ may \in [Readers -> SUBSET (Values \cup {None})]
    /\ due \in [seek: SUBSET Keys, itr: SUBSET Keys]
    /\ listed \in BOOLEAN /\ open \in BOOLEAN

\* The states of a table, whoever writes to it.
Typed == Sound /\ AnswersTyped

LEMMA TypedInit == Init => Typed
<1> SUFFICES ASSUME Init PROVE Typed
  OBVIOUS
<1>1. AnswersTyped
  BY DEF Init, AnswersTyped
<1> QED
  BY <1>1, SoundInit DEF Typed

LEMMA RememberTyped ==
    ASSUME Typed, Sound', Remember
    PROVE  /\ content' \in [Keys -> Values \cup {None}]
           /\ may' \in [Readers -> SUBSET (Values \cup {None})]
           /\ due' \in [seek: SUBSET Keys, itr: SUBSET Keys]
<1>1. content' \in [Keys -> Values \cup {None}]
  BY ContentTyped DEF Remember, Typed, AnswersTyped, Sound
<1>2. ASSUME NEW r \in Readers, call'[r].op = "get"
      PROVE  content'[call'[r].key] \in Values \cup {None}
  <2>1. call'[r].key \in Keys
    BY <1>2, ClientsAre DEF Sound, CallsTyped, CallTyped
  <2> QED
    BY <1>1, <2>1
<1>3. may' \in [Readers -> SUBSET (Values \cup {None})]
  <2>1. may \in [Readers -> SUBSET (Values \cup {None})]
    BY DEF Typed, AnswersTyped
  <2>2. may' = [r \in Readers |->
                  IF call'[r].op # "get" THEN {}
                  ELSE (IF call[r].op = "get" THEN may[r] ELSE {})
                           \cup {content'[call'[r].key]}]
    BY DEF Remember
  <2> QED
    BY <1>2, <2>1, <2>2
<1>4. due' \in [seek: SUBSET Keys, itr: SUBSET Keys]
  <2>1. Present \subseteq Keys /\ Present' \subseteq Keys
    BY DEF Present
  <2>2. due.seek \subseteq Keys /\ due.itr \subseteq Keys
    BY DEF Typed, AnswersTyped
  <2> QED
    BY <2>1, <2>2 DEF Remember
<1> QED
  BY <1>1, <1>3, <1>4

LEMMA TypedStep ==
    ASSUME Typed, [Next]_vars
    PROVE  Typed'
<1>1. Sound'
  BY SoundStep DEF Typed
<1>2. CASE UNCHANGED vars
  BY <1>1, <1>2 DEF Typed, AnswersTyped, NoAnswer, vars
<1>3. CASE Next
  <2>1. Remember
    BY <1>3 DEF Next
  <2>2. answer' = NoAnswer \/ answer' \in [key: Keys, value: Values \cup {None}]
    <3>1. CASE \E r \in Readers : getRead(r)
      <4>1. PICK r \in Readers : getRead(r)
        BY <3>1
      <4>2. \/ answer' = NoAnswer
            \/ \E k \in Keys : \E v \in Values \cup {None} : answer' = [key |-> k, value |-> v]
        BY <4>1, getReadDoes DEF Typed
      <4> QED
        BY <4>2
    <3> QED
      BY <1>3, <3>1 DEF Next
  <2>3. listed' \in BOOLEAN /\ open' \in BOOLEAN
    <3>1. listed \in BOOLEAN /\ open \in BOOLEAN
      BY DEF Typed, AnswersTyped
    <3>2. CASE \E r \in Readers : getRead(r)
      BY <3>1, <3>2 DEF getRead
    <3>3. CASE Step
      <4>1. ASSUME NEW c \in Writers,
                   \/ CreateKVTable(c) \/ DeleteKVTable(c)
                   \/ \E k \in Keys : KVDelete(c, k) \/ \E v \in Values : KVPut(c, k, v)
                   \/ putRead(c) \/ deleteRead(c)
                   \/ \E ok \in BOOLEAN : store(c, ok)
            PROVE  listed' \in BOOLEAN /\ open' \in BOOLEAN
        BY <3>1, <4>1 DEF CreateKVTable, DeleteKVTable, KVDelete, KVPut, putRead, deleteRead,
                          store, Unchanged
      <4>2. ASSUME NEW c \in Writers, \E ok \in BOOLEAN : storeKVTables(c, ok)
            PROVE  listed' \in BOOLEAN /\ open' \in BOOLEAN
        BY <3>1, <4>2 DEF storeKVTables
      <4>3. ASSUME NEW r \in Readers,
                   \/ \E k \in Keys : KVGet(r, k)
                   \/ \E s \in Starts : KVSeek(r, s)
                   \/ seekRead(r) \/ KVGetNext(r) \/ nextRead(r)
            PROVE  listed' \in BOOLEAN /\ open' \in BOOLEAN
        BY <3>1, <4>3 DEF KVGet, KVSeek, seekRead, KVGetNext, nextRead, NextEntry
      <4>4. ASSUME OpenKVTable \/ Crash
            PROVE  listed' \in BOOLEAN /\ open' \in BOOLEAN
        BY <3>1, <4>4 DEF OpenKVTable, Crash
      <4> QED
        BY <3>3, <4>1, <4>2, <4>3, <4>4 DEF Step
    <3> QED
      BY <1>3, <3>2, <3>3 DEF Next
  <2> QED
    BY <1>1, <2>1, <2>2, <2>3, RememberTyped DEF Typed, AnswersTyped, NoAnswer
<1> QED
  BY <1>2, <1>3

LEMMA TypedMeansTypeOK ==
    ASSUME Typed
    PROVE  TypeOK
<1>1. IsTrie(feed) /\ CallsTyped
  BY DEF Typed, Sound
<1>2. ASSUME NEW p \in Paths, feed[p] # Absent, NEW i \in DOMAIN feed[p]
      PROVE  IsEntry(p, feed[p][i])
  <2>1. feed[p] \in Manifests /\ Spells(p, feed[p])
    BY <1>1, <1>2, ManifestThere
  <2>2. i \in 1..Len(feed[p]) /\ feed[p][i] \in Entry
    BY <1>2, <2>1, ManifestIs
  <2>3. Contains(feed[p], feed[p][i])
    BY <2>2 DEF Contains
  <2> QED
    BY <2>1, <2>2, <2>3 DEF Spells
<1>3. \A c \in Clients : call[c].path \in Paths
  BY <1>1 DEF CallsTyped, Calls
<1> QED
  BY <1>2, <1>3 DEF Typed, AnswersTyped, TypeOK

\* Whoever writes, in every state the manifests that were ever stored have
\* leaves that spell keys and branches that lead towards one, the calls are at
\* such paths, and the answers are values of the keys asked for (storeManifest,
\* pkg/collection/index.go, and the calls of kv.go that store and read manifests).
THEOREM KVTyped == Spec => []TypeOK
<1>1. Spec => []Typed
  <2>1. Init => Typed
    BY TypedInit
  <2>2. Typed /\ [Next]_vars => Typed'
    BY TypedStep
  <2> QED
    BY <2>1, <2>2, PTL DEF Spec
<1>2. Typed => TypeOK
  BY TypedMeansTypeOK
<1> QED
  BY <1>1, <1>2, PTL

-----------------------------------------------------------------------------
\* What a put or a delete of the only writer is about to store.

\* The call is at a manifest that branches lead to, on the way to its key.
OnTheWay(f, x) ==
    Walked(f, x.path) /\ IsPrefix(x.path, x.key) /\ x.rest = After(x.key, x.path)

NoEmptyName(f, k) ==
    Walked(f, k) /\ f[k] # Absent => \A j \in 1..Len(f[k]) : f[k][j].name # <<>>

\* Nothing, the manifest or both manifests of a split, or the parent of a split
\* whose child is stored.
PutStores(f, x) ==
    LET es == f[x.path]
        i == Sharing(es, x.rest)
        c == CommonPrefix(es[i].name, x.rest)
    IN  \/ x.todo = <<>>
        \/ /\ es # Absent /\ ~GoesDown(es, i, x.rest)
           /\ \/ x.todo = PutManifests(x.path, es, i, x.rest, x.value)
              \/ /\ Splits(es, i, x.rest)
                 /\ f[x.path \o c] = SplitChild(es, i, x.rest, x.value)
                 /\ x.todo = <<[path |-> x.path, entries |-> SplitParent(es, i, x.rest)]>>

DeleteStores(f, x) ==
    LET es == f[x.path]
        i == Find(es, x.rest)
    IN  \/ x.todo = <<>>
        \/ /\ es # Absent /\ i \in 1..Len(es) /\ IsKey(es[i], x.rest)
           /\ x.todo = <<[path |-> x.path, entries |-> RemoveAt(es, i)]>>

Fits(f, x) ==
    /\ x.op = "put" => OnTheWay(f, x) /\ NoEmptyName(f, x.key) /\ PutStores(f, x)
    /\ x.op = "delete" => OnTheWay(f, x) /\ DeleteStores(f, x)
    /\ x.op \notin {"put", "delete"} => x.todo = <<>>

LEMMA WayIs ==
    ASSUME NEW f, Whole(f), NEW x \in Calls, x.key \in Keys, OnTheWay(f, x)
    PROVE  /\ x.path \in Paths /\ x.path \in Words /\ x.key \in Words /\ x.rest \in Words
           /\ IsTrie(f) /\ x.path \o x.rest = x.key
           /\ f[x.path] # Absent => /\ f[x.path] \in Manifests /\ Spells(x.path, f[x.path])
                                    /\ Sorted(f[x.path])
<1>1. x.path \in Paths /\ x.path \in Words /\ x.key \in Words /\ x.rest \in Words
  BY PathsAre DEF Calls
<1>2. x.path \o x.rest = x.key
  BY <1>1, PrefixAndAfter DEF OnTheWay
<1>3. IsTrie(f)
  BY DEF Whole
<1> QED
  BY <1>1, <1>2, <1>3, ManifestThere DEF Whole, OnTheWay

\* A call that goes on at a branch stays on the way.
LEMMA MovedOnTheWay ==
    ASSUME NEW f, IsTrie(f), NEW x \in Calls, x.key \in Words, OnTheWay(f, x),
           f[x.path] # Absent, NEW i \in 1..Len(f[x.path]), Leads(f[x.path][i], x.rest)
    PROVE  OnTheWay(f, Moved(x, f[x.path][i].name))
<1>1. x.path \in Paths /\ x.path \in Words
  BY PathsAre DEF Calls
<1>2. f[x.path][i].kind = "branch" /\ IsPrefix(f[x.path][i].name, x.rest)
  BY DEF Leads
<1>3. PICK n \in Words : /\ n = f[x.path][i].name /\ x.path \o n \in Paths
                         /\ Contains(f[x.path], Branch(n))
  BY <1>1, <1>2, BranchToPath
<1>4. Precedes(f, x.path, x.path \o n)
  BY <1>1, <1>3, BranchLeads
<1>5. Walked(f, x.path \o n)
  BY <1>1, <1>3, <1>4, WalkedOn DEF OnTheWay
<1>6. IsPrefix(n, After(x.key, x.path)) /\ IsPrefix(x.path, x.key)
  BY <1>2, <1>3 DEF OnTheWay
<1>7. /\ IsPrefix(x.path \o n, x.key)
      /\ After(After(x.key, x.path), n) = After(x.key, x.path \o n)
  BY <1>1, <1>6, AfterTwice
<1>8. PICK y : y = Moved(x, n)
  OBVIOUS
<1>9. y.key = x.key /\ y.path = x.path \o n /\ y.rest = After(x.rest, n)
  BY <1>8, MovedIs
<1>10. OnTheWay(f, y)
  BY <1>5, <1>7, <1>9 DEF OnTheWay
<1> QED
  BY <1>3, <1>8, <1>10

\* A put that stores one manifest.
LEMMA LeafFits ==
    ASSUME NEW f, Whole(f), NEW x \in Calls, x.key \in Keys, x.value \in Values,
           OnTheWay(f, x), NoEmptyName(f, x.key), f[x.path] # Absent,
           NEW i, i = Sharing(f[x.path], x.rest),
           ~GoesDown(f[x.path], i, x.rest), ~Splits(f[x.path], i, x.rest),
           NEW m, m = WithLeaf(f[x.path], i, x.rest, x.value),
           NEW g, IsTrie(g), Stored(f, g, x.path, m)
    PROVE  /\ Whole(g)
           /\ \A q \in Paths : Walked(f, q) => Walked(g, q)
           /\ ContentOf(g) = [ContentOf(f) EXCEPT ![x.key] = x.value]
<1>1. PICK p \in Paths : p = x.path
  BY WayIs
<1>2. PICK k \in Keys : k = x.key
  OBVIOUS
<1>3. PICK a \in Words : a = x.rest
  BY WayIs
<1>4. PICK v \in Values : v = x.value
  OBVIOUS
<1>5. PICK es \in Manifests : es = f[p] /\ Spells(p, es) /\ Sorted(es)
  BY <1>1, WayIs
<1>6. /\ p \o a = k /\ a = After(k, p) /\ Walked(f, p) /\ IsPrefix(p, k) /\ f[p] # Absent
      /\ p \in Words
  BY <1>1, <1>2, <1>3, WayIs DEF OnTheWay
<1>7. a = <<>> => \A j \in 1..Len(es) : es[j].name # <<>>
  <2>1. a = <<>> => p = k
    BY <1>6, ConcatEmptySeq DEF Words
  <2> QED
    BY <1>2, <1>5, <1>6, <2>1 DEF NoEmptyName
<1>8. /\ i = Sharing(es, a) /\ ~GoesDown(es, i, a) /\ ~Splits(es, i, a)
      /\ m = WithLeaf(es, i, a, v)
  BY <1>1, <1>3, <1>4, <1>5
<1>9. /\ m \in Manifests /\ Sorted(m) /\ Contains(m, Leaf(a, v))
      /\ \A e \in Entry : ~IsKey(e, a) => (Contains(m, e) <=> Contains(es, e))
  BY <1>5, <1>7, <1>8, WithLeafIs
<1>10. Spells(p, m)
  BY <1>5, <1>6, <1>8, WithLeafSpells
<1>11. Stored(f, g, p, m)
  BY <1>1
<1>12. /\ \A e \in Entry : ~IsKey(e, After(k, p)) => (Contains(m, e) <=> Contains(f[p], e))
       /\ Contains(m, Leaf(After(k, p), v))
  BY <1>5, <1>6, <1>9
<1>13. /\ Whole(g) /\ \A q \in Paths : Walked(g, q) <=> Walked(f, q)
  BY <1>6, <1>9, <1>10, <1>11, <1>12, LeafStored
<1>14. ContentOf(g) = [ContentOf(f) EXCEPT ![k] = v]
  BY <1>6, <1>9, <1>10, <1>11, <1>12, LeafPut
<1> QED
  BY <1>2, <1>4, <1>13, <1>14

\* What a split is made of.
LEMMA SplitFacts ==
    ASSUME NEW f, Whole(f), NEW x \in Calls, x.key \in Keys, x.value \in Values,
           OnTheWay(f, x), f[x.path] # Absent,
           NEW i, i = Sharing(f[x.path], x.rest), Splits(f[x.path], i, x.rest),
           NEW c, c = CommonPrefix(f[x.path][i].name, x.rest)
    PROVE  /\ c \in Words /\ x.path \o c \in Paths /\ ~Walked(f, x.path \o c)
           /\ x.path \o c # x.path
           /\ SplitChild(f[x.path], i, x.rest, x.value) \in Manifests
           /\ Spells(x.path \o c, SplitChild(f[x.path], i, x.rest, x.value))
<1>1. PICK p \in Paths : p = x.path
  BY WayIs
<1>2. PICK a \in Words : a = x.rest
  BY WayIs
<1>3. PICK v \in Values : v = x.value
  OBVIOUS
<1>4. PICK es \in Manifests : es = f[p] /\ Spells(p, es)
  BY <1>1, WayIs
<1>5. p \o a \in Keys /\ Walked(f, p) /\ f[p] # Absent
  BY <1>1, <1>2, WayIs DEF OnTheWay
<1>6. i = Sharing(es, a) /\ Splits(es, i, a) /\ c = CommonPrefix(es[i].name, a)
  BY <1>1, <1>2, <1>4
<1>7. /\ p \o c \in Paths /\ c \in Words /\ c # <<>>
      /\ SplitChild(es, i, a, v) \in Manifests /\ Spells(p \o c, SplitChild(es, i, a, v))
  BY <1>4, <1>5, <1>6, SplitSpells
<1>8. PICK e : e = es[i]
  OBVIOUS
<1>9. /\ i \in 1..Len(es) /\ e \in Entry /\ IsPrefix(c, a) /\ IsPrefix(c, e.name)
      /\ e.kind = "branch" => ~IsPrefix(e.name, a)
  BY <1>6, <1>8, SplitIs
<1>10. Contains(f[p], e)
  BY <1>4, <1>8, <1>9 DEF Contains
<1>11. e.kind = "branch" => c # e.name
  BY <1>9
<1>12. PICK q \in Paths : q = p \o c
  BY <1>7
<1>13. ~Walked(f, q)
  BY <1>5, <1>7, <1>9, <1>10, <1>11, <1>12, SplitOffTheWalk
<1>14. q # p
  BY <1>5, <1>13
<1> QED
  BY <1>1, <1>2, <1>3, <1>4, <1>7, <1>12, <1>13, <1>14

\* The child of a split is stored.
LEMMA ChildFits ==
    ASSUME NEW f, Whole(f), NEW x \in Calls, x.key \in Keys, x.value \in Values,
           OnTheWay(f, x), NoEmptyName(f, x.key), f[x.path] # Absent,
           NEW i, i = Sharing(f[x.path], x.rest), Splits(f[x.path], i, x.rest),
           NEW c, c = CommonPrefix(f[x.path][i].name, x.rest),
           NEW m, m = SplitChild(f[x.path], i, x.rest, x.value),
           NEW g, IsTrie(g), Stored(f, g, x.path \o c, m)
    PROVE  /\ Whole(g)
           /\ \A q \in Paths : Walked(f, q) => Walked(g, q)
           /\ ContentOf(g) = ContentOf(f)
           /\ OnTheWay(g, x) /\ NoEmptyName(g, x.key)
           /\ g[x.path] = f[x.path] /\ g[x.path \o c] = m
<1>1. PICK q \in Paths : q = x.path \o c /\ ~Walked(f, q) /\ q # x.path
  BY SplitFacts
<1>2. PICK n \in Manifests : n = m
  BY SplitFacts
<1>3. Stored(f, g, q, n) /\ ~Walked(f, q)
  BY <1>1, <1>2
<1>4. /\ Whole(g) /\ ContentOf(g) = ContentOf(f)
      /\ \A r \in Paths : Walked(g, r) <=> Walked(f, r)
  BY <1>3, OffTheWalk
<1>5. x.path \in Paths /\ x.key \in Paths
  BY WayIs, PathsAre
<1>6. OnTheWay(g, x)
  BY <1>4, <1>5 DEF OnTheWay
<1>7. NoEmptyName(g, x.key)
  BY <1>1, <1>3, <1>4, <1>5 DEF NoEmptyName, Stored
<1>8. g[x.path] = f[x.path] /\ g[x.path \o c] = m
  BY <1>1, <1>2, <1>3, <1>5 DEF Stored
<1> QED
  BY <1>4, <1>6, <1>7, <1>8

\* The parent of a split is stored.
LEMMA ParentFits ==
    ASSUME NEW f, Whole(f), NEW x \in Calls, x.key \in Keys, x.value \in Values,
           OnTheWay(f, x), f[x.path] # Absent,
           NEW i, i = Sharing(f[x.path], x.rest), Splits(f[x.path], i, x.rest),
           NEW c, c = CommonPrefix(f[x.path][i].name, x.rest),
           f[x.path \o c] = SplitChild(f[x.path], i, x.rest, x.value),
           NEW m, m = SplitParent(f[x.path], i, x.rest),
           NEW g, IsTrie(g), Stored(f, g, x.path, m)
    PROVE  /\ Whole(g)
           /\ \A q \in Paths : Walked(f, q) => Walked(g, q)
           /\ ContentOf(g) = [ContentOf(f) EXCEPT ![x.key] = x.value]
<1>1. PICK p \in Paths : p = x.path
  BY WayIs
<1>2. PICK a \in Words : a = x.rest
  BY WayIs
<1>3. PICK v \in Values : v = x.value
  OBVIOUS
<1>4. PICK k \in Keys : k = x.key
  OBVIOUS
<1>5. PICK es \in Manifests : es = f[p] /\ Spells(p, es) /\ Sorted(es)
  BY <1>1, WayIs
<1>6. p \o a = k /\ a = After(k, p) /\ Walked(f, p) /\ IsPrefix(p, k) /\ f[p] # Absent
  BY <1>1, <1>2, <1>4, WayIs DEF OnTheWay
<1>7. i = Sharing(es, a) /\ Splits(es, i, a) /\ c = CommonPrefix(es[i].name, a)
  BY <1>1, <1>2, <1>5
<1>8. PICK q \in Paths : q = p \o c /\ ~Walked(f, q)
  BY <1>1, SplitFacts
<1>9. PICK e : e = es[i]
  OBVIOUS
<1>10. PICK child : child = SplitChild(es, i, a, v)
  OBVIOUS
<1>11. m = SplitParent(es, i, a)
  BY <1>1, <1>2, <1>5
<1>12. /\ i \in 1..Len(es) /\ e \in Entry
       /\ c \in Words /\ c # <<>> /\ IsPrefix(c, a) /\ IsPrefix(c, e.name)
       /\ child \in Manifests /\ Sorted(child)
       /\ \E d \in Entry :
             /\ d.kind = e.kind /\ d.name = After(e.name, c) /\ d.value = e.value
             /\ \A y : Contains(child, y) <=> y = Leaf(After(a, c), v) \/ y = d
       /\ m \in Manifests /\ Sorted(m)
       /\ \A y : Contains(m, y) <=> y = Branch(c) \/ (Contains(es, y) /\ y # e)
  BY <1>5, <1>7, <1>9, <1>10, <1>11, SplitIs
<1>13. PICK d \in Entry :
          /\ d.kind = e.kind /\ d.name = After(e.name, c) /\ d.value = e.value
          /\ \A y : Contains(child, y) <=> y = Leaf(After(a, c), v) \/ y = d
  BY <1>12
<1>14. Contains(f[p], e)
  BY <1>5, <1>9, <1>12 DEF Contains
<1>15. f[q] = child
  BY <1>1, <1>2, <1>3, <1>5, <1>8, <1>10
<1>16. f[q] # Absent /\ Sorted(f[q])
  BY <1>12, <1>15, ManifestNotAbsent
<1>17. \A y : Contains(f[q], y) <=> y = Leaf(After(After(k, p), c), v) \/ y = d
  BY <1>6, <1>13, <1>15
<1>18. \A y : Contains(m, y) <=> y = Branch(c) \/ (Contains(f[p], y) /\ y # e)
  BY <1>5, <1>12
<1>19. IsPrefix(c, After(k, p))
  BY <1>6, <1>12
<1>20. Stored(f, g, p, m)
  BY <1>1
<1>21. /\ Whole(g)
       /\ \A r \in Paths : Walked(f, r) => Walked(g, r)
       /\ ContentOf(g) = [ContentOf(f) EXCEPT ![k] = v]
  <2>1. PICK b \in Words : b = c
    BY <1>12
  <2>2. PICK n \in Manifests : n = m
    BY <1>12
  <2>3. b # <<>> /\ IsPrefix(b, After(k, p)) /\ IsPrefix(b, e.name) /\ e \in Entry /\ Sorted(n)
    BY <1>12, <1>19, <2>1, <2>2
  <2>4. d.kind = e.kind /\ d.name = After(e.name, b) /\ d.value = e.value
    BY <1>13, <2>1
  <2>5. q = p \o b /\ ~Walked(f, q)
    BY <1>8, <2>1
  <2>6. \A y : Contains(f[q], y) <=> y = Leaf(After(After(k, p), b), v) \/ y = d
    BY <1>17, <2>1
  <2>7. \A y : Contains(n, y) <=> y = Branch(b) \/ (Contains(f[p], y) /\ y # e)
    BY <1>18, <2>1, <2>2
  <2>8. Stored(f, g, p, n)
    BY <1>20, <2>2
  <2>9. Walked(f, p) /\ IsPrefix(p, k) /\ f[p] # Absent
    BY <1>6
  <2> QED
    <3>1. IsSplit(f, k, p, e, b, d, v, q, n)
      BY <1>14, <1>16, <2>3, <2>4, <2>5, <2>6, <2>7, <2>9 DEF IsSplit
    <3> QED
      BY <2>3, <2>8, <3>1, SplitStored
<1> QED
  BY <1>3, <1>4, <1>21

LEMMA PutStoreFits ==
    ASSUME NEW f, Whole(f), NEW x \in Calls, x.key \in Keys, x.value \in Values,
           x.op = "put", Fits(f, x), x.todo # <<>>,
           NEW g, IsTrie(g), Stored(f, g, Head(x.todo).path, Head(x.todo).entries)
    PROVE  /\ Whole(g)
           /\ \A q \in Paths : Walked(f, q) => Walked(g, q)
           /\ \/ ContentOf(g) = ContentOf(f)
              \/ ContentOf(g) = [ContentOf(f) EXCEPT ![x.key] = x.value]
           /\ Len(x.todo) > 1 => Fits(g, [x EXCEPT !.todo = Tail(x.todo)])
<1>1. PICK es : es = f[x.path]
  OBVIOUS
<1>2. PICK i : i = Sharing(es, x.rest)
  OBVIOUS
<1>3. PICK c : c = CommonPrefix(es[i].name, x.rest)
  OBVIOUS
<1>4. PICK leaf : leaf = WithLeaf(es, i, x.rest, x.value)
  OBVIOUS
<1>5. PICK child : child = SplitChild(es, i, x.rest, x.value)
  OBVIOUS
<1>6. PICK parent : parent = SplitParent(es, i, x.rest)
  OBVIOUS
<1>7. OnTheWay(f, x) /\ NoEmptyName(f, x.key) /\ es # Absent /\ ~GoesDown(es, i, x.rest)
  BY <1>1, <1>2 DEF Fits, PutStores
<1>8. \/ ~Splits(es, i, x.rest) /\ x.todo = <<[path |-> x.path, entries |-> leaf]>>
      \/ /\ Splits(es, i, x.rest)
         /\ x.todo = <<[path |-> x.path \o c, entries |-> child],
                       [path |-> x.path, entries |-> parent]>>
      \/ /\ Splits(es, i, x.rest) /\ f[x.path \o c] = child
         /\ x.todo = <<[path |-> x.path, entries |-> parent]>>
  BY <1>1, <1>2, <1>3, <1>4, <1>5, <1>6 DEF Fits, PutStores, PutManifests
<1>9. CASE ~Splits(es, i, x.rest) /\ x.todo = <<[path |-> x.path, entries |-> leaf]>>
  <2>1. Stored(f, g, x.path, leaf) /\ Len(x.todo) = 1
    BY <1>9
  <2>2. /\ Whole(g) /\ \A q \in Paths : Walked(f, q) => Walked(g, q)
        /\ ContentOf(g) = [ContentOf(f) EXCEPT ![x.key] = x.value]
    BY <1>1, <1>2, <1>4, <1>7, <1>9, <2>1, LeafFits
  <2> QED
    BY <2>1, <2>2
<1>10. CASE /\ Splits(es, i, x.rest)
            /\ x.todo = <<[path |-> x.path \o c, entries |-> child],
                          [path |-> x.path, entries |-> parent]>>
  <2>1. Stored(f, g, x.path \o c, child)
    <3>1. PICK q : q = x.path \o c
      OBVIOUS
    <3>2. x.todo = <<[path |-> q, entries |-> child], [path |-> x.path, entries |-> parent]>>
      BY <1>10, <3>1
    <3>3. Head(x.todo) = [path |-> q, entries |-> child]
      BY <3>2
    <3>4. Stored(f, g, q, child)
      BY <3>3
    <3> QED
      BY <3>1, <3>4
  <2>2. Tail(x.todo) = <<[path |-> x.path, entries |-> parent]>>
    BY <1>10
  <2>3. /\ Whole(g) /\ \A q \in Paths : Walked(f, q) => Walked(g, q)
        /\ ContentOf(g) = ContentOf(f)
        /\ OnTheWay(g, x) /\ NoEmptyName(g, x.key)
        /\ g[x.path] = f[x.path] /\ g[x.path \o c] = child
    <3>1. f[x.path] # Absent /\ Splits(f[x.path], i, x.rest)
      BY <1>1, <1>7, <1>10
    <3>2. /\ i = Sharing(f[x.path], x.rest)
          /\ c = CommonPrefix(f[x.path][i].name, x.rest)
          /\ child = SplitChild(f[x.path], i, x.rest, x.value)
      BY <1>1, <1>2, <1>3, <1>5
    <3> QED
      BY <1>7, <2>1, <3>1, <3>2, ChildFits
  <2>4. PICK t : t = Tail(x.todo)
    OBVIOUS
  <2>5. PICK y : y = [x EXCEPT !.todo = t]
    OBVIOUS
  <2>6. /\ y.op = x.op /\ y.key = x.key /\ y.value = x.value /\ y.path = x.path
        /\ y.rest = x.rest /\ y.todo = t
    BY <2>5 DEF Calls
  <2>7. OnTheWay(g, y) /\ NoEmptyName(g, y.key)
    BY <2>3, <2>6 DEF OnTheWay
  <2>8. g[y.path] = es /\ i = Sharing(es, y.rest) /\ c = CommonPrefix(es[i].name, y.rest)
    BY <1>1, <1>2, <1>3, <2>3, <2>6
  <2>9. /\ es # Absent /\ ~GoesDown(es, i, y.rest) /\ Splits(es, i, y.rest)
        /\ g[y.path \o c] = SplitChild(es, i, y.rest, y.value)
        /\ y.todo = <<[path |-> y.path, entries |-> SplitParent(es, i, y.rest)]>>
    BY <1>5, <1>6, <1>7, <1>10, <2>2, <2>3, <2>4, <2>6
  <2>10. PutStores(g, y)
    BY <2>8, <2>9 DEF PutStores
  <2>11. Fits(g, y)
    BY <2>6, <2>7, <2>10 DEF Fits
  <2> QED
    BY <2>3, <2>4, <2>5, <2>11
<1>11. CASE /\ Splits(es, i, x.rest) /\ f[x.path \o c] = child
            /\ x.todo = <<[path |-> x.path, entries |-> parent]>>
  <2>1. Stored(f, g, x.path, parent) /\ Len(x.todo) = 1
    BY <1>11
  <2>2. /\ Whole(g) /\ \A q \in Paths : Walked(f, q) => Walked(g, q)
        /\ ContentOf(g) = [ContentOf(f) EXCEPT ![x.key] = x.value]
    BY <1>1, <1>2, <1>3, <1>5, <1>6, <1>7, <1>11, <2>1, ParentFits
  <2> QED
    BY <2>1, <2>2
<1> QED
  BY <1>8, <1>9, <1>10, <1>11

LEMMA DeleteStoreFits ==
    ASSUME NEW f, Whole(f), NEW x \in Calls, x.key \in Keys,
           x.op = "delete", Fits(f, x), x.todo # <<>>,
           NEW g, IsTrie(g), Stored(f, g, Head(x.todo).path, Head(x.todo).entries)
    PROVE  /\ Whole(g)
           /\ \A q \in Paths : Walked(f, q) => Walked(g, q)
           /\ ContentOf(g) = [ContentOf(f) EXCEPT ![x.key] = None]
           /\ ~(Len(x.todo) > 1)
<1>1. PICK p \in Paths : p = x.path
  BY DEF Calls
<1>2. PICK k \in Keys : k = x.key
  OBVIOUS
<1>3. OnTheWay(f, x) /\ f[p] # Absent
  BY <1>1 DEF Fits, DeleteStores
<1>4. PICK es \in Manifests : es = f[p] /\ Spells(p, es) /\ Sorted(es)
  BY <1>1, <1>3, WayIs
<1>5. PICK i \in 1..Len(es) :
         /\ IsKey(es[i], x.rest)
         /\ x.todo = <<[path |-> x.path, entries |-> RemoveAt(es, i)]>>
  BY <1>1, <1>4 DEF Fits, DeleteStores
<1>6. PICK m \in Manifests : m = RemoveAt(es, i) /\ Spells(p, m)
  BY <1>4, RemovedSpells
<1>7. Sorted(m) /\ \A y : Contains(m, y) <=> Contains(es, y) /\ y # es[i]
  BY <1>4, <1>6, RemovedIs
<1>8. PICK e \in Entry : e = es[i]
  BY ManifestIs
<1>9. /\ Walked(f, p) /\ IsPrefix(p, k) /\ x.rest = After(k, p)
  BY <1>1, <1>2, <1>3 DEF OnTheWay
<1>10. Contains(f[p], e) /\ IsKey(e, After(k, p))
  BY <1>4, <1>5, <1>8, <1>9 DEF Contains
<1>11. \A y : Contains(m, y) <=> Contains(f[p], y) /\ y # e
  BY <1>4, <1>7, <1>8
<1>12. Stored(f, g, p, m) /\ Len(x.todo) = 1
  BY <1>1, <1>5, <1>6
<1>13. Spells(p, m) /\ Sorted(m)
  BY <1>6, <1>7
<1>14. /\ Whole(g)
       /\ \A q \in Paths : Walked(g, q) <=> Walked(f, q)
       /\ ContentOf(g) = [ContentOf(f) EXCEPT ![k] = None]
  <2>1. Walked(f, p) /\ IsPrefix(p, k) /\ f[p] # Absent /\ Stored(f, g, p, m)
    BY <1>3, <1>9, <1>12
  <2> QED
    BY <1>10, <1>11, <1>13, <2>1, LeafDeleted
<1> QED
  BY <1>2, <1>12, <1>14

LEMMA IdleFits == \A f : Fits(f, Idle)
  BY DEF Fits, Idle

LEMMA NewCallFits ==
    ASSUME NEW f, IsTrie(f), NEW op \in WriterOps, NEW k \in Words, NEW v,
           op = "put" => /\ k \in Keys
                         /\ \A l \in Leaves(f, k) : l[1] # k
    PROVE  Fits(f, NewCall(op, k, v, k))
<1>1. PICK x : x = NewCall(op, k, v, k)
  OBVIOUS
<1>2. x.op = op /\ x.key = k /\ x.path = <<>> /\ x.rest = k /\ x.todo = <<>>
  BY <1>1 DEF NewCall
<1>3. OnTheWay(f, x)
  <2>1. IsPrefix(<<>>, k)
    BY EmptyWord, PrefixIs
  <2>2. k = After(k, <<>>)
    <3>1. <<>> \o After(k, <<>>) = k
      BY <2>1, EmptyWord, PrefixAndAfter
    <3>2. After(k, <<>>) \in Words
      BY EmptyWord, AfterIs
    <3> QED
      BY <3>1, <3>2, ConcatEmptySeq DEF Words
  <2> QED
    BY <1>2, <2>1, <2>2, WalkedRoot DEF OnTheWay
<1>4. op = "put" => NoEmptyName(f, k)
  <2>1. SUFFICES ASSUME op = "put", Walked(f, k), f[k] # Absent, NEW j \in 1..Len(f[k]),
                        f[k][j].name = <<>>
                 PROVE  FALSE
    BY DEF NoEmptyName
  <2>2. k \in Keys /\ k \in Paths
    BY <2>1, PathsAre
  <2>3. f[k] \in Manifests /\ Spells(k, f[k])
    BY <2>1, <2>2, ManifestThere
  <2>4. PICK e \in Entry : e = f[k][j]
    BY <2>3, ManifestIs
  <2>5. Contains(f[k], e)
    BY <2>4 DEF Contains
  <2>6. e.kind = "leaf"
    BY <2>1, <2>3, <2>4, <2>5 DEF Spells, IsEntry
  <2>7. IsPrefix(k, k) /\ After(k, k) = <<>>
    <3>1. IsPrefix(k, k)
      BY PrefixItself
    <3>2. k \o After(k, k) = k /\ After(k, k) \in Words
      BY <3>1, PrefixAndAfter, AfterIs
    <3>3. Len(k \o After(k, k)) = Len(k) + Len(After(k, k))
      BY <3>2, ConcatIs
    <3>4. Len(After(k, k)) = 0
      BY <3>2, <3>3, WordIs
    <3> QED
      BY <3>1, <3>2, <3>4, WordIs
  <2>8. IsLeafAt(f, k, k, j)
    BY <2>1, <2>2, <2>4, <2>6, <2>7 DEF IsLeafAt, IsKey
  <2>9. <<k, j>> \in Leaves(f, k)
    BY <2>2, <2>8, LeavesAre
  <2>10. <<k, j>>[1] = k
    OBVIOUS
  <2> QED
    BY <2>1, <2>9, <2>10
<1>5. Fits(f, x)
  BY <1>2, <1>3, <1>4 DEF Fits, PutStores, DeleteStores
<1> QED
  BY <1>1, <1>5

-----------------------------------------------------------------------------
\* The trie when there is one writer.

OneWriter == \A c, d \in Writers : c = d

Kept ==
    /\ Whole(feed) /\ content = ContentOf(feed)
    /\ \A c \in Writers : Fits(feed, call[c])

\* A trie with the value of at most one key changed, and no manifest cut off.
Altered(f, g) ==
    /\ Whole(g) /\ \A q \in Paths : Walked(f, q) => Walked(g, q)
    /\ \/ ContentOf(g) = ContentOf(f)
       \/ \E k \in Keys : \E v \in Values \cup {None} :
              ContentOf(g) = [ContentOf(f) EXCEPT ![k] = v]

LEMMA SameAltered ==
    ASSUME NEW f, Whole(f)
    PROVE  Altered(f, f)
  BY DEF Altered

LEMMA BecomesIs ==
    ASSUME Sound, NEW c \in Clients, NEW x, Becomes(c, x)
    PROVE  call'[c] = x /\ \A d \in Clients : d # c => call'[d] = call[d]
  BY DEF Sound, CallsTyped, Becomes

LEMMA putReadFits ==
    ASSUME Sound, Kept, NEW c \in Writers, putRead(c)
    PROVE  feed' = feed /\ \E y : Becomes(c, y) /\ Fits(feed, y) /\ y.op \in WriterOps
<1>1. PICK x \in Calls : /\ x = call[c] /\ x.op = "put" /\ x.todo = <<>> /\ x.key \in Keys
                         /\ Fits(feed, x) /\ CallTyped(c, x)
  BY putReadDoes, ClientsAre DEF Sound, CallsTyped, CallTyped, Kept
<1>2. PICK es : es = feed[x.path]
  OBVIOUS
<1>3. PICK i : i = Sharing(es, x.rest)
  OBVIOUS
<1>4. PICK t : t = PutManifests(x.path, es, i, x.rest, x.value)
  OBVIOUS
<1>5. /\ feed' = feed
      /\ \/ Becomes(c, Idle)
         \/ /\ es # Absent /\ GoesDown(es, i, x.rest) /\ i \in 1..Len(es)
            /\ Becomes(c, Moved(x, es[i].name))
         \/ /\ es # Absent /\ ~GoesDown(es, i, x.rest)
            /\ Becomes(c, [x EXCEPT !.todo = t])
  BY <1>1, <1>2, <1>3, <1>4, putReadDoes DEF Becomes
<1>6. OnTheWay(feed, x) /\ NoEmptyName(feed, x.key) /\ x.key \in Words /\ IsTrie(feed)
  BY <1>1, PathsAre DEF Fits, Sound
<1>7. CASE /\ es # Absent /\ GoesDown(es, i, x.rest) /\ i \in 1..Len(es)
           /\ Becomes(c, Moved(x, es[i].name))
  <2>1. Leads(es[i], x.rest)
    BY <1>7 DEF GoesDown, Leads
  <2>2. PICK y : y = Moved(x, es[i].name)
    OBVIOUS
  <2>3. OnTheWay(feed, y)
    BY <1>2, <1>6, <1>7, <2>1, <2>2, MovedOnTheWay
  <2>4. y.op = "put" /\ y.key = x.key /\ y.todo = <<>>
    BY <1>1, <2>2, MovedIs
  <2>5. Fits(feed, y)
    BY <1>6, <2>3, <2>4 DEF Fits, PutStores
  <2> QED
    BY <1>5, <1>7, <2>2, <2>4, <2>5 DEF WriterOps
<1>8. CASE /\ es # Absent /\ ~GoesDown(es, i, x.rest)
           /\ Becomes(c, [x EXCEPT !.todo = t])
  <2>1. PICK y : y = [x EXCEPT !.todo = t]
    OBVIOUS
  <2>2. /\ y.op = x.op /\ y.key = x.key /\ y.value = x.value /\ y.path = x.path
        /\ y.rest = x.rest /\ y.todo = t
    BY <2>1 DEF Calls
  <2>3. OnTheWay(feed, y) /\ NoEmptyName(feed, y.key)
    BY <1>6, <2>2 DEF OnTheWay
  <2>4. PutStores(feed, y)
    BY <1>2, <1>3, <1>4, <1>8, <2>2 DEF PutStores
  <2>5. Fits(feed, y)
    BY <1>1, <2>2, <2>3, <2>4 DEF Fits
  <2> QED
    BY <1>1, <1>5, <1>8, <2>1, <2>2, <2>5 DEF WriterOps
<1>9. Fits(feed, Idle) /\ Idle.op \in WriterOps
  BY IdleFits, IdleTyped DEF WriterOps
<1> QED
  BY <1>5, <1>7, <1>8, <1>9

LEMMA deleteReadFits ==
    ASSUME Sound, Kept, NEW c \in Writers, deleteRead(c)
    PROVE  feed' = feed /\ \E y : Becomes(c, y) /\ Fits(feed, y) /\ y.op \in WriterOps
<1>1. PICK x \in Calls : /\ x = call[c] /\ x.op = "delete" /\ x.todo = <<>> /\ x.key \in Keys
                         /\ Fits(feed, x) /\ CallTyped(c, x)
  BY deleteReadDoes, ClientsAre DEF Sound, CallsTyped, CallTyped, Kept
<1>2. PICK es : es = feed[x.path]
  OBVIOUS
<1>3. PICK i : i = Find(es, x.rest)
  OBVIOUS
<1>4. PICK t : t = <<[path |-> x.path, entries |-> RemoveAt(es, i)]>>
  OBVIOUS
<1>5. /\ feed' = feed
      /\ \/ Becomes(c, Idle)
         \/ /\ es # Absent /\ i \in 1..Len(es) /\ Leads(es[i], x.rest)
            /\ Becomes(c, Moved(x, es[i].name))
         \/ /\ es # Absent /\ i \in 1..Len(es) /\ IsKey(es[i], x.rest)
            /\ Becomes(c, [x EXCEPT !.todo = t])
  BY <1>1, <1>2, <1>3, <1>4, deleteReadDoes DEF Becomes
<1>6. OnTheWay(feed, x) /\ x.key \in Words /\ IsTrie(feed)
  BY <1>1, PathsAre DEF Fits, Sound
<1>7. CASE /\ es # Absent /\ i \in 1..Len(es) /\ Leads(es[i], x.rest)
           /\ Becomes(c, Moved(x, es[i].name))
  <2>1. PICK y : y = Moved(x, es[i].name)
    OBVIOUS
  <2>2. OnTheWay(feed, y)
    BY <1>2, <1>6, <1>7, <2>1, MovedOnTheWay
  <2>3. y.op = "delete" /\ y.key = x.key /\ y.todo = <<>>
    BY <1>1, <2>1, MovedIs
  <2>4. Fits(feed, y)
    BY <1>6, <2>2, <2>3 DEF Fits, DeleteStores
  <2> QED
    BY <1>5, <1>7, <2>1, <2>3, <2>4 DEF WriterOps
<1>8. CASE /\ es # Absent /\ i \in 1..Len(es) /\ IsKey(es[i], x.rest)
           /\ Becomes(c, [x EXCEPT !.todo = t])
  <2>1. PICK y : y = [x EXCEPT !.todo = t]
    OBVIOUS
  <2>2. /\ y.op = x.op /\ y.key = x.key /\ y.path = x.path
        /\ y.rest = x.rest /\ y.todo = t
    BY <2>1 DEF Calls
  <2>3. OnTheWay(feed, y)
    BY <1>6, <2>2 DEF OnTheWay
  <2>4. DeleteStores(feed, y)
    BY <1>2, <1>3, <1>4, <1>8, <2>2 DEF DeleteStores
  <2>5. Fits(feed, y)
    BY <1>1, <2>2, <2>3, <2>4 DEF Fits
  <2> QED
    BY <1>1, <1>5, <1>8, <2>1, <2>2, <2>5 DEF WriterOps
<1>9. Fits(feed, Idle) /\ Idle.op \in WriterOps
  BY IdleFits, IdleTyped DEF WriterOps
<1> QED
  BY <1>5, <1>7, <1>8, <1>9

LEMMA storeFits ==
    ASSUME Sound, Kept, NEW c \in Writers, NEW ok \in BOOLEAN, store(c, ok)
    PROVE  /\ Altered(feed, feed')
           /\ \E y : Becomes(c, y) /\ Fits(feed', y) /\ y.op \in WriterOps
<1>1. PICK x \in Calls : /\ x = call[c] /\ x.todo # <<>> /\ Fits(feed, x) /\ CallTyped(c, x)
                         /\ x.op \in WriterOps
  BY storeDoes, ClientsAre DEF Sound, CallsTyped, CallTyped, Kept
<1>2. PICK w : w = Head(x.todo)
  OBVIOUS
<1>3. /\ IsTrie(feed')
      /\ ok => Stored(feed, feed', w.path, w.entries)
      /\ ~ok => feed' = feed
      /\ \/ Becomes(c, Idle)
         \/ ok /\ Len(x.todo) > 1 /\ Becomes(c, [x EXCEPT !.todo = Tail(x.todo)])
  BY <1>1, <1>2, storeDoes DEF Becomes
<1>4. x.op \in {"put", "delete"} /\ x.key \in Keys /\ (x.op = "put" => x.value \in Values)
  BY <1>1 DEF Fits, CallTyped
<1>5. Whole(feed)
  BY DEF Kept
<1>6. ASSUME ok
      PROVE  /\ Altered(feed, feed')
             /\ Len(x.todo) > 1 => Fits(feed', [x EXCEPT !.todo = Tail(x.todo)])
  <2>1. Stored(feed, feed', Head(x.todo).path, Head(x.todo).entries)
    BY <1>2, <1>3, <1>6
  <2>2. PICK g : g = feed'
    OBVIOUS
  <2>3. CASE x.op = "put"
    <3>1. /\ Whole(g)
          /\ \A q \in Paths : Walked(feed, q) => Walked(g, q)
          /\ \/ ContentOf(g) = ContentOf(feed)
             \/ ContentOf(g) = [ContentOf(feed) EXCEPT ![x.key] = x.value]
          /\ Len(x.todo) > 1 => Fits(g, [x EXCEPT !.todo = Tail(x.todo)])
      BY <1>1, <1>3, <1>4, <1>5, <2>1, <2>2, <2>3, PutStoreFits
    <3> QED
      BY <1>4, <2>2, <2>3, <3>1 DEF Altered
  <2>4. CASE x.op = "delete"
    <3>1. /\ Whole(g)
          /\ \A q \in Paths : Walked(feed, q) => Walked(g, q)
          /\ ContentOf(g) = [ContentOf(feed) EXCEPT ![x.key] = None]
          /\ ~(Len(x.todo) > 1)
      BY <1>1, <1>3, <1>4, <1>5, <2>1, <2>2, <2>4, DeleteStoreFits
    <3> QED
      BY <1>4, <2>2, <3>1 DEF Altered
  <2> QED
    BY <1>4, <2>3, <2>4
<1>7. Altered(feed, feed')
  BY <1>3, <1>5, <1>6, SameAltered
<1>8. Fits(feed', Idle) /\ Idle.op \in WriterOps
  BY IdleFits, IdleTyped DEF WriterOps
<1>9. [x EXCEPT !.todo = Tail(x.todo)].op = x.op
  BY DEF Calls
<1> QED
  BY <1>1, <1>3, <1>6, <1>7, <1>8, <1>9

\* What the only writer does, but for dropping the table.
Writes(c) ==
    \/ CreateKVTable(c)
    \/ \E k \in Keys : KVDelete(c, k) \/ \E v \in Values : KVPut(c, k, v)
    \/ putRead(c) \/ deleteRead(c)
    \/ \E ok \in BOOLEAN : store(c, ok) \/ storeKVTables(c, ok)

\* What a reader does.
Reads(r) ==
    \/ \E k \in Keys : KVGet(r, k)
    \/ \E s \in Starts : KVSeek(r, s)
    \/ seekRead(r) \/ KVGetNext(r) \/ nextRead(r) \/ getRead(r)

LEMMA StepsAre ==
    ASSUME Next
    PROVE  /\ Remember
           /\ \/ \E c \in Writers : Writes(c) /\ answer' = NoAnswer
              \/ \E c \in Writers : DeleteKVTable(c) /\ answer' = NoAnswer
              \/ \E r \in Readers : Reads(r) /\ (answer' = NoAnswer \/ getRead(r))
              \/ OpenKVTable /\ answer' = NoAnswer
              \/ Crash /\ answer' = NoAnswer
<1>1. Remember /\ ((Step /\ answer' = NoAnswer) \/ \E r \in Readers : getRead(r))
  BY DEF Next
<1>2. Step => \/ \E c \in Writers : Writes(c) \/ DeleteKVTable(c)
              \/ \E r \in Readers : Reads(r)
              \/ OpenKVTable
              \/ Crash
  BY DEF Step, Writes, Reads
<1>3. \A r \in Readers : getRead(r) => Reads(r)
  BY DEF Reads
<1> QED
  BY <1>1, <1>2, <1>3

LEMMA WritesKeep ==
    ASSUME Sound, Kept, ~PutsBranchKeys, NEW c \in Writers, Writes(c)
    PROVE  /\ Altered(feed, feed')
           /\ \E y : Becomes(c, y) /\ Fits(feed', y) /\ y.op \in WriterOps
<1>1. IsTrie(feed) /\ Whole(feed) /\ Altered(feed, feed)
  BY SameAltered DEF Sound, Kept
<1>2. CASE CreateKVTable(c)
  <2>1. PICK y : y = NewCall("create", <<>>, None, <<>>)
    OBVIOUS
  <2>2. IsTrie(feed') /\ Stored(feed, feed', <<>>, <<>>) /\ Becomes(c, y)
    BY <1>2, <2>1, CreateDoes
  <2>3. feed[<<>>] = Absent
    BY <1>2 DEF CreateKVTable
  <2>4. PICK g : g = feed'
    OBVIOUS
  <2>5. /\ Whole(g) /\ ContentOf(g) = ContentOf(feed)
        /\ \A q \in Paths : Walked(g, q) <=> Walked(feed, q)
    BY <1>1, <2>2, <2>3, <2>4, RootMade
  <2>6. Altered(feed, feed')
    BY <2>4, <2>5 DEF Altered
  <2>7. Fits(g, y) /\ y.op = "create"
    <3>1. IsTrie(g) /\ <<>> \in Words
      BY <2>2, <2>4, EmptyWord
    <3>2. Fits(g, NewCall("create", <<>>, None, <<>>))
      BY <3>1, NewCallFits DEF WriterOps
    <3> QED
      BY <2>1, <3>2 DEF NewCall
  <2> QED
    BY <2>2, <2>4, <2>6, <2>7 DEF WriterOps
<1>3. CASE \E k \in Keys : KVDelete(c, k)
  <2>1. PICK k \in Keys : KVDelete(c, k)
    BY <1>3
  <2>2. PICK y : y = NewCall("delete", k, None, k)
    OBVIOUS
  <2>3. feed' = feed /\ Becomes(c, y)
    BY <2>1, <2>2, KVDeleteDoes
  <2>4. Fits(feed, y) /\ y.op = "delete"
    <3>1. k \in Words
      BY KVAssumption
    <3>2. Fits(feed, NewCall("delete", k, None, k))
      BY <1>1, <3>1, NewCallFits DEF WriterOps
    <3> QED
      BY <2>2, <3>2 DEF NewCall
  <2> QED
    BY <1>1, <2>3, <2>4 DEF WriterOps
<1>4. CASE \E k \in Keys : \E v \in Values : KVPut(c, k, v)
  <2>1. PICK k \in Keys, v \in Values : KVPut(c, k, v)
    BY <1>4
  <2>2. PICK y : y = NewCall("put", k, v, k)
    OBVIOUS
  <2>3. feed' = feed /\ Becomes(c, y)
    BY <2>1, <2>2, KVPutDoes
  <2>4. Fits(feed, y) /\ y.op = "put"
    <3>1. k \in Words
      BY KVAssumption
    <3>2. \A l \in Leaves(feed, k) : l[1] # k
      BY <2>1 DEF KVPut
    <3>3. Fits(feed, NewCall("put", k, v, k))
      BY <1>1, <3>1, <3>2, NewCallFits DEF WriterOps
    <3> QED
      BY <2>2, <3>3 DEF NewCall
  <2> QED
    BY <1>1, <2>3, <2>4 DEF WriterOps
<1>5. CASE putRead(c)
  BY <1>1, <1>5, putReadFits
<1>6. CASE deleteRead(c)
  BY <1>1, <1>6, deleteReadFits
<1>7. CASE \E ok \in BOOLEAN : store(c, ok)
  BY <1>7, storeFits
<1>8. CASE \E ok \in BOOLEAN : storeKVTables(c, ok)
  <2>1. feed' = feed /\ Becomes(c, Idle)
    BY <1>8, EndDoes, ClientsAre DEF storeKVTables
  <2> QED
    BY <1>1, <2>1, IdleFits, IdleTyped DEF WriterOps
<1> QED
  BY <1>2, <1>3, <1>4, <1>5, <1>6, <1>7, <1>8 DEF Writes

LEMMA DropKeeps ==
    ASSUME Sound, NEW c \in Writers, DeleteKVTable(c)
    PROVE  /\ Whole(feed') /\ ContentOf(feed') = [k \in Keys |-> None]
           /\ \E y : Becomes(c, y) /\ Fits(feed', y) /\ y.op \in WriterOps
<1>1. PICK y : y = NewCall("drop", <<>>, None, <<>>)
  OBVIOUS
<1>2. IsTrie(feed') /\ Stored(feed, feed', <<>>, Absent) /\ Becomes(c, y)
  BY <1>1, DropDoes
<1>3. PICK g : g = feed'
  OBVIOUS
<1>4. IsTrie(g) /\ g[<<>>] = Absent
  BY <1>2, <1>3 DEF Stored
<1>5. Whole(g) /\ ContentOf(g) = [k \in Keys |-> None]
  BY <1>4, RootErased
<1>6. Fits(g, y) /\ y.op = "drop"
  <2>1. Fits(g, NewCall("drop", <<>>, None, <<>>))
    BY <1>4, EmptyWord, NewCallFits DEF WriterOps
  <2> QED
    BY <1>1, <2>1 DEF NewCall
<1> QED
  BY <1>2, <1>3, <1>5, <1>6 DEF WriterOps

LEMMA ReadsDo ==
    ASSUME Sound, NEW r \in Readers, Reads(r)
    PROVE  feed' = feed /\ \E x : Becomes(r, x)
<1>1. ASSUME NEW k \in Keys, KVGet(r, k)
      PROVE  feed' = feed /\ \E x : Becomes(r, x)
  BY <1>1, KVGetDoes
<1>2. ASSUME NEW s \in Starts, KVSeek(r, s)
      PROVE  feed' = feed /\ \E x : Becomes(r, x)
  BY <1>2, KVSeekDoes
<1>3. seekRead(r) => feed' = feed /\ \E x : Becomes(r, x)
  BY seekReadDoes
<1>4. KVGetNext(r) \/ nextRead(r) => feed' = feed /\ \E x : Becomes(r, x)
  BY NextEntryDoes DEF KVGetNext, nextRead
<1>5. getRead(r) => feed' = feed /\ \E x : Becomes(r, x)
  BY getReadDoes DEF Becomes
<1> QED
  BY <1>1, <1>2, <1>3, <1>4, <1>5 DEF Reads

LEMMA KeptInit == Init => Kept
<1> SUFFICES ASSUME Init PROVE Kept
  OBVIOUS
<1>1. IsTrie(feed)
  BY SoundInit DEF Sound
<1>2. feed[<<>>] = Absent
  BY PathsAre DEF Init
<1>3. Whole(feed) /\ ContentOf(feed) = [k \in Keys |-> None]
  BY <1>1, <1>2, RootErased
<1>4. \A c \in Writers : call[c] = Idle
  BY ClientsAre DEF Init
<1> QED
  BY <1>3, <1>4, IdleFits DEF Init, Kept

LEMMA KeptStep ==
    ASSUME OneWriter, ~PutsBranchKeys, Sound, Kept, [Next]_vars
    PROVE  Kept'
<1>1. CASE UNCHANGED vars
  BY <1>1 DEF Kept, vars
<1>2. CASE Next
  <2>1. ASSUME Whole(feed'), \A d \in Writers : Fits(feed', call'[d])
        PROVE  Kept'
    <3>1. content' = ContentOf(feed')
      BY <1>2, StepsAre DEF Remember, Kept
    <3> QED
      BY <2>1, <3>1 DEF Kept
  <2>2. ASSUME NEW c \in Writers, Whole(feed'), NEW y, Becomes(c, y), Fits(feed', y)
        PROVE  Kept'
    <3>1. \A d \in Writers : d = c
      BY DEF OneWriter
    <3>2. call'[c] = y
      BY <2>2, BecomesIs, ClientsAre
    <3> QED
      BY <2>1, <2>2, <3>1, <3>2
  <2>3. ASSUME NEW c \in Writers, Writes(c)
        PROVE  Kept'
    BY <2>2, <2>3, WritesKeep DEF Altered
  <2>4. ASSUME NEW c \in Writers, DeleteKVTable(c)
        PROVE  Kept'
    BY <2>2, <2>4, DropKeeps
  <2>5. ASSUME NEW r \in Readers, Reads(r)
        PROVE  Kept'
    <3>1. PICK x : feed' = feed /\ Becomes(r, x)
      BY <2>5, ReadsDo
    <3>2. \A d \in Writers : call'[d] = call[d]
      BY <3>1, BecomesIs, ClientsAre
    <3> QED
      BY <2>1, <3>1, <3>2 DEF Kept
  <2>6. OpenKVTable => Kept'
    BY <2>1 DEF OpenKVTable, Kept
  <2>7. Crash => Kept'
    BY <2>1, CrashDoes, ClientsAre, IdleFits DEF Kept
  <2> QED
    BY <1>2, <2>3, <2>4, <2>5, <2>6, <2>7, StepsAre
<1> QED
  BY <1>1, <1>2

LEMMA WholeMeansWellFormed ==
    ASSUME Whole(feed)
    PROVE  TrieWellFormed
<1>1. SUFFICES ASSUME NEW p \in Paths, Walked(feed, p), feed[p] # Absent,
                      NEW i \in DOMAIN feed[p]
               PROVE  /\ feed[p][i].kind = "branch" => feed[p \o feed[p][i].name] # Absent
                      /\ i > 1 => Letter(feed[p][i - 1]) < Letter(feed[p][i])
  BY DEF TrieWellFormed, Live
<1>2. IsTrie(feed)
  BY DEF Whole
<1>3. feed[p] \in Manifests /\ Sorted(feed[p])
  BY <1>1, <1>2, ManifestThere DEF Whole
<1>4. i \in 1..Len(feed[p]) /\ Len(feed[p]) \in Nat
  BY <1>1, <1>3, ManifestIs
<1>5. ASSUME feed[p][i].kind = "branch"
      PROVE  feed[p \o feed[p][i].name] # Absent
  <2>1. feed[p][i].name \in Words /\ Contains(feed[p], Branch(feed[p][i].name))
    BY <1>1, <1>2, <1>4, <1>5, BranchToPath
  <2> QED
    BY <1>1, <2>1 DEF Whole
<1>6. i > 1 => Letter(feed[p][i - 1]) < Letter(feed[p][i])
  <2>1. i > 1 => i - 1 \in 1..Len(feed[p]) /\ i - 1 < i
    BY <1>4
  <2> QED
    BY <1>3, <1>4, <2>1 DEF Sorted
<1> QED
  BY <1>5, <1>6

\* While one writer stores manifests one at a time, whose calls stop anywhere,
\* and keys that got a branch of their own are not put again: in every state the
\* branches lead to manifests, and the manifests they lead to are sorted: what
\* addOrUpdateStringEntry and Delete (pkg/collection/index_api.go) keep.
THEOREM KVWellFormed ==
    ASSUME OneWriter, ~PutsBranchKeys
    PROVE  Spec => []TrieWellFormed
<1>1. Init => Typed /\ Kept
  BY TypedInit, KeptInit
<1>2. Typed /\ Kept /\ [Next]_vars => (Typed /\ Kept)'
  BY TypedStep, KeptStep DEF Typed
<1>3. Kept => TrieWellFormed
  BY WholeMeansWellFormed DEF Kept
<1> QED
  BY <1>1, <1>2, <1>3, PTL DEF Spec

-----------------------------------------------------------------------------
\* The list of tables and the root manifest.

\* A call of the only writer that creates or drops has changed the root, and
\* one that has read a manifest has come by it.
ListFits(f, x) ==
    /\ x.op = "create" => f[<<>>] # Absent
    /\ x.op = "drop" => f[<<>>] = Absent
    /\ x.todo # <<>> => x.op \in {"put", "delete"}
    /\ x.path # <<>> \/ x.todo # <<>> => f[<<>>] # Absent

Listing ==
    /\ OpenTableIsThere
    /\ \A c \in Writers : ListFits(feed, call[c])

LEMMA IdleListFits == \A f : ListFits(f, Idle)
  BY DEF ListFits, Idle

LEMMA ListingAfter ==
    ASSUME OneWriter, Sound, NEW c \in Writers, NEW y, Becomes(c, y), ListFits(feed', y),
           open' => listed' /\ feed'[<<>>] # Absent
    PROVE  Listing'
<1>1. \A d \in Writers : d = c
  BY DEF OneWriter
<1>2. call'[c] = y
  BY BecomesIs, ClientsAre
<1> QED
  BY <1>1, <1>2 DEF Listing, OpenTableIsThere

LEMMA ListingSame ==
    ASSUME Listing, feed' = feed, listed' = listed, open' = open,
           \A c \in Writers : call'[c] = call[c]
    PROVE  Listing'
  BY DEF Listing, OpenTableIsThere

LEMMA ReadListing ==
    ASSUME OneWriter, Sound, Listing, NEW c \in Writers, putRead(c) \/ deleteRead(c)
    PROVE  Listing'
<1>1. PICK x : x = call[c]
  OBVIOUS
<1>2. PICK es : es = feed[x.path]
  OBVIOUS
<1>3. /\ feed' = feed /\ listed' = listed /\ open' = open
      /\ x \in Calls /\ x.op \in {"put", "delete"}
      /\ \/ Becomes(c, Idle)
         \/ \E n : es # Absent /\ Becomes(c, Moved(x, n))
         \/ \E t : es # Absent /\ Becomes(c, [x EXCEPT !.todo = t])
  <2>1. CASE putRead(c)
    BY <1>1, <1>2, <2>1, putReadDoes DEF Becomes, putRead, Unchanged
  <2>2. CASE deleteRead(c)
    BY <1>1, <1>2, <2>2, deleteReadDoes DEF Becomes, deleteRead, Unchanged
  <2> QED
    BY <2>1, <2>2
<1>4. (open' => listed' /\ feed'[<<>>] # Absent) /\ ListFits(feed, x)
  BY <1>1, <1>3 DEF Listing, OpenTableIsThere
<1>5. es # Absent => feed[<<>>] # Absent
  <2>1. x.path # <<>> => feed[<<>>] # Absent
    BY <1>4 DEF ListFits
  <2> QED
    BY <1>2, <2>1
<1>6. CASE Becomes(c, Idle)
  BY <1>3, <1>4, <1>6, IdleListFits, IdleTyped, ListingAfter
<1>7. ASSUME NEW n, es # Absent, Becomes(c, Moved(x, n))
      PROVE  Listing'
  <2>1. PICK y : y = Moved(x, n)
    OBVIOUS
  <2>2. y.op = x.op /\ y.todo = x.todo
    BY <1>3, <2>1, MovedIs
  <2>3. ListFits(feed, y)
    BY <1>3, <1>4, <1>5, <1>7, <2>2 DEF ListFits
  <2> QED
    BY <1>3, <1>4, <1>7, <2>1, <2>3, ListingAfter
<1>8. ASSUME NEW t, es # Absent, Becomes(c, [x EXCEPT !.todo = t])
      PROVE  Listing'
  <2>1. PICK y : y = [x EXCEPT !.todo = t]
    OBVIOUS
  <2>2. y.op = x.op /\ y.path = x.path
    BY <1>3, <2>1 DEF Calls
  <2>3. ListFits(feed, y)
    BY <1>3, <1>4, <1>5, <1>8, <2>2 DEF ListFits
  <2> QED
    BY <1>3, <1>4, <1>8, <2>1, <2>3, ListingAfter
<1> QED
  BY <1>3, <1>6, <1>7, <1>8

LEMMA StoreListing ==
    ASSUME OneWriter, Sound, Listing, NEW c \in Writers, NEW ok \in BOOLEAN, store(c, ok)
    PROVE  Listing'
<1>1. PICK x : x = call[c]
  OBVIOUS
<1>2. PICK w \in Stores : w = Head(x.todo)
  BY <1>1, storeDoes
<1>3. /\ x \in Calls /\ x.todo # <<>> /\ listed' = listed /\ open' = open
      /\ Stored(feed, feed', w.path, w.entries) \/ feed' = feed
      /\ \/ Becomes(c, Idle)
         \/ Becomes(c, [x EXCEPT !.todo = Tail(x.todo)])
  BY <1>1, <1>2, storeDoes DEF Becomes, store
<1>4. x.op \in {"put", "delete"} /\ feed[<<>>] # Absent
  BY <1>1, <1>3 DEF Listing, ListFits
<1>5. open' => listed'
  BY <1>3 DEF Listing, OpenTableIsThere
<1>6. feed'[<<>>] # Absent
  <2>1. w.entries \in Manifests /\ <<>> \in Paths
    BY PathsAre DEF Stores
  <2>2. w.entries # Absent
    BY <2>1, ManifestNotAbsent
  <2> QED
    BY <1>3, <1>4, <2>1, <2>2 DEF Stored
<1>7. CASE Becomes(c, Idle)
  BY <1>3, <1>5, <1>6, <1>7, IdleListFits, ListingAfter
<1>8. CASE Becomes(c, [x EXCEPT !.todo = Tail(x.todo)])
  <2>1. PICK y : y = [x EXCEPT !.todo = Tail(x.todo)]
    OBVIOUS
  <2>2. y.op = x.op
    BY <1>3, <2>1 DEF Calls
  <2>3. ListFits(feed', y)
    BY <1>4, <1>6, <2>2 DEF ListFits
  <2> QED
    BY <1>3, <1>5, <1>6, <1>8, <2>1, <2>3, ListingAfter
<1> QED
  BY <1>3, <1>7, <1>8

LEMMA NewListFits ==
    ASSUME NEW f, NEW op, NEW k, NEW v, NEW y, y = NewCall(op, k, v, k),
           op = "create" => f[<<>>] # Absent, op = "drop" => f[<<>>] = Absent
    PROVE  ListFits(f, y) /\ y.op = op
  BY DEF ListFits, NewCall

LEMMA WritesListing ==
    ASSUME OneWriter, Sound, Listing, NEW c \in Writers,
           Writes(c) \/ DeleteKVTable(c)
    PROVE  Listing'
<1>0. open => listed /\ feed[<<>>] # Absent
  BY DEF Listing, OpenTableIsThere
<1>1. CASE CreateKVTable(c)
  <2>1. PICK y : y = NewCall("create", <<>>, None, <<>>)
    OBVIOUS
  <2>2. Becomes(c, y) /\ feed'[<<>>] = <<>>
    BY <1>1, <2>1, CreateDoes DEF Stored
  <2>3. feed'[<<>>] # Absent
    BY <2>2, EmptyManifest, ManifestNotAbsent
  <2>4. ListFits(feed', y) /\ y.op = "create"
    BY <2>1, <2>3, NewListFits DEF ListFits, NewCall
  <2>5. open' = open /\ listed' = listed
    BY <1>1 DEF CreateKVTable
  <2> QED
    BY <1>0, <2>2, <2>3, <2>4, <2>5, ListingAfter
<1>2. CASE DeleteKVTable(c)
  <2>1. PICK y : y = NewCall("drop", <<>>, None, <<>>)
    OBVIOUS
  <2>2. Becomes(c, y) /\ feed'[<<>>] = Absent
    BY <1>2, <2>1, DropDoes DEF Stored
  <2>3. ListFits(feed', y) /\ y.op = "drop"
    BY <2>1, <2>2, NewListFits
  <2>4. open' = FALSE
    BY <1>2 DEF DeleteKVTable
  <2> QED
    BY <2>2, <2>3, <2>4, ListingAfter
<1>3. CASE \E k \in Keys : KVDelete(c, k)
  <2>1. PICK k \in Keys : KVDelete(c, k)
    BY <1>3
  <2>2. PICK y : y = NewCall("delete", k, None, k)
    OBVIOUS
  <2>3. feed' = feed /\ listed' = listed /\ open' = open /\ Becomes(c, y)
    BY <2>1, <2>2, KVDeleteDoes DEF KVDelete
  <2>4. ListFits(feed, y) /\ y.op = "delete"
    BY <2>2, NewListFits
  <2> QED
    BY <1>0, <2>3, <2>4, ListingAfter
<1>4. CASE \E k \in Keys : \E v \in Values : KVPut(c, k, v)
  <2>1. PICK k \in Keys, v \in Values : KVPut(c, k, v)
    BY <1>4
  <2>2. PICK y : y = NewCall("put", k, v, k)
    OBVIOUS
  <2>3. feed' = feed /\ listed' = listed /\ open' = open /\ Becomes(c, y)
    BY <2>1, <2>2, KVPutDoes DEF KVPut
  <2>4. ListFits(feed, y) /\ y.op = "put"
    BY <2>2, NewListFits
  <2> QED
    BY <1>0, <2>3, <2>4, ListingAfter
<1>5. CASE \E ok \in BOOLEAN : storeKVTables(c, ok)
  <2>1. /\ call[c].op \in {"create", "drop"} /\ feed' = feed /\ open' = open
        /\ call[c].op = "create" => listed' = listed \/ listed' = TRUE
    <3>1. PICK ok \in BOOLEAN : storeKVTables(c, ok)
      BY <1>5
    <3>2. /\ call[c].op \in {"create", "drop"} /\ feed' = feed /\ open' = open
          /\ listed' = IF ok THEN call[c].op = "create" ELSE listed
      BY <3>1 DEF storeKVTables
    <3>3. call[c].op = "create" => (call[c].op = "create") = TRUE
      OBVIOUS
    <3> QED
      BY <3>2, <3>3
  <2>2. Becomes(c, Idle)
    BY <1>5, EndDoes, ClientsAre DEF storeKVTables
  <2>3. open' => listed' /\ feed'[<<>>] # Absent
    <3>1. call[c].op = "drop" => ~open
      BY <1>0 DEF Listing, ListFits
    <3>2. CASE call[c].op = "create"
      <4>1. open' => open
        BY <2>1
      <4>2. listed => listed'
        BY <2>1, <3>2
      <4>3. feed'[<<>>] = feed[<<>>]
        BY <2>1
      <4> QED
        BY <1>0, <4>1, <4>2, <4>3
    <3>3. CASE call[c].op = "drop"
      BY <2>1, <3>1, <3>3
    <3> QED
      BY <2>1, <3>2, <3>3
  <2> QED
    BY <2>1, <2>2, <2>3, IdleListFits, ListingAfter
<1> QED
  BY <1>1, <1>2, <1>3, <1>4, <1>5, ReadListing, StoreListing DEF Writes

LEMMA ListingInit == Init => Listing
<1> SUFFICES ASSUME Init PROVE Listing
  OBVIOUS
<1>1. ~open /\ \A c \in Writers : call[c] = Idle
  BY ClientsAre DEF Init
<1> QED
  BY <1>1, IdleListFits DEF Listing, OpenTableIsThere

LEMMA ListingStep ==
    ASSUME OneWriter, Sound, Listing, [Next]_vars
    PROVE  Listing'
<1>1. CASE UNCHANGED vars
  BY <1>1, ListingSame DEF vars
<1>2. ASSUME NEW r \in Readers, Reads(r)
      PROVE  Listing'
  <2>1. PICK x : feed' = feed /\ Becomes(r, x)
    BY <1>2, ReadsDo
  <2>2. \A c \in Writers : call'[c] = call[c]
    BY <2>1, BecomesIs, ClientsAre
  <2>3. listed' = listed /\ open' = open
    BY <1>2 DEF Reads, KVGet, KVSeek, seekRead, KVGetNext, nextRead, NextEntry, getRead
  <2> QED
    BY <2>1, <2>2, <2>3, ListingSame
<1>3. OpenKVTable => Listing'
  BY DEF OpenKVTable, Listing, OpenTableIsThere
<1>4. ASSUME Crash
      PROVE  Listing'
  <2>1. open' = FALSE /\ \A c \in Writers : call'[c] = Idle
    BY <1>4, CrashDoes, ClientsAre DEF Crash
  <2> QED
    BY <2>1, IdleListFits DEF Listing, OpenTableIsThere
<1> QED
  BY <1>1, <1>2, <1>3, <1>4, WritesListing, StepsAre

\* While one client puts and deletes, whose calls stop or fail anywhere, between
\* the index and the list of tables too, a table that openKVTables holds is in
\* the list and has a root, so that no put brings half a table back to life
\* (CreateKVTable, DeleteKVTable, storeKVTables and OpenKVTable,
\* pkg/collection/kv.go).
THEOREM OpenTablesAreThere ==
    ASSUME OneWriter
    PROVE  Spec => []OpenTableIsThere
<1>1. Init => Typed /\ Listing
  BY TypedInit, ListingInit
<1>2. Typed /\ Listing /\ [Next]_vars => (Typed /\ Listing)'
  BY TypedStep, ListingStep DEF Typed
<1>3. Listing => OpenTableIsThere
  BY DEF Listing
<1> QED
  BY <1>1, <1>2, <1>3, PTL DEF Spec

-----------------------------------------------------------------------------
\* The reads of a get.

\* Where branches lead there is a manifest, but for the root of a table that is gone.
LEMMA NoManifest ==
    ASSUME NEW f, Whole(f), NEW p \in Paths, Walked(f, p), f[p] = Absent
    PROVE  f[<<>>] = Absent
<1>1. SUFFICES ASSUME p # <<>> PROVE FALSE
  OBVIOUS
<1>2. IsTrie(f)
  BY DEF Whole
<1>3. PICK q \in Paths : Walked(f, q) /\ Precedes(f, q, p)
  BY <1>1, <1>2, WalkedBack
<1>4. PICK n \in Words : f[q] # Absent /\ q \o n = p /\ Contains(f[q], Branch(n))
  BY <1>2, <1>3, PrecedesIs
<1>5. f[q \o n] # Absent
  BY <1>3, <1>4 DEF Whole
<1> QED
  BY <1>4, <1>5

\* A get that finds nothing.
LEMMA GetMisses ==
    ASSUME NEW f, Whole(f), NEW x \in Calls, x.key \in Keys, OnTheWay(f, x),
           f[x.path] = Absent \/ Find(f[x.path], x.rest) = 0
    PROVE  ContentOf(f)[x.key] = None
<1>1. PICK p \in Paths : p = x.path
  BY WayIs
<1>2. PICK k \in Keys : k = x.key
  OBVIOUS
<1>3. PICK a \in Words : a = x.rest
  BY WayIs
<1>4. /\ Walked(f, p) /\ IsPrefix(p, k) /\ a = After(k, p) /\ IsTrie(f)
      /\ k \in Words /\ p \in Words /\ k \in Paths
  BY <1>1, <1>2, <1>3, WayIs, PathsAre DEF OnTheWay
<1>5. CASE f[p] = Absent
  <2>1. f[<<>>] = Absent
    BY <1>4, <1>5, NoManifest
  <2>2. ContentOf(f) = [j \in Keys |-> None]
    BY <1>4, <2>1, RootErased
  <2> QED
    BY <1>2, <2>2
<1>6. CASE f[p] # Absent /\ Find(f[p], a) = 0
  <2>1. PICK es \in Manifests : es = f[p] /\ Sorted(es) /\ Spells(p, es)
    BY <1>4, <1>6, ManifestThere DEF Whole
  <2>2. ASSUME NEW j \in 1..Len(es), es[j].kind = "branch"
        PROVE  es[j].name # <<>>
    <3>1. es[j] \in Entry /\ Contains(es, es[j])
      BY ManifestIs DEF Contains
    <3> QED
      BY <2>1, <2>2, <3>1 DEF Spells, IsEntry
  <2>3. \A j \in 1..Len(es) : ~IsKey(es[j], a) /\ ~Leads(es[j], a)
    <3>1. PICK i : i = Find(es, a)
      OBVIOUS
    <3>2. i = 0
      BY <1>6, <2>1, <3>1
    <3> QED
      BY <2>1, <2>2, <3>1, <3>2, FindIs
  <2>4. ASSUME NEW v \in Values, HasLeaf(f, k, v)
        PROVE  FALSE
    <3>1. PICK q \in Paths : /\ IsPrefix(q, k) /\ Walked(f, q) /\ f[q] # Absent
                             /\ Contains(f[q], Leaf(After(k, q), v))
      BY <2>4 DEF HasLeaf
    <3>2. q \in Words /\ Len(p) \in Nat /\ Len(q) \in Nat
      BY <1>4, PathsAre, WordIs
    <3>3. CASE q = p
      <4>1. IsKey(Leaf(a, v), a)
        BY <1>3, MadeEntries DEF IsKey
      <4>2. Contains(es, Leaf(a, v))
        BY <1>4, <2>1, <3>1, <3>3
      <4>3. PICK j \in 1..Len(es) : es[j] = Leaf(a, v)
        BY <2>1, <4>2, ManifestIs DEF Contains
      <4> QED
        BY <2>3, <4>1, <4>3
    <3>4. CASE q # p /\ Len(p) <= Len(q)
      <4>1. IsPrefix(p, q)
        BY <1>4, <3>1, <3>2, <3>4, PrefixesOfOne
      <4>2. PICK n \in Words : Contains(f[p], Branch(n)) /\ IsPrefix(p \o n, q)
        BY <1>4, <3>1, <3>4, <4>1, BranchOnTheWay
      <4>3. p \o n \in Words
        BY <1>4, ConcatIs
      <4>4. IsPrefix(p \o n, k)
        BY <1>4, <3>1, <3>2, <4>2, <4>3, PrefixOfPrefix
      <4>5. IsPrefix(n, a)
        BY <1>4, <4>4, AfterKeepsPrefix
      <4>6. PICK j \in 1..Len(es) : es[j] = Branch(n)
        BY <2>1, <4>2, ManifestIs DEF Contains
      <4>7. Leads(es[j], a)
        BY <4>5, <4>6, MadeEntries DEF Leads
      <4> QED
        BY <2>3, <4>7
    <3>5. CASE q # p /\ ~(Len(p) <= Len(q))
      <4>1. Len(q) <= Len(p)
        BY <3>2, <3>5
      <4>2. IsPrefix(q, p)
        BY <1>4, <3>1, <3>2, <4>1, PrefixesOfOne
      <4>3. After(k, q) \in Words
        BY <1>4, <3>2, AfterIs
      <4>4. PICK e \in Entry : e = Leaf(After(k, q), v) /\ IsKey(e, After(k, q))
        BY <4>3, MadeEntries DEF IsKey
      <4>5. Contains(f[q], e)
        BY <3>1, <4>4
      <4>6. q = p
        BY <1>4, <3>1, <4>2, <4>4, <4>5, NothingBelow
      <4> QED
        BY <3>5, <4>6
    <3> QED
      BY <3>3, <3>4, <3>5
  <2>5. /\ ContentOf(f)[k] \in Values \cup {None}
        /\ \A v \in Values : ContentOf(f)[k] = v <=> HasLeaf(f, k, v)
    BY ContentIs
  <2> QED
    BY <1>2, <2>4, <2>5
<1> QED
  BY <1>1, <1>3, <1>5, <1>6

\* A get that finds the key's leaf.
LEMMA GetFinds ==
    ASSUME NEW f, Whole(f), NEW x \in Calls, x.key \in Keys, OnTheWay(f, x),
           f[x.path] # Absent, NEW i \in 1..Len(f[x.path]), IsKey(f[x.path][i], x.rest)
    PROVE  ContentOf(f)[x.key] = f[x.path][i].value
<1>1. PICK p \in Paths : p = x.path
  BY WayIs
<1>2. PICK k \in Keys : k = x.key
  OBVIOUS
<1>3. Walked(f, p) /\ IsPrefix(p, k) /\ x.rest = After(k, p) /\ IsTrie(f)
  BY <1>1, <1>2, WayIs DEF OnTheWay
<1>4. IsLeafAt(f, k, p, i)
  BY <1>1, <1>3 DEF IsLeafAt
<1>5. PICK v \in Values : v = f[p][i].value /\ f[p][i] = Leaf(After(k, p), v) /\ Contains(f[p], f[p][i])
  BY <1>3, <1>4, LeafValue
<1>6. HasLeaf(f, k, v)
  BY <1>1, <1>3, <1>5 DEF HasLeaf
<1>7. ContentOf(f)[k] = v
  BY <1>6, ContentIs
<1> QED
  BY <1>1, <1>2, <1>5, <1>7

Gets(r) == call[r].op = "get"

\* A get is on the way to its key, and one of the values that the key had since
\* it began is the one it has now.
Reading ==
    \A r \in Readers :
        /\ Gets(r) => OnTheWay(feed, call[r]) /\ content[call[r].key] \in may[r]
        /\ ~Gets(r) => may[r] = {}

LEMMA MayIs ==
    ASSUME Remember
    PROVE  \A r \in Readers :
               may'[r] = IF ~Gets(r)' THEN {}
                         ELSE (IF Gets(r) THEN may[r] ELSE {}) \cup {content'[call'[r].key]}
  BY DEF Remember, Gets

LEMMA ReadingAfter ==
    ASSUME Remember, \A r \in Readers : Gets(r)' => OnTheWay(feed', call'[r])
    PROVE  Reading'
  BY MayIs DEF Reading, Gets

LEMMA OnTheWayStays ==
    ASSUME NEW f, NEW g, NEW x \in Calls, OnTheWay(f, x),
           \A q \in Paths : Walked(f, q) => Walked(g, q)
    PROVE  OnTheWay(g, x)
  BY DEF OnTheWay, Calls

\* What a step does to the gets that it is not a step of.
LEMMA OtherGets ==
    ASSUME Sound, Reading, NEW r \in Readers, Gets(r), call'[r] = call[r],
           \A q \in Paths : Walked(feed, q) => Walked(feed', q)
    PROVE  OnTheWay(feed', call'[r])
<1>1. call[r] \in Calls /\ OnTheWay(feed, call[r])
  BY ClientsAre DEF Sound, CallsTyped, Reading
<1> QED
  BY <1>1, OnTheWayStays

\* A read of a get, in terms of the map.
LEMMA getReadFinds ==
    ASSUME Sound, Kept, Reading, NEW r \in Readers, getRead(r)
    PROVE  /\ Gets(r) /\ feed' = feed /\ call[r].key \in Keys
           /\ \/ /\ Becomes(r, Idle)
                 /\ answer' = [key |-> call[r].key, value |-> content[call[r].key]]
              \/ /\ \E y : /\ Becomes(r, y) /\ OnTheWay(feed, y)
                           /\ y.op = "get" /\ y.key = call[r].key
                 /\ answer' = NoAnswer
<1>1. PICK x \in Calls : x = call[r] /\ x.op = "get" /\ x.key \in Keys
  BY getReadDoes
<1>2. PICK es : es = feed[x.path]
  OBVIOUS
<1>3. PICK i : i = IF es = Absent THEN 0 ELSE Find(es, x.rest)
  OBVIOUS
<1>4. /\ feed' = feed
      /\ \/ i = 0 /\ Becomes(r, Idle) /\ answer' = [key |-> x.key, value |-> None]
         \/ /\ es # Absent /\ i \in 1..Len(es) /\ IsKey(es[i], x.rest) /\ Becomes(r, Idle)
            /\ answer' = [key |-> x.key, value |-> es[i].value]
         \/ /\ es # Absent /\ i \in 1..Len(es) /\ Leads(es[i], x.rest)
            /\ Becomes(r, Moved(x, es[i].name)) /\ answer' = NoAnswer
  BY <1>1, <1>2, <1>3, getReadDoes DEF Becomes
<1>5. OnTheWay(feed, x) /\ Whole(feed) /\ content = ContentOf(feed)
  BY <1>1 DEF Reading, Gets, Kept
<1>6. CASE i = 0 /\ Becomes(r, Idle) /\ answer' = [key |-> x.key, value |-> None]
  <2>1. feed[x.path] = Absent \/ Find(feed[x.path], x.rest) = 0
    BY <1>2, <1>3, <1>6
  <2>2. ContentOf(feed)[x.key] = None
    BY <1>1, <1>5, <2>1, GetMisses
  <2> QED
    BY <1>1, <1>4, <1>5, <1>6, <2>2 DEF Gets
<1>7. CASE /\ es # Absent /\ i \in 1..Len(es) /\ IsKey(es[i], x.rest) /\ Becomes(r, Idle)
           /\ answer' = [key |-> x.key, value |-> es[i].value]
  <2>1. ContentOf(feed)[x.key] = es[i].value
    BY <1>1, <1>2, <1>5, <1>7, GetFinds
  <2> QED
    BY <1>1, <1>4, <1>5, <1>7, <2>1 DEF Gets
<1>8. CASE /\ es # Absent /\ i \in 1..Len(es) /\ Leads(es[i], x.rest)
           /\ Becomes(r, Moved(x, es[i].name)) /\ answer' = NoAnswer
  <2>1. PICK y : y = Moved(x, es[i].name)
    OBVIOUS
  <2>2. x.key \in Words /\ IsTrie(feed)
    BY <1>1, PathsAre DEF Sound
  <2>3. OnTheWay(feed, y)
    BY <1>2, <1>5, <1>8, <2>1, <2>2, MovedOnTheWay
  <2>4. y.op = "get" /\ y.key = x.key
    BY <1>1, <2>1, MovedIs
  <2> QED
    BY <1>1, <1>4, <1>8, <2>1, <2>3, <2>4 DEF Gets
<1> QED
  BY <1>4, <1>6, <1>7, <1>8

LEMMA KVGetOnTheWay ==
    ASSUME Sound, NEW r \in Readers, NEW k \in Keys, KVGet(r, k)
    PROVE  /\ feed' = feed /\ call[r] = Idle
           /\ \E y : Becomes(r, y) /\ OnTheWay(feed, y) /\ y.op = "get" /\ y.key = k
<1>1. PICK y : y = NewCall("get", k, None, k)
  OBVIOUS
<1>2. feed' = feed /\ Becomes(r, y) /\ call[r] = Idle
  BY <1>1, KVGetDoes DEF KVGet, Begin
<1>3. y.op = "get" /\ y.key = k /\ y.path = <<>> /\ y.rest = k
  BY <1>1 DEF NewCall
<1>4. k \in Words /\ IsPrefix(<<>>, k)
  BY KVAssumption, EmptyWord, PrefixIs
<1>5. k = After(k, <<>>)
  <2>1. <<>> \o After(k, <<>>) = k
    BY <1>4, EmptyWord, PrefixAndAfter
  <2>2. After(k, <<>>) \in Words
    BY <1>4, EmptyWord, AfterIs
  <2> QED
    BY <2>1, <2>2, ConcatEmptySeq DEF Words
<1>6. OnTheWay(feed, y)
  BY <1>3, <1>4, <1>5, WalkedRoot DEF OnTheWay
<1> QED
  BY <1>2, <1>3, <1>6

\* The reads that are no gets.
LEMMA OtherReads ==
    ASSUME Sound, NEW r \in Readers,
           \/ \E s \in Starts : KVSeek(r, s)
           \/ seekRead(r) \/ KVGetNext(r) \/ nextRead(r)
    PROVE  feed' = feed /\ ~Gets(r) /\ \E y : Becomes(r, y) /\ y.op # "get"
<1>1. ASSUME NEW s \in Starts, KVSeek(r, s)
      PROVE  feed' = feed /\ ~Gets(r) /\ \E y : Becomes(r, y) /\ y.op # "get"
  <2>1. PICK y : y = NewCall("seek", s, None, s)
    OBVIOUS
  <2>2. feed' = feed /\ Becomes(r, y)
    BY <1>1, <2>1, KVSeekDoes
  <2>3. call[r] = Idle /\ y.op = "seek"
    BY <1>1, <2>1 DEF KVSeek, Begin, NewCall
  <2> QED
    BY <2>2, <2>3, IdleTyped DEF Gets
<1>2. ASSUME seekRead(r)
      PROVE  feed' = feed /\ ~Gets(r) /\ \E y : Becomes(r, y) /\ y.op # "get"
  BY <1>2, seekReadDoes DEF Gets
<1>3. ASSUME KVGetNext(r)
      PROVE  feed' = feed /\ ~Gets(r) /\ \E y : Becomes(r, y) /\ y.op # "get"
  BY <1>3, NextEntryDoes, IdleTyped DEF KVGetNext, Gets
<1>4. ASSUME nextRead(r)
      PROVE  feed' = feed /\ ~Gets(r) /\ \E y : Becomes(r, y) /\ y.op # "get"
  BY <1>4, NextEntryDoes DEF nextRead, Gets
<1> QED
  BY <1>1, <1>2, <1>3, <1>4

LEMMA ReadingInit == Init => Reading
<1> SUFFICES ASSUME Init PROVE Reading
  OBVIOUS
<1>1. \A r \in Readers : call[r] = Idle /\ may[r] = {}
  BY ClientsAre DEF Init
<1> QED
  BY <1>1, IdleTyped DEF Reading, Gets

LEMMA ReadingStep ==
    ASSUME OneWriter, ~PutsBranchKeys, ~DropsUnderReads, Sound, Kept, Reading, [Next]_vars
    PROVE  Reading'
<1>1. CASE UNCHANGED vars
  BY <1>1 DEF Reading, Gets, vars
<1>2. CASE Next
  <2>1. Remember
    BY <1>2, StepsAre
  <2>2. SUFFICES ASSUME NEW r \in Readers, Gets(r)' PROVE OnTheWay(feed', call'[r])
    BY <2>1, ReadingAfter
  <2>3. ASSUME NEW c \in Writers, Writes(c)
        PROVE  OnTheWay(feed', call'[r])
    <3>1. PICK y : Altered(feed, feed') /\ Becomes(c, y)
      BY <2>3, WritesKeep
    <3>2. call'[r] = call[r]
      BY <3>1, BecomesIs, ClientsAre
    <3>3. Gets(r)
      BY <2>2, <3>2 DEF Gets
    <3> QED
      BY <3>1, <3>2, <3>3, OtherGets DEF Altered
  <2>4. ASSUME NEW c \in Writers, DeleteKVTable(c)
        PROVE  FALSE
    <3>1. PICK y : Becomes(c, y)
      BY <2>4, DropKeeps
    <3>2. call'[r] = call[r]
      BY <3>1, BecomesIs, ClientsAre
    <3>3. ~Gets(r)
      BY <2>4 DEF DeleteKVTable, Gets
    <3> QED
      BY <2>2, <3>2, <3>3 DEF Gets
  <2>5. ASSUME NEW s \in Readers, NEW y, feed' = feed, Becomes(s, y),
               y.op = "get" => OnTheWay(feed, y)
        PROVE  OnTheWay(feed', call'[r])
    <3>1. CASE s = r
      BY <2>2, <2>5, <3>1, BecomesIs, ClientsAre DEF Gets
    <3>2. CASE s # r
      <4>1. call'[r] = call[r]
        BY <2>5, <3>2, BecomesIs, ClientsAre
      <4>2. Gets(r)
        BY <2>2, <4>1 DEF Gets
      <4> QED
        BY <2>5, <4>1, <4>2, OtherGets
    <3> QED
      BY <3>1, <3>2
  <2>6. ASSUME NEW s \in Readers, Reads(s)
        PROVE  OnTheWay(feed', call'[r])
    <3>1. CASE \E k \in Keys : KVGet(s, k)
      BY <2>5, <3>1, KVGetOnTheWay
    <3>2. CASE getRead(s)
      BY <2>5, <3>2, getReadFinds, IdleTyped
    <3>3. CASE \/ \E t \in Starts : KVSeek(s, t)
               \/ seekRead(s) \/ KVGetNext(s) \/ nextRead(s)
      BY <2>5, <3>3, OtherReads
    <3> QED
      BY <2>6, <3>1, <3>2, <3>3 DEF Reads
  <2>7. ASSUME OpenKVTable
        PROVE  OnTheWay(feed', call'[r])
    BY <2>2, <2>7 DEF OpenKVTable, Reading, Gets
  <2>8. ASSUME Crash
        PROVE  FALSE
    BY <2>2, <2>8, CrashDoes, ClientsAre, IdleTyped DEF Gets
  <2> QED
    BY <1>2, <2>3, <2>4, <2>6, <2>7, <2>8, StepsAre
<1> QED
  BY <1>1, <1>2

-----------------------------------------------------------------------------
\* The steps of the map that the steps of the table are.

\* Which read r has, as the map sees it.
Asked(r) == [key |-> IF call[r].op = "get" THEN call[r].key ELSE None, may |-> may[r]]

NotAsked == [key |-> None, may |-> {}]

LEMMA AskedIs ==
    ASSUME Reading, NEW r \in Readers
    PROVE  /\ ~Gets(r) => Asked(r) = NotAsked
           /\ Gets(r) => Asked(r) # NotAsked /\ Asked(r).key = call[r].key /\ Asked(r).may = may[r]
<1>1. Gets(r) => may[r] # {}
  BY DEF Reading
<1> QED
  BY <1>1 DEF Asked, NotAsked, Reading, Gets

\* Reads that go on.
LEMMA AskedStays ==
    ASSUME Reading, Remember, content' = content, NEW r \in Readers,
           call'[r].op = "get" <=> call[r].op = "get",
           call[r].op = "get" => call'[r].key = call[r].key
    PROVE  Asked(r)' = Asked(r)
<1>1. may'[r] = IF ~Gets(r)' THEN {}
                ELSE (IF Gets(r) THEN may[r] ELSE {}) \cup {content'[call'[r].key]}
  BY MayIs
<1>2. may'[r] = may[r]
  BY <1>1 DEF Reading, Gets
<1> QED
  BY <1>2 DEF Asked

LEMMA AskedChanges ==
    ASSUME Reading, Remember, NEW r \in Readers, call'[r] = call[r]
    PROVE  Asked(r)' = IF Asked(r) = NotAsked THEN NotAsked
                       ELSE [Asked(r) EXCEPT !.may = @ \cup {content'[Asked(r).key]}]
<1>1. may'[r] = IF ~Gets(r)' THEN {}
                ELSE (IF Gets(r) THEN may[r] ELSE {}) \cup {content'[call'[r].key]}
  BY MayIs
<1>2. CASE Gets(r)
  <2>1. Asked(r) # NotAsked /\ Asked(r) = [key |-> call[r].key, may |-> may[r]]
    BY <1>2, AskedIs DEF Asked, Gets
  <2>2. Asked(r)' = [key |-> call[r].key, may |-> may[r] \cup {content'[call[r].key]}]
    BY <1>1, <1>2 DEF Asked, Gets
  <2> QED
    BY <2>1, <2>2
<1>3. CASE ~Gets(r)
  <2>1. Asked(r) = NotAsked
    BY <1>3, AskedIs
  <2>2. Asked(r)' = NotAsked
    BY <1>1, <1>3 DEF Asked, NotAsked, Gets
  <2> QED
    BY <2>1, <2>2
<1> QED
  BY <1>2, <1>3

LEMMA QuietMaps ==
    ASSUME answer' = NoAnswer, content' = content, \A r \in Readers : Asked(r)' = Asked(r)
    PROVE  Map!Quiet
<1>1. [r \in Readers |-> Asked(r)]' = [r \in Readers |-> Asked(r)]
  OBVIOUS
<1> QED
  BY <1>1 DEF Map!Quiet, Map!NoAnswer, NoAnswer, Asked

LEMMA AskedFollows ==
    ASSUME Reading, Remember, \A r \in Readers : call'[r] = call[r]
    PROVE  LET old == [r \in Readers |-> Asked(r)]
           IN  [r \in Readers |-> Asked(r)]'
                 = [r \in Readers |-> IF old[r] = NotAsked THEN NotAsked
                                      ELSE [old[r] EXCEPT !.may = @ \cup {content'[old[r].key]}]]
  BY AskedChanges

\* A step that only writers have a part in.
LEMMA PutMaps ==
    ASSUME Reading, Remember, answer' = NoAnswer, \A r \in Readers : call'[r] = call[r],
           NEW k, NEW v, content' = [content EXCEPT ![k] = v]
    PROVE  Map!Put(k, v)
  BY AskedFollows DEF Map!Put, Map!Change, Map!NoAnswer, Map!NoRead, NoAnswer, NotAsked, Asked

LEMMA DeleteMaps ==
    ASSUME Reading, Remember, answer' = NoAnswer, \A r \in Readers : call'[r] = call[r],
           NEW k, content' = [content EXCEPT ![k] = None]
    PROVE  Map!Delete(k)
  BY AskedFollows DEF Map!Delete, Map!Change, Map!NoAnswer, Map!NoRead, NoAnswer, NotAsked, Asked

LEMMA ClearMaps ==
    ASSUME Reading, Remember, answer' = NoAnswer, \A r \in Readers : call'[r] = call[r],
           content' = [k \in Keys |-> None]
    PROVE  Map!Clear
  BY AskedFollows DEF Map!Clear, Map!Change, Map!NoAnswer, Map!NoRead, NoAnswer, NotAsked, Asked

LEMMA AskMaps ==
    ASSUME Reading, Remember, answer' = NoAnswer, content' = content,
           NEW r \in Readers, NEW k, ~Gets(r), Gets(r)', call'[r].key = k,
           \A s \in Readers : s # r => call'[s] = call[s]
    PROVE  Map!Ask(r, k)
<1>1. Asked(r) = NotAsked
  BY AskedIs
<1>2. Asked(r)' = [key |-> k, may |-> {content[k]}]
  BY MayIs DEF Asked, Gets
<1>3. \A s \in Readers : s # r => Asked(s)' = Asked(s)
  BY AskedStays
<1> DEFINE old == [s \in Readers |-> Asked(s)]
<1>4. [s \in Readers |-> Asked(s)]' = [old EXCEPT ![r] = [key |-> k, may |-> {content[k]}]]
  BY <1>2, <1>3
<1>5. old[r] = NotAsked
  BY <1>1
<1> QED
  BY <1>4, <1>5 DEF Map!Ask, Map!NoAnswer, Map!NoRead, NoAnswer, NotAsked, Asked

LEMMA AnswerMaps ==
    ASSUME Reading, Remember, content' = content,
           NEW r \in Readers, Gets(r), ~Gets(r)',
           answer' = [key |-> call[r].key, value |-> content[call[r].key]],
           \A s \in Readers : s # r => call'[s] = call[s]
    PROVE  Map!Answer(r)
<1>1. Asked(r).key = call[r].key /\ Asked(r).may = may[r] /\ content[call[r].key] \in may[r]
  BY AskedIs DEF Reading
<1>2. Asked(r)' = NotAsked
  BY MayIs DEF Asked, Gets, NotAsked
<1>3. \A s \in Readers : s # r => Asked(s)' = Asked(s)
  BY AskedStays
<1> DEFINE old == [s \in Readers |-> Asked(s)]
<1>4. [s \in Readers |-> Asked(s)]' = [old EXCEPT ![r] = NotAsked]
  BY <1>2, <1>3
<1>5. \E v \in old[r].may : answer' = [key |-> old[r].key, value |-> v]
  BY <1>1
<1> QED
  BY <1>4, <1>5 DEF Map!Answer, Map!NoRead, NotAsked, Asked

LEMMA AbandonMaps ==
    ASSUME Remember, answer' = NoAnswer, content' = content, \A r \in Readers : ~Gets(r)'
    PROVE  Map!Abandon
<1>1. \A r \in Readers : Asked(r)' = NotAsked
  BY MayIs DEF Asked, Gets, NotAsked
<1>2. [r \in Readers |-> Asked(r)]' = [r \in Readers |-> NotAsked]
  BY <1>1
<1> QED
  BY <1>2 DEF Map!Abandon, Map!NoAnswer, Map!NoRead, NoAnswer, NotAsked, Asked

LEMMA MapInit == Init => Map!Init
<1> SUFFICES ASSUME Init PROVE Map!Init
  OBVIOUS
<1>1. \A r \in Readers : Asked(r) = NotAsked
  BY ReadingInit, AskedIs, ClientsAre, IdleTyped DEF Init, Gets
<1>2. [r \in Readers |-> Asked(r)] = [r \in Readers |-> NotAsked]
  BY <1>1
<1>3. content = [k \in Keys |-> None] /\ answer = NoAnswer
  BY DEF Init
<1> QED
  BY <1>2, <1>3 DEF Map!Init, Map!NoAnswer, Map!NoRead, NoAnswer, NotAsked, Asked

LEMMA MapWrites ==
    ASSUME ~PutsBranchKeys, Sound, Kept, Reading, Remember, answer' = NoAnswer,
           content' = ContentOf(feed'), NEW c \in Writers, Writes(c)
    PROVE  Map!Next
<1>1. PICK y : Altered(feed, feed') /\ Becomes(c, y)
  BY WritesKeep
<1>2. \A r \in Readers : call'[r] = call[r]
  BY <1>1, BecomesIs, ClientsAre
<1>3. content = ContentOf(feed)
  BY DEF Kept
<1>4. CASE ContentOf(feed') = ContentOf(feed)
  <2>1. content' = content
    BY <1>3, <1>4
  <2>2. \A r \in Readers : Asked(r)' = Asked(r)
    BY <1>2, <2>1, AskedStays
  <2> QED
    BY <2>1, <2>2, QuietMaps DEF Map!Next
<1>5. CASE \E k \in Keys : \E v \in Values \cup {None} :
              ContentOf(feed') = [ContentOf(feed) EXCEPT ![k] = v]
  <2>1. PICK k \in Keys, v \in Values \cup {None} : content' = [content EXCEPT ![k] = v]
    BY <1>3, <1>5
  <2>2. CASE v \in Values
    BY <1>2, <2>1, <2>2, PutMaps DEF Map!Next
  <2>3. CASE v = None
    BY <1>2, <2>1, <2>3, DeleteMaps DEF Map!Next
  <2> QED
    BY <2>2, <2>3
<1> QED
  BY <1>1, <1>4, <1>5 DEF Altered

LEMMA MapReads ==
    ASSUME Sound, Kept, Reading, Remember, content' = ContentOf(feed'),
           NEW r \in Readers, Reads(r), answer' = NoAnswer \/ getRead(r)
    PROVE  Map!Next
<1>1. ASSUME NEW y, feed' = feed, Becomes(r, y)
      PROVE  /\ content' = content /\ call'[r] = y
             /\ \A s \in Readers : s # r => call'[s] = call[s]
  BY <1>1, BecomesIs, ClientsAre DEF Kept
<1>2. ASSUME NEW y, feed' = feed, Becomes(r, y), answer' = NoAnswer,
             y.op = "get" <=> call[r].op = "get",
             y.op = "get" => y.key = call[r].key
      PROVE  Map!Next
  <2>1. \A s \in Readers : Asked(s)' = Asked(s)
    BY <1>1, <1>2, AskedStays
  <2> QED
    BY <1>1, <1>2, <2>1, QuietMaps DEF Map!Next
<1>3. ASSUME NEW k \in Keys, KVGet(r, k), answer' = NoAnswer
      PROVE  Map!Next
  <2>1. PICK y : feed' = feed /\ Becomes(r, y) /\ y.op = "get" /\ y.key = k /\ call[r] = Idle
    BY <1>3, KVGetOnTheWay
  <2>2. ~Gets(r) /\ Gets(r)' /\ call'[r].key = k
    BY <1>1, <2>1, IdleTyped DEF Gets
  <2>3. Map!Ask(r, k)
    BY <1>1, <1>3, <2>1, <2>2, AskMaps
  <2> QED
    BY <2>3 DEF Map!Next
<1>4. ASSUME getRead(r)
      PROVE  Map!Next
  <2>1. /\ Gets(r) /\ feed' = feed
        /\ \/ /\ Becomes(r, Idle)
              /\ answer' = [key |-> call[r].key, value |-> content[call[r].key]]
           \/ /\ \E y : /\ Becomes(r, y) /\ y.op = "get" /\ y.key = call[r].key
              /\ answer' = NoAnswer
    BY <1>4, getReadFinds
  <2>2. CASE /\ Becomes(r, Idle)
             /\ answer' = [key |-> call[r].key, value |-> content[call[r].key]]
    <3>1. ~Gets(r)'
      BY <1>1, <2>1, <2>2, IdleTyped DEF Gets
    <3>2. Map!Answer(r)
      BY <1>1, <2>1, <2>2, <3>1, AnswerMaps
    <3> QED
      BY <3>2 DEF Map!Next
  <2>3. CASE /\ \E y : /\ Becomes(r, y) /\ y.op = "get" /\ y.key = call[r].key
             /\ answer' = NoAnswer
    BY <1>2, <2>1, <2>3 DEF Gets
  <2> QED
    BY <2>1, <2>2, <2>3
<1>5. ASSUME \/ \E s \in Starts : KVSeek(r, s)
             \/ seekRead(r) \/ KVGetNext(r) \/ nextRead(r),
             answer' = NoAnswer
      PROVE  Map!Next
  BY <1>2, <1>5, OtherReads DEF Gets
<1> QED
  BY <1>3, <1>4, <1>5 DEF Reads

LEMMA MapStep ==
    ASSUME OneWriter, ~PutsBranchKeys, ~DropsUnderReads, Sound, Kept, Reading, [Next]_vars
    PROVE  [Map!Next]_Map!vars
<1>1. CASE UNCHANGED vars
  BY <1>1 DEF vars, Map!vars
<1>2. CASE Next
  <2>1. Remember /\ content' = ContentOf(feed') /\ content = ContentOf(feed)
    BY <1>2, KeptStep, StepsAre DEF Kept
  <2>2. ASSUME NEW c \in Writers, Writes(c), answer' = NoAnswer
        PROVE  Map!Next
    BY <2>1, <2>2, MapWrites
  <2>3. ASSUME NEW c \in Writers, DeleteKVTable(c), answer' = NoAnswer
        PROVE  Map!Next
    <3>1. content' = [k \in Keys |-> None] /\ \E y : Becomes(c, y)
      BY <2>1, <2>3, DropKeeps
    <3>2. \A r \in Readers : call'[r] = call[r]
      BY <3>1, BecomesIs, ClientsAre
    <3> QED
      BY <2>1, <2>3, <3>1, <3>2, ClearMaps DEF Map!Next
  <2>4. ASSUME NEW r \in Readers, Reads(r), answer' = NoAnswer \/ getRead(r)
        PROVE  Map!Next
    BY <2>1, <2>4, MapReads
  <2>5. ASSUME OpenKVTable, answer' = NoAnswer
        PROVE  Map!Next
    <3>1. content' = content /\ \A r \in Readers : call'[r] = call[r]
      BY <2>1, <2>5 DEF OpenKVTable
    <3>2. \A r \in Readers : Asked(r)' = Asked(r)
      BY <2>1, <3>1, AskedStays
    <3> QED
      BY <2>5, <3>1, <3>2, QuietMaps DEF Map!Next
  <2>6. ASSUME Crash, answer' = NoAnswer
        PROVE  Map!Next
    <3>1. content' = content /\ \A r \in Readers : ~Gets(r)'
      BY <2>1, <2>6, CrashDoes, ClientsAre, IdleTyped DEF Gets
    <3> QED
      BY <2>1, <2>6, <3>1, AbandonMaps DEF Map!Next
  <2> QED
    BY <1>2, <2>2, <2>3, <2>4, <2>5, <2>6, StepsAre
<1> QED
  BY <1>1, <1>2

\* To its clients the table is a map: though a put is one store or two, of which
\* the last may never come, and a get reads one manifest after another while
\* puts and deletes go on, every store changes the value of one key at most, and
\* a get answers with a value the key had while it ran (KVPut, KVDelete and KVGet
\* of pkg/collection/kv.go).
THEOREM KVIsMap ==
    ASSUME OneWriter, ~PutsBranchKeys, ~DropsUnderReads
    PROVE  Spec => IsKVMap
<1> DEFINE Inv == Sound /\ Kept /\ Reading
<1>1. Init => Inv /\ Map!Init
  BY SoundInit, KeptInit, ReadingInit, MapInit
<1>2. Inv /\ [Next]_vars => Inv'
  BY SoundStep, KeptStep, ReadingStep
<1>3. Inv /\ [Next]_vars => [Map!Next]_Map!vars
  BY MapStep
<1> HIDE DEF Inv
<1> QED
  BY <1>1, <1>2, <1>3, PTL DEF Spec, IsKVMap, Map!Spec

-----------------------------------------------------------------------------
\* The order of words.

\* Words agree up to some place, where the smaller one ends or has the smaller letter.
LEMMA LessIs ==
    ASSUME NEW s \in Words, NEW t \in Words
    PROVE  Less(s, t) <=> \E n \in Nat : /\ n <= Len(s) /\ n < Len(t)
                                         /\ \A i \in 1..n : s[i] = t[i]
                                         /\ n < Len(s) => s[n + 1] < t[n + 1]
<1>1. Len(s) \in Nat /\ Len(t) \in Nat
  BY WordIs
<1>2. ASSUME NEW n \in Nat, n <= Len(s), n < Len(t)
      PROVE  SubSeq(s, 1, n) = SubSeq(t, 1, n) <=> \A i \in 1..n : s[i] = t[i]
  <2>1. n \in 0..Len(s) /\ n \in 0..Len(t)
    BY <1>1, <1>2
  <2>2. /\ SubSeq(s, 1, n) \in Words /\ Len(SubSeq(s, 1, n)) = n
        /\ SubSeq(t, 1, n) \in Words /\ Len(SubSeq(t, 1, n)) = n
        /\ \A i \in 1..n : SubSeq(s, 1, n)[i] = s[i] /\ SubSeq(t, 1, n)[i] = t[i]
    BY <2>1, CutIs
  <2>3. (\A i \in 1..n : s[i] = t[i]) => SubSeq(s, 1, n) = SubSeq(t, 1, n)
    BY <2>2, SameWord
  <2>4. SubSeq(s, 1, n) = SubSeq(t, 1, n) => \A i \in 1..n : s[i] = t[i]
    BY <2>2
  <2> QED
    BY <2>3, <2>4
<1>3. \A n : n \in 0..Len(s) <=> n \in Nat /\ n <= Len(s)
  BY <1>1
<1> QED
  BY <1>2, <1>3 DEF Less

LEMMA LessItself ==
    ASSUME NEW s \in Words
    PROVE  ~Less(s, s)
<1>1. Len(s) \in Nat /\ \A i \in 1..Len(s) : s[i] \in Nat
  BY WordIs
<1>2. ASSUME NEW n \in Nat, n < Len(s)
      PROVE  ~(s[n + 1] < s[n + 1])
  <2>1. n + 1 \in 1..Len(s)
    BY <1>1, <1>2
  <2> QED
    BY <1>1, <2>1
<1> QED
  BY <1>2, LessIs

LEMMA LessTwice ==
    ASSUME NEW s \in Words, NEW t \in Words, NEW u \in Words, Less(s, t), Less(t, u)
    PROVE  Less(s, u)
<1>1. /\ Len(s) \in Nat /\ \A i \in 1..Len(s) : s[i] \in Nat
      /\ Len(t) \in Nat /\ \A i \in 1..Len(t) : t[i] \in Nat
      /\ Len(u) \in Nat /\ \A i \in 1..Len(u) : u[i] \in Nat
  BY WordIs
<1>2. PICK m \in Nat : /\ m <= Len(s) /\ m < Len(t) /\ \A i \in 1..m : s[i] = t[i]
                       /\ m < Len(s) => s[m + 1] < t[m + 1]
  BY LessIs
<1>3. PICK n \in Nat : /\ n <= Len(t) /\ n < Len(u) /\ \A i \in 1..n : t[i] = u[i]
                       /\ n < Len(t) => t[n + 1] < u[n + 1]
  BY LessIs
<1>4. CASE m < n
  <2>1. m < Len(u) /\ \A i \in 1..m : s[i] = u[i]
    BY <1>1, <1>2, <1>3, <1>4
  <2>2. t[m + 1] = u[m + 1]
    BY <1>1, <1>2, <1>3, <1>4
  <2> QED
    BY <1>2, <2>1, <2>2, LessIs
<1>5. CASE m = n
  <2>1. m < Len(u) /\ \A i \in 1..m : s[i] = u[i]
    BY <1>1, <1>2, <1>3, <1>5
  <2>2. m < Len(s) => s[m + 1] < u[m + 1]
    <3>1. SUFFICES ASSUME m < Len(s) PROVE s[m + 1] < u[m + 1]
      OBVIOUS
    <3>2. m + 1 \in 1..Len(s) /\ m + 1 \in 1..Len(t) /\ m + 1 \in 1..Len(u)
      BY <1>1, <1>2, <2>1, <3>1
    <3>3. s[m + 1] \in Nat /\ t[m + 1] \in Nat /\ u[m + 1] \in Nat
      BY <1>1, <3>2
    <3>4. s[m + 1] < t[m + 1] /\ t[m + 1] < u[m + 1]
      BY <1>2, <1>3, <1>5, <3>1
    <3> QED
      BY <3>3, <3>4
  <2> QED
    BY <1>2, <2>1, <2>2, LessIs
<1>6. CASE n < m
  <2>1. n <= Len(s) /\ n < Len(s) /\ \A i \in 1..n : s[i] = u[i]
    BY <1>1, <1>2, <1>3, <1>6
  <2>2. s[n + 1] = t[n + 1] /\ n < Len(t)
    BY <1>1, <1>2, <1>3, <1>6
  <2> QED
    BY <1>3, <2>1, <2>2, LessIs
<1> QED
  BY <1>4, <1>5, <1>6

\* Of two words that differ one is smaller.
LEMMA OneIsLess ==
    ASSUME NEW s \in Words, NEW t \in Words
    PROVE  s = t \/ Less(s, t) \/ Less(t, s)
<1>1. /\ Len(s) \in Nat /\ \A i \in 1..Len(s) : s[i] \in Nat
      /\ Len(t) \in Nat /\ \A i \in 1..Len(t) : t[i] \in Nat
  BY WordIs
<1> DEFINE D == {i \in Nat : i < Len(s) /\ i < Len(t) /\ s[i + 1] # t[i + 1]}
<1>2. CASE D = {}
  <2>1. ASSUME NEW i \in Nat, i >= 1, i <= Len(s), i <= Len(t)
        PROVE  s[i] = t[i]
    <3>1. PICK j \in Nat : i = j + 1
      <4>1. i - 1 \in Nat /\ i = (i - 1) + 1
        BY <2>1
      <4> QED
        BY <4>1
    <3>2. j < Len(s) /\ j < Len(t)
      BY <1>1, <2>1, <3>1
    <3> QED
      BY <1>2, <3>1, <3>2
  <2>2. CASE Len(s) = Len(t)
    <3>1. \A i \in 1..Len(s) : s[i] = t[i]
      BY <1>1, <2>1, <2>2
    <3> QED
      BY <2>2, <3>1, SameWord
  <2>3. CASE Len(s) < Len(t)
    <3>1. \A i \in 1..Len(s) : s[i] = t[i]
      BY <1>1, <2>1, <2>3
    <3>2. Less(s, t)
      BY <1>1, <2>3, <3>1, LessIs
    <3> QED
      BY <3>2
  <2>4. CASE Len(t) < Len(s)
    <3>1. \A i \in 1..Len(t) : t[i] = s[i]
      BY <1>1, <2>1, <2>4
    <3>2. Less(t, s)
      BY <1>1, <2>4, <3>1, LessIs
    <3> QED
      BY <3>2
  <2> QED
    BY <1>1, <2>2, <2>3, <2>4
<1>3. CASE D # {}
  <2>1. PICK n \in D : \A j \in D : n <= j
    <3>1. D \subseteq Nat
      OBVIOUS
    <3> HIDE DEF D
    <3> QED
      BY <1>3, <3>1, LeastNumber
  <2>2. n \in Nat /\ n < Len(s) /\ n < Len(t) /\ s[n + 1] # t[n + 1]
    BY <2>1
  <2>3. ASSUME NEW i \in 1..n
        PROVE  s[i] = t[i]
    <3>1. i - 1 \in Nat /\ i - 1 < n /\ (i - 1) + 1 = i /\ i - 1 < Len(s) /\ i - 1 < Len(t)
      BY <1>1, <2>2
    <3>2. i - 1 \notin D
      BY <2>1, <2>2, <3>1
    <3> QED
      BY <3>1, <3>2
  <2>4. s[n + 1] \in Nat /\ t[n + 1] \in Nat
    <3>1. n + 1 \in 1..Len(s) /\ n + 1 \in 1..Len(t)
      BY <1>1, <2>2
    <3> QED
      BY <1>1, <3>1
  <2>5. CASE s[n + 1] < t[n + 1]
    BY <1>1, <2>2, <2>3, <2>5, LessIs
  <2>6. CASE t[n + 1] < s[n + 1]
    <3>1. /\ n \in Nat /\ n <= Len(t) /\ n < Len(s) /\ \A i \in 1..n : t[i] = s[i]
          /\ n < Len(t) => t[n + 1] < s[n + 1]
      BY <1>1, <2>2, <2>3, <2>6
    <3> QED
      BY <3>1, LessIs
  <2> HIDE DEF D
  <2> QED
    BY <2>2, <2>4, <2>5, <2>6
<1> QED
  BY <1>2, <1>3

\* A word's prefixes come before it.
LEMMA PrefixIsLess ==
    ASSUME NEW s \in Words, NEW t \in Words, IsPrefix(s, t), s # t
    PROVE  Less(s, t)
<1>1. /\ Len(s) \in Nat /\ Len(t) \in Nat /\ Len(s) < Len(t)
      /\ \A i \in 1..Len(s) : s[i] = t[i]
  BY WordIs, PrefixIs, LongerPath
<1> QED
  BY <1>1, LessIs

LEMMA LessByLetter ==
    ASSUME NEW s \in Words, NEW t \in Words, s # <<>>, t # <<>>, s[1] < t[1]
    PROVE  Less(s, t)
<1>1. Len(s) \in Nat /\ Len(t) \in Nat /\ Len(s) > 0 /\ Len(t) > 0
  BY WordIs
<1>2. 0 \in Nat /\ 0 <= Len(s) /\ 0 < Len(t) /\ (\A i \in 1..0 : s[i] = t[i]) /\ 0 + 1 = 1
  BY <1>1
<1> QED
  BY <1>2, LessIs

\* What the words begin with makes no difference.
LEMMA LessBehind ==
    ASSUME NEW p \in Words, NEW s \in Words, NEW t \in Words
    PROVE  Less(p \o s, p \o t) <=> Less(s, t)
<1>1. Len(p) \in Nat /\ Len(s) \in Nat /\ Len(t) \in Nat
  BY WordIs
<1>2. /\ p \o s \in Words /\ Len(p \o s) = Len(p) + Len(s)
      /\ \A i \in 1..Len(p) : (p \o s)[i] = p[i]
      /\ \A i \in 1..Len(s) : (p \o s)[Len(p) + i] = s[i]
      /\ p \o t \in Words /\ Len(p \o t) = Len(p) + Len(t)
      /\ \A i \in 1..Len(p) : (p \o t)[i] = p[i]
      /\ \A i \in 1..Len(t) : (p \o t)[Len(p) + i] = t[i]
  BY ConcatIs
<1>3. ASSUME NEW x \in Words, NEW y \in Words, Less(x, y)
      PROVE  Less(p \o x, p \o y)
  <2>1. Len(x) \in Nat /\ Len(y) \in Nat
    BY WordIs
  <2>2. PICK n \in Nat : /\ n <= Len(x) /\ n < Len(y) /\ \A i \in 1..n : x[i] = y[i]
                         /\ n < Len(x) => x[n + 1] < y[n + 1]
    BY <1>3, LessIs
  <2>3. /\ p \o x \in Words /\ Len(p \o x) = Len(p) + Len(x)
        /\ \A i \in 1..Len(p) : (p \o x)[i] = p[i]
        /\ \A i \in 1..Len(x) : (p \o x)[Len(p) + i] = x[i]
        /\ p \o y \in Words /\ Len(p \o y) = Len(p) + Len(y)
        /\ \A i \in 1..Len(p) : (p \o y)[i] = p[i]
        /\ \A i \in 1..Len(y) : (p \o y)[Len(p) + i] = y[i]
    BY ConcatIs
  <2>4. PICK m \in Nat : m = Len(p) + n
    BY <1>1
  <2>5. m <= Len(p \o x) /\ m < Len(p \o y) /\ (m < Len(p \o x) <=> n < Len(x))
    BY <1>1, <2>1, <2>2, <2>3, <2>4
  <2>6. ASSUME NEW i \in 1..m
        PROVE  (p \o x)[i] = (p \o y)[i]
    <3>1. CASE i <= Len(p)
      <4>1. i \in 1..Len(p)
        BY <1>1, <2>4, <3>1
      <4> QED
        BY <2>3, <4>1
    <3>2. CASE i > Len(p)
      <4>1. PICK j \in 1..n : i = Len(p) + j
        <5>1. i - Len(p) \in 1..n /\ i = Len(p) + (i - Len(p))
          BY <1>1, <2>4, <3>2
        <5> QED
          BY <5>1
      <4>2. j \in 1..Len(x) /\ j \in 1..Len(y)
        BY <2>1, <2>2
      <4> QED
        BY <2>2, <2>3, <4>1, <4>2
    <3>3. i <= Len(p) \/ i > Len(p)
      BY <1>1
    <3> QED
      BY <3>1, <3>2, <3>3, Zenon
  <2>7. m < Len(p \o x) => (p \o x)[m + 1] < (p \o y)[m + 1]
    <3>1. SUFFICES ASSUME n < Len(x) PROVE (p \o x)[m + 1] < (p \o y)[m + 1]
      BY <2>5
    <3>2. n + 1 \in 1..Len(x) /\ n + 1 \in 1..Len(y) /\ m + 1 = Len(p) + (n + 1)
      BY <1>1, <2>1, <2>2, <2>4, <3>1
    <3>3. (p \o x)[m + 1] = x[n + 1] /\ (p \o y)[m + 1] = y[n + 1]
      BY <2>3, <3>2
    <3> QED
      BY <2>2, <3>1, <3>3
  <2> QED
    BY <2>3, <2>4, <2>5, <2>6, <2>7, LessIs
<1>4. ASSUME Less(p \o s, p \o t)
      PROVE  Less(s, t)
  <2>1. s = t \/ Less(s, t) \/ Less(t, s)
    BY OneIsLess
  <2>2. ~Less(t, s)
    <3>1. SUFFICES ASSUME Less(p \o t, p \o s) PROVE FALSE
      BY <1>3
    <3> QED
      BY <1>2, <1>4, <3>1, LessTwice, LessItself
  <2>3. s # t
    BY <1>2, <1>4, LessItself
  <2> QED
    BY <2>1, <2>2, <2>3
<1> QED
  BY <1>3, <1>4

\* What comes after a word also comes after it when it goes on.
LEMMA LessThanLonger ==
    ASSUME NEW s \in Words, NEW t \in Words, NEW u \in Words, Less(s, t), IsPrefix(t, u)
    PROVE  Less(s, u)
  BY PrefixIsLess, LessTwice

\* What is smaller than a word and no prefix of it stays smaller when it goes on.
LEMMA LongerIsLess ==
    ASSUME NEW s \in Words, NEW t \in Words, NEW u \in Words, Less(s, t), ~IsPrefix(s, t),
           IsPrefix(s, u)
    PROVE  Less(u, t)
<1>1. /\ Len(s) \in Nat /\ Len(t) \in Nat /\ Len(u) \in Nat /\ Len(s) <= Len(u)
      /\ \A i \in 1..Len(s) : s[i] = u[i]
  BY WordIs, PrefixIs
<1>2. PICK n \in Nat : /\ n <= Len(s) /\ n < Len(t) /\ \A i \in 1..n : s[i] = t[i]
                       /\ n < Len(s) => s[n + 1] < t[n + 1]
  BY LessIs
<1>3. n # Len(s)
  BY <1>1, <1>2, PrefixIs
<1>4. n < Len(s) /\ n <= Len(u) /\ n + 1 \in 1..Len(s)
  BY <1>1, <1>2, <1>3
<1>5. (\A i \in 1..n : u[i] = t[i]) /\ u[n + 1] < t[n + 1]
  BY <1>1, <1>2, <1>4
<1> QED
  BY <1>2, <1>4, <1>5, LessIs

-----------------------------------------------------------------------------
\* The places of entries: where a leaf's key or a branch's manifest is.

LEMMA NotLessTwice ==
    ASSUME NEW s \in Words, NEW t \in Words, Less(s, t)
    PROVE  ~Less(t, s)
  BY LessTwice, LessItself

\* Nothing goes below the empty word.
LEMMA EmptyIsLeast ==
    ASSUME NEW s \in Words
    PROVE  ~Less(s, <<>>) /\ (s # <<>> => Less(<<>>, s))
<1>1. s # <<>> => Less(<<>>, s)
  BY EmptyWord, PrefixItself, PrefixIsLess
<1>2. ~Less(s, <<>>)
  BY <1>1, EmptyWord, NotLessTwice, LessItself
<1> QED
  BY <1>1, <1>2

LEMMA PlaceIs ==
    ASSUME NEW p \in Paths, NEW es \in Manifests, Spells(p, es), NEW i \in 1..Len(es)
    PROVE  /\ es[i] \in Entry /\ es[i].name \in Words /\ Contains(es, es[i])
           /\ p \o es[i].name \in Paths /\ p \o es[i].name \in Words
           /\ p \o es[i].name # <<>> /\ IsPrefix(p, p \o es[i].name)
           /\ es[i].kind = "leaf" => p \o es[i].name \in Keys
           /\ es[i].kind = "branch" => es[i].name # <<>>
           /\ es[i].kind \in {"leaf", "branch"}
<1>1. PICK e \in Entry : e = es[i]
  BY ManifestIs
<1>2. e.name \in Words /\ Contains(es, e) /\ e.kind \in {"leaf", "branch"}
  BY <1>1, EntryIs DEF Contains
<1>3. IsEntry(p, e)
  BY <1>2 DEF Spells
<1>4. p \in Words /\ p \o e.name \in Words /\ Len(p \o e.name) = Len(p) + Len(e.name)
      /\ IsPrefix(p, p \o e.name)
  BY <1>2, PathsAre, ConcatIs, ConcatHasPrefix
<1>5. p \o e.name \in Paths
  BY <1>3, PathsAre DEF IsEntry
<1>6. p \o e.name # <<>>
  <2>1. CASE e.kind = "leaf"
    BY <1>3, <2>1, KVAssumption DEF IsEntry
  <2>2. CASE e.kind = "branch"
    <3>1. e.name # <<>>
      BY <1>3, <2>2 DEF IsEntry
    <3>2. Len(p) \in Nat /\ Len(e.name) \in Nat /\ Len(e.name) # 0
      BY <1>2, <1>4, <3>1, WordIs
    <3>3. Len(p \o e.name) # 0
      BY <1>4, <3>2
    <3> QED
      BY <3>3, EmptyWord
  <2> QED
    BY <1>2, <2>1, <2>2
<1> QED
  BY <1>1, <1>2, <1>3, <1>4, <1>5, <1>6 DEF IsEntry

\* In a sorted manifest names come in order.
LEMMA NamesInOrder ==
    ASSUME NEW es \in Manifests, Sorted(es), NEW i \in 1..Len(es), NEW j \in 1..Len(es), i < j
    PROVE  /\ Less(es[i].name, es[j].name)
           /\ \A t \in Words : es[i].name # <<>> /\ t # <<>> /\ t[1] = es[i].name[1]
                                  => Less(t, es[j].name)
<1>1. PICK d \in Entry : d = es[i]
  BY ManifestIs
<1>2. PICK e \in Entry : e = es[j]
  BY ManifestIs
<1>3. Letter(d) < Letter(e)
  BY <1>1, <1>2 DEF Sorted
<1>4. /\ d.name \in Words /\ e.name \in Words /\ Letter(d) \in Nat /\ Letter(e) \in Nat
      /\ (d.name = <<>> <=> Letter(d) = 0) /\ (e.name = <<>> <=> Letter(e) = 0)
      /\ d.name # <<>> => d.name[1] = Letter(d)
      /\ e.name # <<>> => e.name[1] = Letter(e)
  BY EntryIs
<1>5. e.name # <<>> /\ e.name[1] = Letter(e)
  BY <1>3, <1>4
<1>6. ASSUME NEW t \in Words, d.name # <<>>, t # <<>>, t[1] = d.name[1]
      PROVE  Less(t, e.name)
  <2>1. t[1] < e.name[1]
    BY <1>3, <1>4, <1>5, <1>6
  <2> QED
    BY <1>4, <1>5, <1>6, <2>1, LessByLetter
<1>7. Less(d.name, e.name)
  <2>1. CASE d.name = <<>>
    BY <1>4, <1>5, <2>1, EmptyIsLeast
  <2>2. CASE d.name # <<>>
    BY <1>4, <1>6, <2>2
  <2> QED
    BY <2>1, <2>2
<1> QED
  BY <1>1, <1>2, <1>6, <1>7

\* A word that begins with a word begins with its first letter.
LEMMA FirstLetter ==
    ASSUME NEW s \in Words, NEW t \in Words, IsPrefix(s, t), s # <<>>
    PROVE  t # <<>> /\ t[1] = s[1] /\ Len(t) >= 1
<1>1. Len(s) \in Nat /\ Len(s) # 0 /\ Len(s) <= Len(t) /\ Len(t) \in Nat
      /\ \A i \in 1..Len(s) : s[i] = t[i]
  BY WordIs, PrefixIs
<1>2. 1 \in 1..Len(s) /\ Len(t) >= 1 /\ Len(t) # 0
  BY <1>1
<1> QED
  BY <1>1, <1>2, EmptyWord

\* Of the places in a sorted manifest the earlier come before the later, with
\* all that is below them if they are branches.
LEMMA PlacesInOrder ==
    ASSUME NEW p \in Paths, NEW es \in Manifests, Spells(p, es), Sorted(es),
           NEW i \in 1..Len(es), NEW j \in 1..Len(es), i < j
    PROVE  /\ Less(p \o es[i].name, p \o es[j].name)
           /\ es[i].name # <<>> =>
                 \A v \in Paths : IsPrefix(p \o es[i].name, v) => Less(v, p \o es[j].name)
<1>1. PICK n \in Words : n = es[i].name
  BY PlaceIs
<1>2. PICK m \in Words : m = es[j].name
  BY PlaceIs
<1>3. Less(n, m) /\ \A t \in Words : n # <<>> /\ t # <<>> /\ t[1] = n[1] => Less(t, m)
  BY <1>1, <1>2, NamesInOrder
<1>4. p \in Words /\ p \o n \in Words /\ p \o m \in Words
  BY PathsAre, ConcatIs
<1>5. Less(p \o n, p \o m)
  BY <1>3, <1>4, LessBehind
<1>6. ASSUME n # <<>>, NEW v \in Paths, IsPrefix(p \o n, v)
      PROVE  Less(v, p \o m)
  <2>1. v \in Words
    BY PathsAre
  <2>2. IsPrefix(p, v)
    BY <1>4, <1>6, <2>1, ConcatHasPrefix, PrefixOfPrefix
  <2>3. PICK t \in Words : t = After(v, p) /\ p \o t = v
    BY <1>4, <2>1, <2>2, AfterIs, PrefixAndAfter
  <2>4. IsPrefix(n, t)
    BY <1>4, <1>6, <2>1, <2>2, <2>3, AfterKeepsPrefix
  <2>5. Less(t, m)
    BY <1>3, <1>6, <2>4, FirstLetter
  <2>6. Less(p \o t, p \o m)
    BY <1>4, <2>3, <2>5, LessBehind
  <2> QED
    BY <2>3, <2>6
<1> QED
  BY <1>1, <1>2, <1>5, <1>6

-----------------------------------------------------------------------------
\* The stack of an iterator.

\* What is at or below p comes before what is left of the level.
Before(p, lv) ==
    \A a \in 1..Len(lv.left) : \A v \in Paths : IsPrefix(p, v) => Less(v, lv.path \o lv.left[a].name)

\* The level is that of a sorted manifest, with nothing before the start.
FromStart(lv, start) ==
    /\ Spells(lv.path, lv.left) /\ Sorted(lv.left)
    /\ \A a \in 1..Len(lv.left) : ~Less(lv.path \o lv.left[a].name, start)

\* What is left comes at or behind the start, what is deeper first.
Laid(stack, start) ==
    \A i \in 1..Len(stack) :
        /\ FromStart(stack[i], start)
        /\ \A j \in 1..Len(stack) : i < j => Before(stack[j].path, stack[i])

Under(p, stack) == \A i \in 1..Len(stack) : Before(p, stack[i])

\* What is left of the level comes behind the last key.
Behind(last, lv) == \A a \in 1..Len(lv.left) : Less(last, lv.path \o lv.left[a].name)
Past(stack, last) == \A i \in 1..Len(stack) : Behind(last, stack[i])

\* An entry at p that is key k's leaf or a branch towards it.
Toward(p, e, k) ==
    IF e.kind = "leaf" THEN p \o e.name = k ELSE IsPrefix(p \o e.name, k)
ComesIn(lv, k) == \E a \in 1..Len(lv.left) : Toward(lv.path, lv.left[a], k)
Comes(stack, k) == \E i \in 1..Len(stack) : ComesIn(stack[i], k)

\* The branches that are left are branches still.
LedIn(f, lv) ==
    \A a \in 1..Len(lv.left) :
        lv.left[a].kind = "branch" => Walked(f, lv.path \o lv.left[a].name)
Led(f, stack) == \A i \in 1..Len(stack) : LedIn(f, stack[i])

LEMMA NoLevels ==
    ASSUME NEW start, NEW last, NEW f, NEW p
    PROVE  /\ <<>> \in Seq(Levels) /\ Len(<<>>) = 0 /\ Laid(<<>>, start) /\ Past(<<>>, last)
           /\ Led(f, <<>>) /\ Under(p, <<>>)
<1>1. <<>> \in Seq(Levels) /\ Len(<<>>) = 0
  BY EmptySeq
<1> QED
  BY <1>1 DEF Laid, Past, Led, Under

LEMMA OneMore ==
    ASSUME NEW stack \in Seq(Levels), NEW lv \in Levels
    PROVE  LET s == Append(stack, lv)
           IN  /\ s \in Seq(Levels) /\ Len(s) = Len(stack) + 1 /\ Len(stack) \in Nat
               /\ \A i \in 1..Len(stack) : s[i] = stack[i] /\ stack[i] \in Levels
               /\ s[Len(stack) + 1] = lv
               /\ \A i \in 1..(Len(stack) + 1) : i \in 1..Len(stack) \/ i = Len(stack) + 1
<1>1. Len(stack) \in Nat /\ \A i \in 1..Len(stack) : stack[i] \in Levels
  BY LenProperties, ElementOfSeq
<1> QED
  BY <1>1, AppendProperties

LEMMA LevelIs ==
    ASSUME NEW lv \in Levels
    PROVE  lv.path \in Paths /\ lv.path \in Words /\ lv.left \in Manifests
  BY PathsAre DEF Levels

\* Another level on top.
LEMMA OneMoreLaid ==
    ASSUME NEW stack \in Seq(Levels), NEW lv \in Levels, NEW start, Laid(stack, start),
           FromStart(lv, start), Under(lv.path, stack)
    PROVE  Laid(Append(stack, lv), start)
<1>1. PICK s : s = Append(stack, lv)
  OBVIOUS
<1>2. PICK n \in Nat : n = Len(stack)
  BY OneMore
<1>3. /\ Len(s) = n + 1 /\ (\A i \in 1..n : s[i] = stack[i]) /\ s[n + 1] = lv
      /\ \A i \in 1..(n + 1) : i \in 1..n \/ i = n + 1
  BY <1>1, <1>2, OneMore
<1>4. ASSUME NEW i \in 1..(n + 1)
      PROVE  FromStart(s[i], start)
  BY <1>2, <1>3 DEF Laid
<1>5. ASSUME NEW i \in 1..(n + 1), NEW j \in 1..(n + 1), i < j
      PROVE  Before(s[j].path, s[i])
  <2>1. i \in 1..n
    BY <1>5
  <2>2. CASE j = n + 1
    BY <1>2, <1>3, <2>1, <2>2 DEF Under
  <2>3. CASE j \in 1..n
    BY <1>2, <1>3, <1>5, <2>1, <2>3 DEF Laid
  <2> QED
    BY <1>3, <2>2, <2>3
<1> QED
  BY <1>1, <1>3, <1>4, <1>5 DEF Laid

LEMMA OneMoreUnder ==
    ASSUME NEW stack \in Seq(Levels), NEW lv \in Levels, NEW p, Under(p, stack), Before(p, lv)
    PROVE  Under(p, Append(stack, lv))
<1>1. PICK s : s = Append(stack, lv)
  OBVIOUS
<1>2. /\ Len(s) = Len(stack) + 1 /\ (\A i \in 1..Len(stack) : s[i] = stack[i])
      /\ s[Len(stack) + 1] = lv
      /\ \A i \in 1..(Len(stack) + 1) : i \in 1..Len(stack) \/ i = Len(stack) + 1
  BY <1>1, OneMore
<1> QED
  BY <1>1, <1>2 DEF Under

LEMMA OneMorePast ==
    ASSUME NEW stack \in Seq(Levels), NEW lv \in Levels, NEW last, Past(stack, last),
           Behind(last, lv)
    PROVE  Past(Append(stack, lv), last)
<1>1. PICK s : s = Append(stack, lv)
  OBVIOUS
<1>2. /\ Len(s) = Len(stack) + 1 /\ (\A i \in 1..Len(stack) : s[i] = stack[i])
      /\ s[Len(stack) + 1] = lv
      /\ \A i \in 1..(Len(stack) + 1) : i \in 1..Len(stack) \/ i = Len(stack) + 1
  BY <1>1, OneMore
<1> QED
  BY <1>1, <1>2 DEF Past

LEMMA OneMoreLed ==
    ASSUME NEW stack \in Seq(Levels), NEW lv \in Levels, NEW f, Led(f, stack), LedIn(f, lv)
    PROVE  Led(f, Append(stack, lv))
<1>1. PICK s : s = Append(stack, lv)
  OBVIOUS
<1>2. /\ Len(s) = Len(stack) + 1 /\ (\A i \in 1..Len(stack) : s[i] = stack[i])
      /\ s[Len(stack) + 1] = lv
      /\ \A i \in 1..(Len(stack) + 1) : i \in 1..Len(stack) \/ i = Len(stack) + 1
  BY <1>1, OneMore
<1> QED
  BY <1>1, <1>2 DEF Led

LEMMA OneMoreComes ==
    ASSUME NEW stack \in Seq(Levels), NEW lv \in Levels, NEW k, Comes(stack, k) \/ ComesIn(lv, k)
    PROVE  Comes(Append(stack, lv), k)
<1>1. PICK s : s = Append(stack, lv)
  OBVIOUS
<1>2. /\ Len(s) = Len(stack) + 1 /\ (\A i \in 1..Len(stack) : s[i] = stack[i])
      /\ s[Len(stack) + 1] = lv /\ Len(stack) \in Nat
  BY <1>1, OneMore
<1>3. (\A i \in 1..Len(stack) : i \in 1..Len(s)) /\ Len(stack) + 1 \in 1..Len(s)
  BY <1>2
<1> QED
  BY <1>1, <1>2, <1>3 DEF Comes

\* The place of the top level that has entries left, what is left without its
\* first entry, and the levels below.
TopOf(stack) == CHOOSE j \in Unexhausted(stack) : \A m \in Unexhausted(stack) : m <= j
Popped(stack) ==
    Append(SubSeq(stack, 1, TopOf(stack) - 1), [stack[TopOf(stack)] EXCEPT !.left = Tail(@)])

\* n is that place, e the entry, lv what is left of the level, below the others.
IsTop(stack, n, e, lv, below) ==
    /\ n \in 1..Len(stack) /\ stack[n] \in Levels /\ n = TopOf(stack)
    /\ Len(stack[n].left) >= 1 /\ e = stack[n].left[1] /\ e = Head(stack[n].left)
    /\ lv.path = stack[n].path /\ Len(lv.left) = Len(stack[n].left) - 1
    /\ \A a \in 1..Len(lv.left) : lv.left[a] = stack[n].left[a + 1]
    /\ Len(below) = n - 1 /\ \A i \in 1..(n - 1) : below[i] = stack[i]
    /\ \A i \in 1..Len(stack) : i > n => Len(stack[i].left) = 0
    /\ Popped(stack) = Append(below, lv)

LEMMA TopIs ==
    ASSUME NEW stack \in Seq(Levels), Unexhausted(stack) # {}
    PROVE  \E n \in Nat : \E e \in Entry : \E lv \in Levels : \E below \in Seq(Levels) :
               IsTop(stack, n, e, lv, below)
<1> DEFINE U == Unexhausted(stack)
<1>1. Len(stack) \in Nat /\ DOMAIN stack = 1..Len(stack)
      /\ \A i \in 1..Len(stack) : stack[i] \in Levels
  BY LenProperties, ElementOfSeq
<1>2. U = {j \in 1..Len(stack) : stack[j].left # <<>>}
  BY <1>1 DEF Unexhausted
<1>3. PICK n \in Nat : n = TopOf(stack) /\ n \in U /\ \A m \in U : m <= n
  <2> DEFINE D == {Len(stack) - j : j \in U}
  <2>1. D \subseteq Nat /\ D # {}
    BY <1>1, <1>2
  <2>2. PICK d \in D : \A b \in D : d <= b
    <3> HIDE DEF D
    <3> QED
      BY <2>1, LeastNumber
  <2>3. PICK j \in U : d = Len(stack) - j
    BY <2>2
  <2>4. ASSUME NEW m \in U
        PROVE  m <= j
    <3>1. Len(stack) - m \in D
      OBVIOUS
    <3>2. d <= Len(stack) - m
      BY <2>2, <3>1
    <3>3. j \in Nat /\ m \in Nat
      BY <1>1, <1>2
    <3> HIDE DEF D, U
    <3> QED
      BY <1>1, <2>3, <3>2, <3>3
  <2>5. TopOf(stack) \in U /\ \A m \in U : m <= TopOf(stack)
    <3> HIDE DEF U
    <3> QED
      BY <2>4 DEF TopOf, U
  <2>6. U \subseteq Nat
    BY <1>1, <1>2
  <2> QED
    BY <2>5, <2>6
<1>4. n \in 1..Len(stack) /\ stack[n] \in Levels /\ stack[n].left # <<>>
  BY <1>1, <1>2, <1>3
<1>5. PICK es \in Manifests : es = stack[n].left
  BY <1>4, LevelIs
<1>6. PICK p \in Paths : p = stack[n].path
  BY <1>4, LevelIs
<1>7. /\ Len(es) \in Nat /\ Len(es) >= 1 /\ Head(es) = es[1] /\ es[1] \in Entry
      /\ Tail(es) \in Manifests /\ Len(Tail(es)) = Len(es) - 1
      /\ \A a \in 1..Len(Tail(es)) : Tail(es)[a] = es[a + 1]
  <2>1. es \in Seq(Entry) /\ es # <<>>
    BY <1>4, <1>5 DEF Manifests
  <2>2. Len(es) \in Nat /\ Len(es) >= 1
    BY <2>1, EmptySeq, LenProperties
  <2>3. /\ Head(es) \in Entry /\ Tail(es) \in Seq(Entry) /\ Len(Tail(es)) = Len(es) - 1
        /\ \A j \in 1..Len(Tail(es)) : Tail(es)[j] = es[j + 1]
    BY <2>1, HeadTailProperties
  <2>4. Head(es) = es[1]
    OBVIOUS
  <2> QED
    BY <2>2, <2>3, <2>4 DEF Manifests
<1>8. PICK lv \in Levels : lv = [path |-> p, left |-> Tail(es)]
  BY <1>7 DEF Levels
<1>9. [stack[n] EXCEPT !.left = Tail(@)] = lv
  <2>1. PICK x \in Levels : x = stack[n]
    BY <1>4
  <2>2. [x EXCEPT !.left = Tail(es)] = [path |-> x.path, left |-> Tail(es)]
    <3>1. PICK t \in Manifests : t = Tail(es)
      BY <1>7
    <3>2. [x EXCEPT !.left = t] = [path |-> x.path, left |-> t]
      BY DEF Levels
    <3> QED
      BY <3>1, <3>2
  <2> QED
    BY <1>5, <1>6, <1>8, <2>1, <2>2
<1>10. PICK below : below = SubSeq(stack, 1, n - 1)
  OBVIOUS
<1>11. /\ below \in Seq(Levels) /\ Len(below) = n - 1
       /\ \A i \in 1..(n - 1) : below[i] = stack[i]
  <2>1. PICK m \in Nat : m = n - 1 /\ m <= Len(stack)
    BY <1>1, <1>4
  <2>2. \A i \in 1..m : stack[i] \in Levels
    BY <1>1, <2>1
  <2>3. /\ SubSeq(stack, 1, m) \in Seq(Levels)
        /\ Len(SubSeq(stack, 1, m)) = IF 1 <= m THEN m - 1 + 1 ELSE 0
        /\ \A i \in 1..(m - 1 + 1) : SubSeq(stack, 1, m)[i] = stack[1 + i - 1]
    BY <2>1, <2>2, SubSeqProperties
  <2>4. /\ m - 1 + 1 = m /\ ~(1 <= m) => m = 0
        /\ \A i \in 1..m : 1 + i - 1 = i
    BY <2>1
  <2> QED
    BY <1>10, <2>1, <2>3, <2>4
<1>12. Popped(stack) = Append(below, lv)
  BY <1>3, <1>9, <1>10 DEF Popped
<1>13. ASSUME NEW i \in 1..Len(stack), i > n
       PROVE  Len(stack[i].left) = 0
  <2>1. i \notin U
    <3> HIDE DEF U
    <3> QED
      BY <1>1, <1>3, <1>13
  <2> QED
    BY <1>2, <2>1, EmptySeq
<1>14. IsTop(stack, n, es[1], lv, below)
  BY <1>3, <1>4, <1>5, <1>6, <1>7, <1>8, <1>11, <1>12, <1>13 DEF IsTop
<1> QED
  BY <1>7, <1>8, <1>11, <1>14

-----------------------------------------------------------------------------
\* Every manifest that was ever stored, or is about to be, is sorted, and its
\* branches lead to where two keys part.

Forks == {q \in Paths : \E k, l \in Keys : k # l /\ IsPrefix(q, k) /\ IsPrefix(q, l)}

Tidy(p, es) ==
    /\ Sorted(es)
    /\ \A e \in Entry : Contains(es, e) /\ e.kind = "branch" => p \o e.name \in Forks

TidyStores(t) == \A j \in 1..Len(t) : Tidy(t[j].path, t[j].entries)

Tidied ==
    /\ \A p \in Paths : feed[p] # Absent => Tidy(p, feed[p])
    /\ \A c \in Writers : TidyStores(call[c].todo)

LEMMA ForkAbove ==
    ASSUME NEW q \in Forks, NEW p \in Words, IsPrefix(p, q)
    PROVE  p \in Forks
<1>1. q \in Paths /\ q \in Words
  BY PathsAre DEF Forks
<1>2. PICK k \in Keys, l \in Keys : k # l /\ IsPrefix(q, k) /\ IsPrefix(q, l)
  BY DEF Forks
<1>3. k \in Words /\ l \in Words
  BY KVAssumption
<1>4. IsPrefix(p, k) /\ IsPrefix(p, l)
  BY <1>1, <1>2, <1>3, PrefixOfPrefix
<1>5. p \in Paths
  BY <1>1, PathsAre
<1> QED
  BY <1>2, <1>4, <1>5 DEF Forks

LEMMA WithLeafTidy ==
    ASSUME NEW p \in Paths, NEW es \in Manifests, Tidy(p, es), NEW key \in Words,
           NEW v \in Values, NEW i, i = Sharing(es, key),
           ~GoesDown(es, i, key), ~Splits(es, i, key),
           key = <<>> => \A j \in 1..Len(es) : es[j].name # <<>>
    PROVE  Tidy(p, WithLeaf(es, i, key, v))
<1>1. PICK m : m = WithLeaf(es, i, key, v)
  OBVIOUS
<1>2. Sorted(m) /\ \A x : Contains(m, x) => x = Leaf(key, v) \/ Contains(es, x)
  BY <1>1, WithLeafIs DEF Tidy
<1>3. Leaf(key, v).kind = "leaf"
  BY DEF Leaf
<1> QED
  BY <1>1, <1>2, <1>3 DEF Tidy

LEMMA RemovedTidy ==
    ASSUME NEW p \in Paths, NEW es \in Manifests, Tidy(p, es), NEW i \in 1..Len(es)
    PROVE  Tidy(p, RemoveAt(es, i))
<1>1. PICK m : m = RemoveAt(es, i)
  OBVIOUS
<1> QED
  BY <1>1, RemovedIs DEF Tidy

LEMMA SplitTidy ==
    ASSUME NEW p \in Paths, NEW es \in Manifests, Spells(p, es), Tidy(p, es), NEW key \in Words,
           p \o key \in Keys, NEW v \in Values, NEW i, i = Sharing(es, key), Splits(es, i, key),
           NEW c, c = CommonPrefix(es[i].name, key)
    PROVE  Tidy(p \o c, SplitChild(es, i, key, v)) /\ Tidy(p, SplitParent(es, i, key))
<1>1. PICK e : e = es[i]
  OBVIOUS
<1>2. PICK child : child = SplitChild(es, i, key, v)
  OBVIOUS
<1>3. PICK parent : parent = SplitParent(es, i, key)
  OBVIOUS
<1>4. /\ i \in 1..Len(es) /\ e \in Entry
      /\ c \in Words /\ c # <<>> /\ IsPrefix(c, key) /\ IsPrefix(c, e.name)
      /\ Sorted(child)
      /\ \A x : Contains(parent, x) => x = Branch(c) \/ Contains(es, x)
      /\ Sorted(parent)
      /\ \E d \in Entry :
            /\ d.kind = e.kind /\ d.name = After(e.name, c) /\ d.value = e.value
            /\ \A x : Contains(child, x) <=> x = Leaf(After(key, c), v) \/ x = d
  BY <1>1, <1>2, <1>3, SplitIs DEF Tidy
<1>5. PICK d \in Entry :
         /\ d.kind = e.kind /\ d.name = After(e.name, c) /\ d.value = e.value
         /\ \A x : Contains(child, x) <=> x = Leaf(After(key, c), v) \/ x = d
  BY <1>4
<1>6. PICK n \in Words : n = e.name
  BY <1>4, EntryIs
<1>7. p \in Words /\ p \o n \in Words /\ p \o key \in Words /\ p \o c \in Words
  BY <1>4, <1>6, PathsAre, ConcatIs
<1>8. PICK b \in Words : b = After(n, c) /\ c \o b = n
  BY ZenonT(40), <1>4, <1>6, AfterIs, PrefixAndAfter
<1>9. (p \o c) \o b = p \o n
  <2>1. (p \o c) \o b = p \o (c \o b)
    <3>1. p \in Words /\ c \in Words /\ b \in Words
      BY <1>4, <1>7
    <3> QED
      BY <3>1, ConcatThrice, SMTT(30)
  <2> QED
    BY <1>8, <2>1
<1>10. Contains(es, e) /\ IsEntry(p, e)
  <2>1. Contains(es, e)
    BY <1>1, <1>4 DEF Contains
  <2> QED
    BY <1>4, <2>1 DEF Spells
<1>11. e.kind = "branch" => p \o n \in Forks
  BY <1>4, <1>6, <1>10 DEF Tidy
<1>12. Tidy(p \o c, child)
  <2>1. ASSUME NEW x \in Entry, Contains(child, x), x.kind = "branch"
        PROVE  (p \o c) \o x.name \in Forks
    <3>1. Leaf(After(key, c), v).kind = "leaf"
      BY DEF Leaf
    <3>2. x = d
      BY <1>5, <2>1, <3>1
    <3> QED
      BY <1>5, <1>6, <1>8, <1>9, <1>11, <2>1, <3>2
  <2> QED
    BY <1>4, <2>1 DEF Tidy
<1>13. p \o c \in Forks
  <2>1. IsPrefix(p \o c, p \o n)
    BY <1>7, <1>8, <1>9, ConcatHasPrefix
  <2>2. CASE e.kind = "branch"
    BY <1>7, <1>11, <2>1, <2>2, ForkAbove
  <2>3. CASE e.kind = "leaf"
    <3>1. p \o n \in Keys
      BY <1>6, <1>10, <2>3 DEF IsEntry
    <3>2. n # key
      <4>1. SUFFICES ASSUME n = key PROVE FALSE
        OBVIOUS
      <4>2. e = Leaf(key, e.value)
        BY <1>4, <1>6, <2>3, <4>1, EntryIs
      <4> QED
        BY <1>1, <4>2 DEF Splits
    <3>3. p \o n # p \o key
      <4>1. After(p \o n, p) = n /\ After(p \o key, p) = key
        BY <1>7, ConcatHasPrefix
      <4> QED
        BY <3>2, <4>1
    <3>4. PICK a \in Words : a = After(key, c) /\ c \o a = key
      BY ZenonT(40), <1>4, AfterIs, PrefixAndAfter
    <3>5. (p \o c) \o a = p \o key
      <4>1. p \in Words /\ c \in Words /\ a \in Words
        BY <1>4, <1>7, <3>4
      <4>2. (p \o c) \o a = p \o (c \o a)
        BY <4>1, ConcatThrice, SMTT(30)
      <4> QED
        BY <3>4, <4>2
    <3>6. IsPrefix(p \o c, p \o key)
      BY <1>7, <3>4, <3>5, ConcatHasPrefix
    <3>7. p \o c \in Paths
      BY <1>7, <3>6, PathsAre
    <3> QED
      BY <2>1, <3>1, <3>3, <3>6, <3>7 DEF Forks
  <2> QED
    BY <1>4, <2>2, <2>3, EntryIs
<1>14. Tidy(p, parent)
  <2>1. ASSUME NEW x \in Entry, Contains(parent, x), x.kind = "branch"
        PROVE  p \o x.name \in Forks
    <3>1. CASE x = Branch(c)
      BY <1>13, <3>1 DEF Branch
    <3>2. CASE Contains(es, x)
      BY <2>1, <3>2 DEF Tidy
    <3> QED
      BY <1>4, <2>1, <3>1, <3>2
  <2> QED
    BY <1>4, <2>1 DEF Tidy
<1> QED
  BY <1>2, <1>3, <1>12, <1>14

LEMMA OneTidyStore ==
    ASSUME NEW p, NEW m, Tidy(p, m)
    PROVE  TidyStores(<<[path |-> p, entries |-> m]>>)
<1>1. PICK w : w = [path |-> p, entries |-> m]
  OBVIOUS
<1>2. Tidy(w.path, w.entries) /\ Len(<<w>>) = 1 /\ <<w>>[1] = w
  BY <1>1
<1>3. TidyStores(<<w>>)
  BY <1>2 DEF TidyStores
<1> QED
  BY <1>1, <1>3

LEMMA PutManifestsTidy ==
    ASSUME NEW p \in Paths, NEW es \in Manifests, Spells(p, es), Tidy(p, es), NEW key \in Words,
           p \o key \in Keys, NEW v \in Values, NEW i, i = Sharing(es, key),
           ~GoesDown(es, i, key),
           key = <<>> => \A j \in 1..Len(es) : es[j].name # <<>>
    PROVE  TidyStores(PutManifests(p, es, i, key, v))
<1>1. CASE Splits(es, i, key)
  <2>1. PICK c : c = CommonPrefix(es[i].name, key)
    OBVIOUS
  <2>2. PICK w : w = [path |-> p \o c, entries |-> SplitChild(es, i, key, v)]
    OBVIOUS
  <2>3. PICK u : u = [path |-> p, entries |-> SplitParent(es, i, key)]
    OBVIOUS
  <2>4. Tidy(w.path, w.entries) /\ Tidy(u.path, u.entries)
    BY <1>1, <2>1, <2>2, <2>3, SplitTidy
  <2>5. PutManifests(p, es, i, key, v) = <<w, u>>
    BY <1>1, <2>1, <2>2, <2>3 DEF PutManifests
  <2>6. Len(<<w, u>>) = 2 /\ <<w, u>>[1] = w /\ <<w, u>>[2] = u
    OBVIOUS
  <2>7. TidyStores(<<w, u>>)
    BY <2>4, <2>6 DEF TidyStores
  <2> QED
    BY <2>5, <2>7
<1>2. CASE ~Splits(es, i, key)
  <2>1. Tidy(p, WithLeaf(es, i, key, v))
    BY <1>2, WithLeafTidy
  <2> QED
    BY <1>2, <2>1, OneTidyStore DEF PutManifests
<1> QED
  BY <1>1, <1>2

LEMMA NothingTidy == TidyStores(<<>>) /\ Idle.todo = <<>>
<1>1. Len(<<>>) = 0
  OBVIOUS
<1> QED
  BY <1>1, IdleTyped DEF TidyStores

LEMMA putReadTidy ==
    ASSUME Sound, Kept, Tidied, NEW c \in Writers, putRead(c)
    PROVE  feed' = feed /\ \E y : Becomes(c, y) /\ TidyStores(y.todo)
<1>1. PICK x \in Calls : /\ x = call[c] /\ x.op = "put" /\ x.todo = <<>> /\ x.key \in Keys
                         /\ Fits(feed, x) /\ CallTyped(c, x)
  BY putReadDoes, ClientsAre DEF Sound, CallsTyped, CallTyped, Kept
<1>2. PICK es : es = feed[x.path]
  OBVIOUS
<1>3. PICK i : i = Sharing(es, x.rest)
  OBVIOUS
<1>4. PICK t : t = PutManifests(x.path, es, i, x.rest, x.value)
  OBVIOUS
<1>5. /\ feed' = feed
      /\ \/ Becomes(c, Idle)
         \/ /\ es # Absent /\ GoesDown(es, i, x.rest) /\ i \in 1..Len(es)
            /\ Becomes(c, Moved(x, es[i].name))
         \/ /\ es # Absent /\ ~GoesDown(es, i, x.rest)
            /\ Becomes(c, [x EXCEPT !.todo = t])
  BY <1>1, <1>2, <1>3, <1>4, putReadDoes DEF Becomes
<1>6. CASE Becomes(c, Idle)
  BY <1>5, <1>6, NothingTidy
<1>7. CASE Becomes(c, Moved(x, es[i].name))
  <2>1. PICK y : y = Moved(x, es[i].name)
    OBVIOUS
  <2>2. y.todo = <<>>
    BY <1>1, <2>1, MovedIs
  <2> QED
    BY <1>5, <1>7, <2>1, <2>2, NothingTidy
<1>8. CASE es # Absent /\ ~GoesDown(es, i, x.rest) /\ Becomes(c, [x EXCEPT !.todo = t])
  <2>1. PICK p \in Paths : p = x.path
    BY <1>1 DEF Calls
  <2>2. PICK a \in Words : a = x.rest
    BY <1>1 DEF Calls
  <2>3. PICK k \in Keys : k = x.key
    BY <1>1
  <2>4. PICK v \in Values : v = x.value
    BY <1>1 DEF CallTyped
  <2>5. p \o a = k /\ p \in Words
    BY <1>1, <2>1, <2>2, <2>3, PathsAre DEF CallTyped
  <2>6. es \in Manifests /\ Spells(p, es) /\ Tidy(p, es)
    BY <1>2, <1>8, <2>1, ManifestThere DEF Sound, Tidied
  <2>7. Walked(feed, p) /\ NoEmptyName(feed, k)
    BY <1>1, <2>1, <2>3 DEF Fits, OnTheWay
  <2>8. a = <<>> => \A j \in 1..Len(es) : es[j].name # <<>>
    <3>1. a = <<>> => p = k
      BY <2>5, ConcatEmptySeq DEF Words
    <3> QED
      BY <1>2, <1>8, <2>1, <2>7, <3>1 DEF NoEmptyName
  <2>9. TidyStores(t)
    <3>1. i = Sharing(es, a) /\ ~GoesDown(es, i, a) /\ t = PutManifests(p, es, i, a, v)
      BY <1>3, <1>4, <1>8, <2>1, <2>2, <2>4
    <3> QED
      BY <2>5, <2>6, <2>8, <3>1, PutManifestsTidy
  <2>10. PICK y : y = [x EXCEPT !.todo = t]
    OBVIOUS
  <2>11. y.todo = t
    BY <2>10 DEF Calls
  <2> QED
    BY <1>5, <1>8, <2>9, <2>10, <2>11
<1> QED
  BY <1>5, <1>6, <1>7, <1>8

LEMMA deleteReadTidy ==
    ASSUME Sound, Tidied, NEW c \in Writers, deleteRead(c)
    PROVE  feed' = feed /\ \E y : Becomes(c, y) /\ TidyStores(y.todo)
<1>1. PICK x \in Calls : x = call[c] /\ x.todo = <<>>
  BY deleteReadDoes
<1>2. PICK es : es = feed[x.path]
  OBVIOUS
<1>3. PICK i : i = Find(es, x.rest)
  OBVIOUS
<1>4. PICK t : t = <<[path |-> x.path, entries |-> RemoveAt(es, i)]>>
  OBVIOUS
<1>5. /\ feed' = feed
      /\ \/ Becomes(c, Idle)
         \/ /\ es # Absent /\ i \in 1..Len(es) /\ Leads(es[i], x.rest)
            /\ Becomes(c, Moved(x, es[i].name))
         \/ /\ es # Absent /\ es \in Manifests /\ i \in 1..Len(es) /\ IsKey(es[i], x.rest)
            /\ Becomes(c, [x EXCEPT !.todo = t])
  BY <1>1, <1>2, <1>3, <1>4, deleteReadDoes DEF Becomes
<1>6. CASE Becomes(c, Idle)
  BY <1>5, <1>6, NothingTidy
<1>7. CASE Becomes(c, Moved(x, es[i].name))
  <2>1. PICK y : y = Moved(x, es[i].name)
    OBVIOUS
  <2>2. y.todo = <<>>
    BY <1>1, <2>1, MovedIs
  <2> QED
    BY <1>5, <1>7, <2>1, <2>2, NothingTidy
<1>8. CASE /\ es # Absent /\ es \in Manifests /\ i \in 1..Len(es)
           /\ Becomes(c, [x EXCEPT !.todo = t])
  <2>1. PICK p \in Paths : p = x.path
    BY <1>1 DEF Calls
  <2>2. Tidy(p, es)
    BY <1>2, <1>8, <2>1 DEF Tidied
  <2>3. Tidy(p, RemoveAt(es, i))
    BY <1>8, <2>2, RemovedTidy
  <2>4. TidyStores(t)
    BY <1>4, <2>1, <2>3, OneTidyStore
  <2>5. PICK y : y = [x EXCEPT !.todo = t]
    OBVIOUS
  <2>6. y.todo = t
    BY <2>5 DEF Calls
  <2> QED
    BY <1>5, <1>8, <2>4, <2>5, <2>6
<1> QED
  BY <1>5, <1>6, <1>7, <1>8

LEMMA TidyParts ==
    ASSUME NEW t \in Seq(Stores), t # <<>>, TidyStores(t)
    PROVE  Tidy(Head(t).path, Head(t).entries) /\ TidyStores(Tail(t))
<1>1. Len(t) \in Nat \ {0}
  BY EmptySeq
<1>2. /\ Len(Tail(t)) = Len(t) - 1
      /\ \A j \in 1..Len(Tail(t)) : Tail(t)[j] = t[j + 1]
  BY HeadTailProperties
<1>3. Head(t) = t[1]
  OBVIOUS
<1>4. 1 \in 1..Len(t) /\ \A j \in 1..Len(Tail(t)) : j + 1 \in 1..Len(t)
  BY <1>1, <1>2
<1> QED
  BY <1>1, <1>2, <1>3, <1>4 DEF TidyStores

LEMMA storeTidy ==
    ASSUME Sound, Tidied, NEW c \in Writers, NEW ok \in BOOLEAN, store(c, ok)
    PROVE  /\ \A p \in Paths : feed'[p] # Absent => Tidy(p, feed'[p])
           /\ \E y : Becomes(c, y) /\ TidyStores(y.todo)
<1>1. PICK x \in Calls : x = call[c] /\ x.todo # <<>>
  BY storeDoes
<1>2. PICK w : w = Head(x.todo)
  OBVIOUS
<1>3. /\ w \in Stores
      /\ ok => Stored(feed, feed', w.path, w.entries)
      /\ ~ok => feed' = feed
      /\ \/ Becomes(c, Idle)
         \/ Becomes(c, [x EXCEPT !.todo = Tail(x.todo)])
  BY <1>1, <1>2, storeDoes DEF Becomes
<1>4. x.todo \in Seq(Stores)
  BY DEF Calls
<1>5. Tidy(w.path, w.entries) /\ TidyStores(Tail(x.todo))
  BY <1>1, <1>2, <1>4, TidyParts DEF Tidied
<1>6. \A p \in Paths : feed'[p] # Absent => Tidy(p, feed'[p])
  BY <1>3, <1>5 DEF Stored, Tidied
<1>7. [x EXCEPT !.todo = Tail(x.todo)].todo = Tail(x.todo)
  BY DEF Calls
<1> QED
  BY <1>3, <1>5, <1>6, <1>7, NothingTidy

LEMMA WritesTidy ==
    ASSUME Sound, Kept, Tidied, NEW c \in Writers, Writes(c) \/ DeleteKVTable(c)
    PROVE  /\ \A p \in Paths : feed'[p] # Absent => Tidy(p, feed'[p])
           /\ \E y : Becomes(c, y) /\ TidyStores(y.todo)
<1>1. \A p \in Paths : feed[p] # Absent => Tidy(p, feed[p])
  BY DEF Tidied
<1>2. \A op, k, v : NewCall(op, k, v, k).todo = <<>>
  BY DEF NewCall
<1>3. CASE CreateKVTable(c)
  <2>1. Stored(feed, feed', <<>>, <<>>) /\ Becomes(c, NewCall("create", <<>>, None, <<>>))
    BY <1>3, CreateDoes
  <2>2. Tidy(<<>>, <<>>)
    BY EmptyManifest DEF Tidy
  <2> QED
    BY <1>1, <1>2, <2>1, <2>2, NothingTidy DEF Stored
<1>4. CASE DeleteKVTable(c)
  <2>1. /\ Stored(feed, feed', <<>>, Absent)
        /\ Becomes(c, NewCall("drop", <<>>, None, <<>>))
    BY <1>4, DropDoes
  <2> QED
    BY <1>1, <1>2, <2>1, NothingTidy DEF Stored
<1>5. CASE \E k \in Keys : KVDelete(c, k)
  BY <1>1, <1>2, <1>5, KVDeleteDoes, NothingTidy
<1>6. CASE \E k \in Keys : \E v \in Values : KVPut(c, k, v)
  BY <1>1, <1>2, <1>6, KVPutDoes, NothingTidy
<1>7. CASE putRead(c)
  BY <1>1, <1>7, putReadTidy
<1>8. CASE deleteRead(c)
  BY <1>1, <1>8, deleteReadTidy
<1>9. CASE \E ok \in BOOLEAN : store(c, ok)
  BY <1>9, storeTidy
<1>10. CASE \E ok \in BOOLEAN : storeKVTables(c, ok)
  <2>1. feed' = feed /\ Becomes(c, Idle)
    BY <1>10, EndDoes, ClientsAre DEF storeKVTables
  <2> QED
    BY <1>1, <2>1, NothingTidy
<1> QED
  BY <1>3, <1>4, <1>5, <1>6, <1>7, <1>8, <1>9, <1>10 DEF Writes

LEMMA TidiedInit == Init => Tidied
<1> SUFFICES ASSUME Init PROVE Tidied
  OBVIOUS
<1>1. \A c \in Writers : call[c] = Idle
  BY ClientsAre DEF Init
<1> QED
  BY <1>1, NothingTidy DEF Init, Tidied

LEMMA TidiedStep ==
    ASSUME Sound, Kept, Tidied, [Next]_vars
    PROVE  Tidied'
<1>1. CASE UNCHANGED vars
  BY <1>1 DEF Tidied, vars
<1>2. CASE Next
  <2>1. ASSUME NEW c \in Writers, Writes(c) \/ DeleteKVTable(c)
        PROVE  Tidied'
    <3>1. PICK y : Becomes(c, y) /\ TidyStores(y.todo)
      BY <2>1, WritesTidy
    <3>2. \A p \in Paths : feed'[p] # Absent => Tidy(p, feed'[p])
      BY <2>1, WritesTidy
    <3>3. call'[c] = y /\ \A d \in Clients : d # c => call'[d] = call[d]
      BY <3>1, BecomesIs, ClientsAre
    <3>4. ASSUME NEW d \in Writers
          PROVE  TidyStores(call'[d].todo)
      BY <3>1, <3>3, ClientsAre DEF Tidied
    <3> QED
      BY <3>2, <3>4 DEF Tidied
  <2>2. ASSUME NEW r \in Readers, Reads(r)
        PROVE  Tidied'
    <3>1. PICK x : feed' = feed /\ Becomes(r, x)
      BY <2>2, ReadsDo
    <3>2. \A d \in Writers : call'[d] = call[d]
      BY <3>1, BecomesIs, ClientsAre
    <3> QED
      BY <3>1, <3>2 DEF Tidied
  <2>3. OpenKVTable => Tidied'
    BY DEF OpenKVTable, Tidied
  <2>4. Crash => Tidied'
    BY CrashDoes, ClientsAre, NothingTidy DEF Tidied
  <2> QED
    BY <1>2, <2>1, <2>2, <2>3, <2>4, StepsAre
<1> QED
  BY <1>1, <1>2

-----------------------------------------------------------------------------
\* What a seek finds.

\* The entry at which a seek stops is not before the key.
LEMMA StopsFromStart ==
    ASSUME NEW e \in Entry, NEW key \in Words, Stops(e, key)
    PROVE  ~Less(e.name, key)
<1>1. e.name \in Words
  BY EntryIs
<1>2. CASE Beyond(e, key)
  <2>1. CASE key = <<>>
    BY <1>1, <2>1, EmptyIsLeast
  <2>2. CASE key # <<>>
    <3>1. Less(key, e.name)
      BY <1>1, <1>2, <2>2, LessByLetter DEF Beyond
    <3> QED
      BY <1>1, <3>1, NotLessTwice
  <2> QED
    BY <2>1, <2>2
<1>3. CASE e.name = key
  BY <1>3, LessItself
<1>4. CASE Less(key, e.name)
  BY <1>1, <1>4, NotLessTwice
<1> QED
  BY <1>2, <1>3, <1>4 DEF Stops

\* The entries after the one that a seek enters are behind the key.
LEMMA EntersThen ==
    ASSUME NEW es \in Manifests, Sorted(es), NEW i \in 1..Len(es), NEW j \in 1..Len(es), i < j,
           NEW key \in Words, Enters(es[i], key), es[i].name # <<>>
    PROVE  Less(key, es[j].name)
<1>1. es[i].name \in Words /\ es[j].name \in Words
  BY ManifestIs, EntryIs
<1>2. CASE IsPrefix(es[i].name, key)
  <2>1. key # <<>> /\ key[1] = es[i].name[1]
    BY <1>1, <1>2, FirstLetter
  <2> QED
    BY <2>1, NamesInOrder
<1>3. CASE Less(key, es[i].name)
  BY <1>1, <1>3, NamesInOrder, LessTwice
<1> QED
  BY <1>2, <1>3 DEF Enters

\* The seek for key is on its way to it at p, with the rest of the key, or has
\* come by a branch that lies behind it.
Heads(key, p, rest) == (IsPrefix(p, key) /\ rest = After(key, p)) \/ Less(key, p)

\* Where a seek stops, and after what it enters, nothing is before the key.
LEMMA FoundFromStart ==
    ASSUME NEW p \in Paths, NEW es \in Manifests, Spells(p, es), Sorted(es),
           NEW key \in Words, NEW rest \in Words, Heads(key, p, rest),
           NEW i \in 1..Len(es), NEW j \in 1..Len(es),
           \/ i = j /\ Stops(es[i], rest)
           \/ i < j /\ (Stops(es[i], rest) \/ Enters(es[i], rest))
    PROVE  ~Less(p \o es[j].name, key)
<1>1. PICK m \in Words : m = es[j].name
  BY PlaceIs
<1>2. p \in Words /\ p \o m \in Words
  BY PathsAre, ConcatIs
<1>3. CASE Less(key, p)
  <2>1. IsPrefix(p, p \o m)
    BY <1>2, ConcatHasPrefix
  <2>2. Less(key, p \o m)
    BY <1>2, <1>3, <2>1, LessThanLonger
  <2> QED
    BY <1>1, <1>2, <2>2, NotLessTwice
<1>4. CASE IsPrefix(p, key) /\ rest = After(key, p)
  <2>1. p \o rest = key
    BY <1>2, <1>4, PrefixAndAfter
  <2>2. ~Less(m, rest)
    <3>1. CASE Stops(es[i], rest)
      <4>1. PICK e \in Entry : e = es[i]
        BY PlaceIs
      <4>2. ~Less(e.name, rest) /\ e.name \in Words
        BY <3>1, <4>1, StopsFromStart, EntryIs
      <4>3. i < j => Less(e.name, m)
        BY <1>1, <4>1, NamesInOrder
      <4> QED
        BY <1>1, <4>1, <4>2, <4>3, LessTwice
    <3>2. CASE i < j /\ Enters(es[i], rest)
      <4>1. es[i].name # <<>>
        BY <3>2, PlaceIs DEF Enters
      <4>2. Less(rest, m)
        BY <1>1, <3>2, <4>1, EntersThen
      <4> QED
        BY <4>2, NotLessTwice
    <3> QED
      BY <3>1, <3>2
  <2>3. ~Less(p \o m, p \o rest)
    BY <1>2, <2>2, LessBehind
  <2> QED
    BY <1>1, <2>1, <2>3
<1> QED
  BY <1>3, <1>4 DEF Heads

\* Where a seek goes on.
LEMMA HeadsOn ==
    ASSUME NEW p \in Paths, NEW n \in Words, p \o n \in Paths, NEW key \in Words,
           NEW rest \in Words, Heads(key, p, rest), IsPrefix(n, rest) \/ Less(rest, n)
    PROVE  Heads(key, p \o n, After(rest, n))
<1>1. p \in Words /\ p \o n \in Words /\ IsPrefix(p, p \o n)
  BY PathsAre, ConcatHasPrefix
<1>2. CASE Less(key, p)
  BY <1>1, <1>2, LessThanLonger DEF Heads
<1>3. CASE IsPrefix(p, key) /\ rest = After(key, p) /\ IsPrefix(n, rest)
  BY <1>1, <1>3, AfterTwice DEF Heads
<1>4. CASE IsPrefix(p, key) /\ rest = After(key, p) /\ Less(rest, n)
  <2>1. p \o rest = key
    BY <1>1, <1>4, PrefixAndAfter
  <2>2. Less(p \o rest, p \o n)
    BY <1>1, <1>4, LessBehind
  <2> QED
    BY <2>1, <2>2 DEF Heads
<1> QED
  BY <1>2, <1>3, <1>4 DEF Heads

\* A level with a manifest from one of its entries on.
PieceOf(lv, p, es, m) ==
    /\ lv \in Levels /\ lv.path = p /\ Spells(p, lv.left) /\ Sorted(lv.left)
    /\ \A a \in 1..Len(lv.left) : \E j \in 1..Len(es) : j >= m /\ lv.left[a] = es[j]
    /\ \A j \in 1..Len(es) : j >= m => \E a \in 1..Len(lv.left) : lv.left[a] = es[j]

LEMMA PieceLevel ==
    ASSUME NEW p \in Paths, NEW es \in Manifests, Spells(p, es), Sorted(es),
           NEW m \in 1..(Len(es) + 1), NEW lv, lv = Level(p, SubSeq(es, m, Len(es)))
    PROVE  PieceOf(lv, p, es, m)
<1>1. PICK n \in Nat : n = Len(es)
  BY ManifestIs
<1>2. PICK t : t = SubSeq(es, m, n)
  OBVIOUS
<1>3. m \in Nat /\ m >= 1 /\ m <= n + 1
  BY <1>1
<1>4. /\ t \in Manifests
      /\ Len(t) = IF m <= n THEN n - m + 1 ELSE 0
      /\ \A a \in 1..(n - m + 1) : t[a] = es[m + a - 1]
  BY <1>1, <1>2, <1>3, PieceIs
<1>5. Len(t) = n - m + 1
  BY <1>3, <1>4
<1>6. lv = [path |-> p, left |-> t]
  BY <1>1, <1>2 DEF Level
<1>7. ASSUME NEW a \in 1..Len(t)
      PROVE  m + a - 1 \in 1..n /\ m + a - 1 >= m /\ t[a] = es[m + a - 1]
  BY <1>3, <1>4, <1>5
<1>8. ASSUME NEW j \in 1..n, j >= m
      PROVE  \E a \in 1..Len(t) : t[a] = es[j]
  <2>1. PICK a \in 1..Len(t) : j = m + a - 1
    <3>1. j - m + 1 \in 1..Len(t) /\ j = m + (j - m + 1) - 1
      BY <1>3, <1>5, <1>8
    <3> QED
      BY <3>1
  <2> QED
    BY <1>7, <2>1
<1>9. Sorted(t)
  <2>1. SUFFICES ASSUME NEW a \in 1..Len(t), NEW b \in 1..Len(t), a < b
                 PROVE  Letter(t[a]) < Letter(t[b])
    BY DEF Sorted
  <2>2. m + a - 1 < m + b - 1
    BY <1>3, <1>5, <2>1
  <2> QED
    BY <1>1, <1>7, <2>2 DEF Sorted
<1>10. Spells(p, t)
  <2>1. \A e : Contains(t, e) => Contains(es, e)
    BY <1>1, <1>7 DEF Contains
  <2> QED
    BY <2>1 DEF Spells
<1>11. lv \in Levels /\ lv.path = p /\ lv.left = t
  BY <1>4, <1>6 DEF Levels
<1>12. \A a \in 1..Len(lv.left) : \E j \in 1..Len(es) : j >= m /\ lv.left[a] = es[j]
  BY <1>1, <1>7, <1>11
<1>13. \A j \in 1..Len(es) : j >= m => \E a \in 1..Len(lv.left) : lv.left[a] = es[j]
  BY <1>1, <1>8, <1>11
<1> QED
  BY <1>9, <1>10, <1>11, <1>12, <1>13 DEF PieceOf

-----------------------------------------------------------------------------
\* The steps of seeks and of KVGetNext.

Iterators == [start: Words, stack: Seq(Levels), last: Words, done: BOOLEAN]

\* An iterator that a seek makes.
Fresh(key, stack) == [start |-> key, stack |-> stack, last |-> <<>>, done |-> FALSE]

\* The seek x goes on in the manifest of es[i].
GoesOn(x, es, i, y) ==
    /\ y \in Calls /\ y.op = "seek" /\ y.key = x.key
    /\ y.path = x.path \o es[i].name /\ y.rest = After(x.rest, es[i].name)
    /\ y.stack = Append(x.stack, Level(x.path, SubSeq(es, i + 1, Len(es))))

\* The ways in which seekStringKey goes on from one manifest.
Fails(r) == Becomes(r, Idle) /\ itr' = itr
StartsAll(r, x, es) ==
    /\ x.key = <<>> /\ Becomes(r, Idle) /\ itr' = Fresh(x.key, <<Level(x.path, es)>>)
PassesAll(r, x, es) ==
    /\ x.key # <<>> /\ SeekIndex(es, x.rest) = 0
    /\ x.stack # <<>> /\ Becomes(r, Idle) /\ itr' = Fresh(x.key, x.stack)
StopsAt(r, x, es, i) ==
    /\ x.key # <<>> /\ i \in 1..Len(es) /\ i = SeekIndex(es, x.rest) /\ Stops(es[i], x.rest)
    /\ Becomes(r, Idle)
    /\ itr' = Fresh(x.key, Append(x.stack, Level(x.path, SubSeq(es, i, Len(es)))))
GoesDownAt(r, x, es, i) ==
    /\ x.key # <<>> /\ i \in 1..Len(es) /\ i = SeekIndex(es, x.rest)
    /\ ~Stops(es[i], x.rest) /\ Enters(es[i], x.rest)
    /\ itr' = itr
    /\ \E y : Becomes(r, y) /\ GoesOn(x, es, i, y)

LEMMA seekReadIs ==
    ASSUME Sound, NEW r \in Readers, seekRead(r), NEW x, x = call[r], NEW es, es = feed[x.path]
    PROVE  /\ feed' = feed /\ x \in Calls /\ x.op = "seek"
           /\ \/ Fails(r)
              \/ /\ es # Absent /\ es \in Manifests /\ Spells(x.path, es)
                 /\ \/ StartsAll(r, x, es)
                    \/ PassesAll(r, x, es)
                    \/ \E i : StopsAt(r, x, es, i)
                    \/ \E i : GoesDownAt(r, x, es, i)
<1>1. PICK i : i = SeekIndex(es, x.rest)
  OBVIOUS
<1>2. PICK p \in Paths : p = x.path
  BY ClientsAre DEF Sound, CallsTyped, Calls
<1>3. r \in Clients /\ CallTyped(r, x) /\ x \in Calls /\ x.rest \in Words /\ x.stack \in Seq(Levels)
  BY ClientsAre DEF Sound, CallsTyped, CallTyped, Calls
<1>4. x.op = "seek" /\ feed' = feed
  BY DEF seekRead
<1>5. es # Absent => es \in Manifests /\ Spells(p, es)
  BY <1>2, ManifestThere DEF Sound
<1>6. \/ End(r) /\ itr' = itr
      \/ es # Absent /\ x.key = <<>> /\ Iterate(r, <<Level(p, es)>>)
      \/ es # Absent /\ x.key # <<>> /\ i = 0 /\ x.stack # <<>> /\ Iterate(r, x.stack)
      \/ /\ es # Absent /\ x.key # <<>> /\ i # 0 /\ Stops(es[i], x.rest)
         /\ Iterate(r, Append(x.stack, Level(p, SubSeq(es, i, Len(es)))))
      \/ /\ es # Absent /\ x.key # <<>> /\ i # 0 /\ ~Stops(es[i], x.rest)
         /\ call' = [call EXCEPT
              ![r].path = @ \o es[i].name,
              ![r].rest = After(@, es[i].name),
              ![r].stack = Append(@, Level(p, SubSeq(es, i + 1, Len(es))))]
         /\ itr' = itr
  BY <1>1, <1>2 DEF seekRead
<1>7. ASSUME NEW stack, Iterate(r, stack)
      PROVE  Becomes(r, Idle) /\ itr' = Fresh(x.key, stack)
  BY <1>7 DEF Iterate, End, Becomes, Fresh
<1>8. End(r) => Becomes(r, Idle)
  BY DEF End, Becomes
<1>9. es # Absent /\ i # 0 => i \in 1..Len(es) /\ (Stops(es[i], x.rest) \/ Enters(es[i], x.rest))
  BY <1>1, <1>5, SeekIndexIs
<1>10. CASE /\ es # Absent /\ x.key # <<>> /\ i # 0 /\ ~Stops(es[i], x.rest)
            /\ call' = [call EXCEPT
                 ![r].path = @ \o es[i].name,
                 ![r].rest = After(@, es[i].name),
                 ![r].stack = Append(@, Level(p, SubSeq(es, i + 1, Len(es))))]
            /\ itr' = itr
  <2>1. es[i].kind = "branch" /\ i \in 1..Len(es) /\ Enters(es[i], x.rest)
    BY <1>9, <1>10 DEF Enters
  <2>2. PICK n \in Words : n = es[i].name /\ p \o n \in Paths
    <3>1. es \in Manifests /\ Spells(p, es)
      BY <1>5, <1>10
    <3> QED
      BY <2>1, <3>1, PlaceIs
  <2>3. PICK lv \in Levels : lv = Level(p, SubSeq(es, i + 1, Len(es)))
    <3>1. PICK j \in Nat : j = i + 1 /\ j >= 1
      BY SMTT(40), <1>5, <1>10, <2>1, ManifestIs
    <3>2. PICK h \in Nat : h = Len(es) /\ h <= Len(es)
      BY SMTT(40), <1>5, <1>10, ManifestIs
    <3>3. SubSeq(es, j, h) \in Manifests
      BY <1>5, <1>10, <3>1, <3>2, PieceIs
    <3> QED
      BY <1>2, <3>1, <3>2, <3>3 DEF Levels, Level
  <2>4. PICK s \in Seq(Levels) : s = Append(x.stack, lv)
    BY <1>3, AppendProperties
  <2>5. PICK a \in Words : a = After(x.rest, n)
    BY <1>3, AfterIs
  <2>6. PICK q \in Paths : q = p \o n
    BY <2>2
  <2>7. PICK y : y = [x EXCEPT !.path = q, !.rest = a, !.stack = s]
    OBVIOUS
  <2>8. /\ y \in Calls /\ y.op = x.op /\ y.key = x.key /\ y.path = q /\ y.rest = a
        /\ y.stack = s
    BY <1>3, <2>7 DEF Calls
  <2>9. call' = [call EXCEPT ![r] = y]
    <3>1. call' = [call EXCEPT ![r].path = @ \o n, ![r].rest = After(@, n), ![r].stack = s]
      BY <1>3, <1>10, <2>2, <2>3, <2>4 DEF Sound, CallsTyped
    <3>2. y = [x EXCEPT !.path = @ \o n, !.rest = After(@, n), !.stack = s]
      BY <1>2, <1>3, <2>5, <2>6, <2>7 DEF Calls
    <3> QED
      BY <1>3, <3>1, <3>2 DEF Sound, CallsTyped, Calls
  <2>10. GoesOn(x, es, i, y)
    BY <1>2, <1>4, <2>2, <2>3, <2>4, <2>5, <2>6, <2>8 DEF GoesOn
  <2> QED
    BY <1>1, <1>2, <1>3, <1>4, <1>5, <1>10, <2>1, <2>9, <2>10 DEF GoesDownAt, Becomes
<1> QED
  BY <1>1, <1>2, <1>3, <1>4, <1>5, <1>6, <1>7, <1>8, <1>9, <1>10
     DEF Fails, StartsAll, PassesAll, StopsAt

\* The ways in which nextStringKey goes on: it ends, it gives out the leaf e, or
\* it comes to the manifest of the branch e.
EndsIteration(r) == itr' = [itr EXCEPT !.done = TRUE] /\ Becomes(r, Idle)
GivesOut(r, e, lv, below) ==
    /\ e.kind = "leaf" /\ Becomes(r, Idle)
    /\ itr' = [itr EXCEPT !.stack = Append(below, lv), !.last = lv.path \o e.name]
ComesToBranch(r, e, lv, below) ==
    /\ e.kind = "branch" /\ feed[lv.path \o e.name] # Absent
    /\ itr' = [itr EXCEPT !.stack = Append(Append(below, lv),
                                     Level(lv.path \o e.name, feed[lv.path \o e.name]))]
    /\ \E x : Becomes(r, x) /\ x.op = "next"

LEMMA NextEntryIs ==
    ASSUME Sound, itr \in Iterators, NEW r \in Readers, NextEntry(r)
    PROVE  \/ Unexhausted(itr.stack) = {} /\ EndsIteration(r)
           \/ \E n \in Nat : \E e \in Entry : \E lv \in Levels : \E below \in Seq(Levels) :
                 /\ IsTop(itr.stack, n, e, lv, below)
                 /\ \/ GivesOut(r, e, lv, below)
                    \/ /\ e.kind = "branch" /\ feed[lv.path \o e.name] = Absent
                       /\ EndsIteration(r)
                    \/ ComesToBranch(r, e, lv, below)
<1>1. End(r) => Becomes(r, Idle)
  BY DEF End, Becomes
<1>2. CASE Unexhausted(itr.stack) = {}
  <2>1. Stop(r)
    BY <1>2 DEF NextEntry
  <2> QED
    BY <1>1, <1>2, <2>1 DEF Stop, EndsIteration
<1>3. CASE Unexhausted(itr.stack) # {}
  <2>1. itr.stack \in Seq(Levels)
    BY DEF Iterators
  <2>2. PICK n \in Nat, e \in Entry, lv \in Levels, below \in Seq(Levels) :
            IsTop(itr.stack, n, e, lv, below)
    BY <1>3, <2>1, TopIs
  <2>3. /\ n = TopOf(itr.stack) /\ e = Head(itr.stack[n].left) /\ lv.path = itr.stack[n].path
        /\ Popped(itr.stack) = Append(below, lv)
    BY <2>2 DEF IsTop
  <2>4. PICK child : child = lv.path \o e.name
    OBVIOUS
  <2>5. \/ /\ e.kind = "leaf"
           /\ itr' = [itr EXCEPT !.stack = Popped(itr.stack), !.last = child]
           /\ End(r)
        \/ e.kind = "branch" /\ feed[child] = Absent /\ Stop(r)
        \/ /\ e.kind = "branch" /\ feed[child] # Absent
           /\ itr' = [itr EXCEPT !.stack = Append(Popped(itr.stack), Level(child, feed[child]))]
           /\ call' = [call EXCEPT ![r] = [Idle EXCEPT !.op = "next"]]
    BY <1>3, <2>3, <2>4 DEF NextEntry, Popped, TopOf
  <2>6. CASE e.kind = "leaf" /\ itr' = [itr EXCEPT !.stack = Popped(itr.stack), !.last = child]
             /\ End(r)
    <3>1. GivesOut(r, e, lv, below)
      BY <1>1, <2>3, <2>4, <2>6 DEF GivesOut
    <3> QED
      BY <2>2, <3>1
  <2>7. CASE e.kind = "branch" /\ feed[child] = Absent /\ Stop(r)
    <3>1. EndsIteration(r)
      BY <1>1, <2>7 DEF Stop, EndsIteration
    <3> QED
      BY <2>2, <2>4, <2>7, <3>1
  <2>8. CASE /\ e.kind = "branch" /\ feed[child] # Absent
             /\ itr' = [itr EXCEPT !.stack = Append(Popped(itr.stack), Level(child, feed[child]))]
             /\ call' = [call EXCEPT ![r] = [Idle EXCEPT !.op = "next"]]
    <3>1. PICK x : x = [Idle EXCEPT !.op = "next"]
      OBVIOUS
    <3>2. x.op = "next"
      BY <3>1 DEF Idle
    <3>3. ComesToBranch(r, e, lv, below)
      BY <2>3, <2>4, <2>8, <3>1, <3>2 DEF ComesToBranch, Becomes
    <3> QED
      BY <2>2, <3>3
  <2> QED
    BY <2>5, <2>6, <2>7, <2>8
<1> QED
  BY <1>2, <1>3

-----------------------------------------------------------------------------
\* The iterations give out keys in order.

\* What a seek has left on its stack is at or behind its key, and where it is
\* comes before all that.
SeekLaid(x) == Laid(x.stack, x.key) /\ Under(x.path, x.stack) /\ Heads(x.key, x.path, x.rest)

InLine ==
    /\ itr \in Iterators /\ Laid(itr.stack, itr.start) /\ Past(itr.stack, itr.last)
    /\ \A r \in Readers : call[r].op = "seek" => SeekLaid(call[r])

LEMMA UnderLonger ==
    ASSUME NEW p \in Words, NEW q \in Words, IsPrefix(p, q)
    PROVE  /\ \A lv : Before(p, lv) => Before(q, lv)
           /\ \A stack : Under(p, stack) => Under(q, stack)
<1>1. \A v \in Paths : IsPrefix(q, v) => IsPrefix(p, v)
  BY PathsAre, PrefixOfPrefix
<1>2. \A lv : Before(p, lv) => Before(q, lv)
  BY <1>1 DEF Before
<1> QED
  BY <1>2 DEF Under

\* What an entry of a level is.
LEMMA LeftIs ==
    ASSUME NEW lv \in Levels, Spells(lv.path, lv.left), NEW a \in 1..Len(lv.left)
    PROVE  /\ lv.left[a] \in Entry /\ lv.left[a].name \in Words
           /\ lv.path \o lv.left[a].name \in Paths /\ lv.path \o lv.left[a].name \in Words
           /\ lv.path \o lv.left[a].name # <<>>
           /\ IsPrefix(lv.path, lv.path \o lv.left[a].name)
           /\ lv.left[a].kind = "branch" => lv.left[a].name # <<>>
<1>1. PICK p \in Paths, es \in Manifests : p = lv.path /\ es = lv.left
  BY LevelIs
<1> QED
  BY <1>1, PlaceIs

\* Before anything is given out, all that is left is behind.
LEMMA FreshIs ==
    ASSUME NEW key \in Words, NEW stack \in Seq(Levels), Laid(stack, key),
           NEW j, j = Fresh(key, stack)
    PROVE  j \in Iterators /\ Laid(j.stack, j.start) /\ Past(j.stack, j.last)
<1>1. j \in Iterators /\ j.stack = stack /\ j.start = key /\ j.last = <<>>
  BY EmptyWord DEF Fresh, Iterators
<1>2. ASSUME NEW i \in 1..Len(stack), NEW a \in 1..Len(stack[i].left)
      PROVE  Less(<<>>, stack[i].path \o stack[i].left[a].name)
  <2>1. PICK lv \in Levels : lv = stack[i]
    BY ElementOfSeq
  <2>2. Spells(lv.path, lv.left)
    BY <2>1 DEF Laid, FromStart
  <2> QED
    BY <1>2, <2>1, <2>2, LeftIs, EmptyIsLeast
<1> QED
  BY <1>1, <1>2 DEF Past, Behind

\* A seek puts what is left of a manifest on its stack.
LEMMA PieceLaid ==
    ASSUME NEW p \in Paths, NEW es \in Manifests, Spells(p, es), Sorted(es),
           NEW m \in 1..(Len(es) + 1), NEW lv, lv = Level(p, SubSeq(es, m, Len(es))),
           NEW key \in Words, NEW s \in Seq(Levels), Laid(s, key), Under(p, s)
    PROVE  (\A j \in 1..Len(es) : j >= m => ~Less(p \o es[j].name, key))
              => /\ lv \in Levels /\ Append(s, lv) \in Seq(Levels)
                 /\ Laid(Append(s, lv), key)
<1>1. /\ lv \in Levels /\ lv.path = p /\ Spells(p, lv.left) /\ Sorted(lv.left)
      /\ \A a \in 1..Len(lv.left) : \E j \in 1..Len(es) : j >= m /\ lv.left[a] = es[j]
  <2>1. PieceOf(lv, p, es, m)
    BY PieceLevel
  <2> QED
    BY <2>1 DEF PieceOf
<1>2. SUFFICES ASSUME \A j \in 1..Len(es) : j >= m => ~Less(p \o es[j].name, key)
               PROVE  Laid(Append(s, lv), key)
  BY <1>1, AppendProperties
<1>3. FromStart(lv, key)
  BY <1>1, <1>2 DEF FromStart
<1> QED
  BY <1>1, <1>3, OneMoreLaid

\* What seekRead leaves of the iterator, and where the seek goes on.
LEMMA seekReadLaid ==
    ASSUME Sound, Tidied, InLine, NEW r \in Readers, seekRead(r)
    PROVE  /\ itr' \in Iterators /\ Laid(itr'.stack, itr'.start) /\ Past(itr'.stack, itr'.last)
           /\ feed' = feed
           /\ \E y : Becomes(r, y) /\ (y.op = "seek" => SeekLaid(y))
<1>1. PICK x : x = call[r]
  OBVIOUS
<1>2. PICK es : es = feed[x.path]
  OBVIOUS
<1>3. /\ feed' = feed /\ x \in Calls /\ x.op = "seek"
      /\ \/ Fails(r)
         \/ /\ es # Absent /\ es \in Manifests /\ Spells(x.path, es)
            /\ \/ StartsAll(r, x, es)
               \/ PassesAll(r, x, es)
               \/ \E i : StopsAt(r, x, es, i)
               \/ \E i : GoesDownAt(r, x, es, i)
  BY <1>1, <1>2, seekReadIs
<1>4. SeekLaid(x)
  BY <1>1, <1>3 DEF InLine
<1>5. PICK p \in Paths, key \in Words, rest \in Words, s \in Seq(Levels) :
          p = x.path /\ key = x.key /\ rest = x.rest /\ s = x.stack
  BY <1>3 DEF Calls
<1>6. Heads(key, p, rest) /\ Laid(s, key) /\ Under(p, s)
  BY <1>4, <1>5 DEF SeekLaid
<1>7. es # Absent => Sorted(es)
  BY <1>2, <1>5 DEF Tidied, Tidy
<1>8. CASE Fails(r)
  BY <1>3, <1>8, IdleTyped DEF Fails, InLine
<1>9. ASSUME NEW stack \in Seq(Levels), Laid(stack, key), itr' = Fresh(key, stack), Becomes(r, Idle)
      PROVE  /\ itr' \in Iterators /\ Laid(itr'.stack, itr'.start) /\ Past(itr'.stack, itr'.last)
             /\ \E y : Becomes(r, y) /\ (y.op = "seek" => SeekLaid(y))
  BY <1>9, FreshIs, IdleTyped
<1>10. CASE es # Absent /\ es \in Manifests /\ Spells(x.path, es) /\ StartsAll(r, x, es)
  <2>1. PICK lv \in Levels : lv = Level(p, es) /\ lv.path = p /\ lv.left = es
    <3>1. PICK lv : lv = [path |-> p, left |-> es]
      OBVIOUS
    <3>2. lv \in Levels /\ lv.path = p /\ lv.left = es
      BY <1>10, <3>1 DEF Levels
    <3> QED
      BY <3>1, <3>2 DEF Level
  <2>2. ASSUME NEW a \in 1..Len(es)
        PROVE  ~Less(p \o es[a].name, key)
    <3>1. key = <<>>
      BY <1>5, <1>10 DEF StartsAll
    <3>2. p \o es[a].name \in Words
      BY <1>5, <1>10, PlaceIs
    <3> QED
      BY <3>1, <3>2, EmptyIsLeast
  <2>3. FromStart(lv, key)
    BY <1>5, <1>7, <1>10, <2>1, <2>2 DEF FromStart
  <2>4. Laid(Append(<<>>, lv), key) /\ Append(<<>>, lv) \in Seq(Levels)
    BY <2>1, <2>3, NoLevels, OneMoreLaid, AppendProperties
  <2>5. Append(<<>>, lv) = <<lv>>
    OBVIOUS
  <2>6. itr' = Fresh(key, <<lv>>) /\ Becomes(r, Idle)
    BY <1>5, <1>10, <2>1 DEF StartsAll
  <2> QED
    BY <1>3, <1>9, <2>4, <2>5, <2>6
<1>11. CASE PassesAll(r, x, es)
  BY <1>3, <1>5, <1>6, <1>9, <1>11 DEF PassesAll
<1>12. ASSUME NEW i, StopsAt(r, x, es, i), es # Absent, es \in Manifests, Spells(x.path, es)
       PROVE  /\ itr' \in Iterators /\ Laid(itr'.stack, itr'.start) /\ Past(itr'.stack, itr'.last)
              /\ \E y : Becomes(r, y) /\ (y.op = "seek" => SeekLaid(y))
  <2>1. i \in 1..Len(es) /\ Stops(es[i], rest) /\ Becomes(r, Idle)
    BY <1>5, <1>12 DEF StopsAt
  <2>2. PICK lv : lv = Level(p, SubSeq(es, i, Len(es)))
    OBVIOUS
  <2>3. ASSUME NEW j \in 1..Len(es), j >= i
        PROVE  ~Less(p \o es[j].name, key)
    <3>1. i = j \/ i < j
      BY <1>12, <2>1, <2>3, ManifestIs
    <3> QED
      BY <1>5, <1>6, <1>7, <1>12, <2>1, <3>1, FoundFromStart
  <2>4. i \in 1..(Len(es) + 1)
    BY <1>12, <2>1, ManifestIs
  <2>5. Append(s, lv) \in Seq(Levels) /\ Laid(Append(s, lv), key)
    BY <1>5, <1>6, <1>7, <1>12, <2>2, <2>3, <2>4, PieceLaid
  <2>6. itr' = Fresh(key, Append(s, lv))
    BY <1>5, <1>12, <2>2 DEF StopsAt
  <2> QED
    BY <1>9, <2>1, <2>5, <2>6
<1>13. ASSUME NEW i, GoesDownAt(r, x, es, i), es # Absent, es \in Manifests, Spells(x.path, es)
       PROVE  /\ itr' \in Iterators /\ Laid(itr'.stack, itr'.start) /\ Past(itr'.stack, itr'.last)
              /\ \E y : Becomes(r, y) /\ (y.op = "seek" => SeekLaid(y))
  <2>1. PICK y : Becomes(r, y) /\ GoesOn(x, es, i, y)
    BY <1>13 DEF GoesDownAt
  <2>2. i \in 1..Len(es) /\ Enters(es[i], rest) /\ itr' = itr
    BY <1>5, <1>13 DEF GoesDownAt
  <2>3. PICK m \in 1..(Len(es) + 1) : m = i + 1
    BY <1>13, <2>2, ManifestIs
  <2>4. PICK lv : lv = Level(p, SubSeq(es, m, Len(es)))
    OBVIOUS
  <2>5. \A j \in 1..Len(es) : j >= m <=> i < j
    BY <1>13, <2>2, <2>3, ManifestIs
  <2>6. \A j \in 1..Len(es) : i < j => ~Less(p \o es[j].name, key)
    BY <1>5, <1>6, <1>7, <1>13, <2>2, FoundFromStart
  <2>7. lv \in Levels /\ Laid(Append(s, lv), key)
    BY <1>5, <1>6, <1>7, <1>13, <2>4, <2>5, <2>6, PieceLaid
  <2>8. PICK n \in Words : n = es[i].name /\ n # <<>> /\ p \o n \in Paths /\ p \o n \in Words
                           /\ IsPrefix(p, p \o n)
    <3>1. es[i].kind = "branch"
      BY <2>2 DEF Enters
    <3> QED
      BY <1>5, <1>13, <2>2, <3>1, PlaceIs
  <2>9. y.key = key /\ y.path = p \o n /\ y.rest = After(rest, n) /\ y.stack = Append(s, lv)
    BY <1>5, <2>1, <2>3, <2>4, <2>8 DEF GoesOn
  <2>10. Heads(key, p \o n, After(rest, n))
    BY <1>6, <2>2, <2>8, HeadsOn DEF Enters
  <2>11. Before(p \o n, lv)
    <3>1. /\ lv.path = p
          /\ \A a \in 1..Len(lv.left) : \E j \in 1..Len(es) : j >= m /\ lv.left[a] = es[j]
      <4>1. PieceOf(lv, p, es, m)
        BY <1>5, <1>7, <1>13, <2>4, PieceLevel
      <4> QED
        BY <4>1 DEF PieceOf
    <3>2. \A j \in 1..Len(es) : i < j =>
              \A v \in Paths : IsPrefix(p \o n, v) => Less(v, p \o es[j].name)
      BY <1>5, <1>7, <1>13, <2>2, <2>8, PlacesInOrder
    <3> QED
      BY <2>5, <3>1, <3>2 DEF Before
  <2>12. Under(p \o n, Append(s, lv))
    BY <1>6, <2>7, <2>8, <2>11, PathsAre, UnderLonger, OneMoreUnder
  <2>13. SeekLaid(y)
    BY <2>7, <2>9, <2>10, <2>12 DEF SeekLaid
  <2> QED
    BY <2>1, <2>2, <2>13 DEF InLine
<1> QED
  BY <1>3, <1>8, <1>10, <1>11, <1>12, <1>13

\* What the entry e, at child, and the rest of the stack are when e has been taken.
Taken(start, last, e, child, rest) ==
    /\ child \in Paths /\ child \in Words /\ ~Less(child, start) /\ Less(last, child)
    /\ e.kind = "branch" => e.name # <<>> /\ Under(child, rest)
    /\ Laid(rest, start) /\ Past(rest, last) /\ Past(rest, child)

LEMMA TopKeeps ==
    ASSUME NEW stack \in Seq(Levels), NEW start \in Words, NEW last \in Words,
           Laid(stack, start), Past(stack, last),
           NEW n, NEW e \in Entry, NEW lv \in Levels, NEW below \in Seq(Levels),
           IsTop(stack, n, e, lv, below), NEW child, child = lv.path \o e.name
    PROVE  Taken(start, last, e, child, Append(below, lv))
<1>1. PICK p \in Paths, es \in Manifests, t \in Manifests :
          /\ p = stack[n].path /\ es = stack[n].left /\ p = lv.path /\ t = lv.left
          /\ stack[n] \in Levels
  BY LevelIs DEF IsTop
<1>2. /\ n \in 1..Len(stack) /\ Len(es) \in Nat /\ Len(es) >= 1 /\ e = es[1] /\ Len(t) = Len(es) - 1
      /\ \A a \in 1..Len(t) : t[a] = es[a + 1]
      /\ Len(below) = n - 1 /\ \A i \in 1..(n - 1) : below[i] = stack[i]
  BY <1>1, ManifestIs DEF IsTop
<1>3. FromStart(stack[n], start) /\ Behind(last, stack[n])
  BY <1>2 DEF Laid, Past
<1>4. /\ Spells(p, es) /\ Sorted(es) /\ \A a \in 1..Len(es) : ~Less(p \o es[a].name, start)
      /\ \A a \in 1..Len(es) : Less(last, p \o es[a].name)
  BY <1>1, <1>3 DEF FromStart, Behind
<1>5. 1 \in 1..Len(es) /\ \A a \in 1..Len(t) : a + 1 \in 1..Len(es) /\ 1 < a + 1
  BY <1>2
<1>6. /\ child \in Paths /\ child \in Words /\ IsPrefix(p, child)
      /\ e.kind = "branch" => e.name # <<>>
  BY <1>1, <1>2, <1>4, <1>5, PlaceIs
<1>7. ~Less(child, start) /\ Less(last, child)
  BY <1>1, <1>2, <1>4, <1>5
<1>8. FromStart(lv, start)
  <2>1. \A x : Contains(t, x) => Contains(es, x)
    <3> SUFFICES ASSUME NEW x, Contains(t, x) PROVE Contains(es, x)
      OBVIOUS
    <3>1. PICK a \in 1..Len(t) : t[a] = x
      BY DEF Contains
    <3> QED
      BY <1>2, <1>5, <3>1 DEF Contains
  <2>2. Spells(p, t)
    BY <1>4, <2>1 DEF Spells
  <2>3. Sorted(t)
    <3> SUFFICES ASSUME NEW a \in 1..Len(t), NEW b \in 1..Len(t), a < b
                 PROVE  Letter(t[a]) < Letter(t[b])
      BY DEF Sorted
    <3>1. a + 1 < b + 1
      BY <1>2
    <3> QED
      BY <1>2, <1>4, <1>5, <3>1 DEF Sorted
  <2>4. \A a \in 1..Len(t) : ~Less(p \o t[a].name, start)
    BY <1>2, <1>4, <1>5
  <2> QED
    BY <1>1, <2>2, <2>3, <2>4 DEF FromStart
<1>9. ASSUME NEW i \in 1..Len(below)
      PROVE  i \in 1..Len(stack) /\ i \in 1..(n - 1) /\ i < n /\ below[i] = stack[i]
  BY <1>2
<1>10. Laid(below, start)
  BY <1>9 DEF Laid
<1>11. Under(p, below)
  BY <1>1, <1>2, <1>9 DEF Laid, Under
<1>12. Past(below, last)
  BY <1>9 DEF Past
<1>13. Under(child, below)
  BY <1>6, <1>11, PathsAre, UnderLonger
<1>14. Behind(last, lv)
  BY <1>1, <1>2, <1>4, <1>5 DEF Behind
<1>15. Past(below, child)
  <2>1. IsPrefix(child, child)
    BY <1>6, PrefixItself
  <2> QED
    BY <1>6, <1>13, <2>1 DEF Past, Under, Before, Behind
<1>16. ASSUME NEW a \in 1..Len(t)
       PROVE  /\ Less(p \o e.name, p \o t[a].name)
              /\ e.name # <<>> => \A v \in Paths : IsPrefix(child, v) => Less(v, p \o t[a].name)
  <2>1. PICK j \in 1..Len(es) : j = a + 1 /\ 1 < j /\ t[a] = es[j]
    BY <1>2, <1>5
  <2>2. 1 \in 1..Len(es) /\ e = es[1] /\ child = p \o es[1].name
    BY <1>1, <1>2, <1>5
  <2>3. Less(p \o es[1].name, p \o es[j].name)
    BY <1>4, <2>1, <2>2, PlacesInOrder
  <2>4. es[1].name # <<>> =>
            \A v \in Paths : IsPrefix(p \o es[1].name, v) => Less(v, p \o es[j].name)
    BY <1>4, <2>1, <2>2, PlacesInOrder
  <2> QED
    BY <2>1, <2>2, <2>3, <2>4
<1>17. Behind(child, lv)
  BY <1>1, <1>16 DEF Behind
<1>18. e.kind = "branch" => Before(child, lv)
  BY <1>1, <1>6, <1>16 DEF Before
<1>19. Laid(Append(below, lv), start)
  BY <1>1, <1>8, <1>10, <1>11, OneMoreLaid
<1>20. Past(Append(below, lv), last) /\ Past(Append(below, lv), child)
  BY <1>12, <1>14, <1>15, <1>17, OneMorePast
<1>21. e.kind = "branch" => Under(child, Append(below, lv))
  BY <1>13, <1>18, OneMoreUnder
<1> QED
  BY <1>6, <1>7, <1>19, <1>20, <1>21 DEF Taken

\* The manifest of a branch that comes next.
LEMMA BranchLevel ==
    ASSUME Sound, Tidied, NEW start \in Words, NEW last \in Words, NEW child \in Paths,
           ~Less(child, start), Less(last, child), feed[child] # Absent,
           NEW lv, lv = Level(child, feed[child])
    PROVE  lv \in Levels /\ lv.path = child /\ lv.left = feed[child]
           /\ FromStart(lv, start) /\ Behind(last, lv)
<1>1. PICK es \in Manifests : es = feed[child] /\ Spells(child, es) /\ Sorted(es)
  BY ManifestThere DEF Sound, Tidied, Tidy
<1>2. lv = [path |-> child, left |-> es]
  BY <1>1 DEF Level
<1>3. lv \in Levels /\ lv.path = child /\ lv.left = es
  BY <1>2 DEF Levels
<1>4. ASSUME NEW a \in 1..Len(es)
      PROVE  ~Less(child \o es[a].name, start) /\ Less(last, child \o es[a].name)
  <2>1. PICK q \in Words : q = child \o es[a].name /\ IsPrefix(child, q)
    BY <1>1, PlaceIs
  <2>2. child \in Words
    BY PathsAre
  <2>3. Less(last, q)
    BY <2>1, <2>2, LessThanLonger
  <2>4. ~Less(q, start)
    <3>1. SUFFICES ASSUME Less(q, start) PROVE FALSE
      OBVIOUS
    <3>2. q # child
      BY <3>1
    <3>3. Less(child, q)
      BY <2>1, <2>2, <3>2, PrefixIsLess
    <3> QED
      BY <2>2, <3>1, <3>3, LessTwice
  <2> QED
    BY <2>1, <2>3, <2>4
<1> QED
  BY <1>1, <1>3, <1>4 DEF FromStart, Behind

\* What KVGetNext leaves of the iterator, and what it gives out.
LEMMA NextEntryLaid ==
    ASSUME Sound, Tidied, InLine, NEW r \in Readers, NextEntry(r)
    PROVE  /\ itr' \in Iterators /\ Laid(itr'.stack, itr'.start) /\ Past(itr'.stack, itr'.last)
           /\ \E y : /\ Becomes(r, y) /\ y.op # "seek"
                     /\ \/ itr'.done \/ y.op = "next"
                        \/ Less(itr.last, itr'.last) /\ ~Less(itr'.last, itr.start)
<1>1. PICK start \in Words, stack \in Seq(Levels), last \in Words :
          /\ start = itr.start /\ stack = itr.stack /\ last = itr.last
          /\ Laid(stack, start) /\ Past(stack, last)
  BY DEF InLine, Iterators
<1>2. itr \in Iterators
  BY DEF InLine
<1>3. \/ EndsIteration(r)
      \/ \E n \in Nat : \E e \in Entry : \E lv \in Levels : \E below \in Seq(Levels) :
            /\ IsTop(stack, n, e, lv, below)
            /\ GivesOut(r, e, lv, below) \/ ComesToBranch(r, e, lv, below)
  BY <1>1, <1>2, NextEntryIs
<1>4. ASSUME NEW s \in Seq(Levels), NEW w \in Words
      PROVE  LET j == [itr EXCEPT !.stack = s, !.last = w]
                 h == [itr EXCEPT !.stack = s]
             IN  /\ j \in Iterators /\ j.start = start /\ j.stack = s /\ j.last = w
                 /\ h \in Iterators /\ h.start = start /\ h.stack = s /\ h.last = last
  BY <1>1, <1>2 DEF Iterators
<1>5. CASE EndsIteration(r)
  <2>1. itr' \in Iterators /\ itr'.start = start /\ itr'.stack = stack /\ itr'.last = last /\ itr'.done
    BY <1>1, <1>2, <1>5 DEF EndsIteration, Iterators
  <2>2. Becomes(r, Idle) /\ Idle.op # "seek"
    BY <1>5, IdleTyped DEF EndsIteration
  <2> QED
    BY <1>1, <2>1, <2>2
<1>6. ASSUME NEW n \in Nat, NEW e \in Entry, NEW lv \in Levels, NEW below \in Seq(Levels),
             IsTop(stack, n, e, lv, below),
             GivesOut(r, e, lv, below) \/ ComesToBranch(r, e, lv, below)
      PROVE  /\ itr' \in Iterators /\ Laid(itr'.stack, itr'.start) /\ Past(itr'.stack, itr'.last)
             /\ \E y : /\ Becomes(r, y) /\ y.op # "seek"
                       /\ \/ itr'.done \/ y.op = "next"
                          \/ Less(itr.last, itr'.last) /\ ~Less(itr'.last, itr.start)
  <2>1. PICK child : child = lv.path \o e.name
    OBVIOUS
  <2>2. PICK rest \in Seq(Levels) : rest = Append(below, lv)
    BY AppendProperties
  <2>3. /\ child \in Paths /\ child \in Words /\ ~Less(child, start) /\ Less(last, child)
        /\ e.kind = "branch" => Under(child, rest)
        /\ Laid(rest, start) /\ Past(rest, last) /\ Past(rest, child)
    <3>1. Taken(start, last, e, child, Append(below, lv))
      BY <1>1, <1>6, <2>1, TopKeeps
    <3> QED
      BY <2>2, <3>1 DEF Taken
  <2>4. CASE GivesOut(r, e, lv, below)
    <3>1. itr' = [itr EXCEPT !.stack = rest, !.last = child] /\ Becomes(r, Idle)
      BY <2>1, <2>2, <2>4 DEF GivesOut
    <3>2. itr' \in Iterators /\ itr'.start = start /\ itr'.stack = rest /\ itr'.last = child
      BY ZenonT(40), <1>4, <2>3, <3>1
    <3> QED
      BY <1>1, <2>3, <3>1, <3>2, IdleTyped
  <2>5. CASE ComesToBranch(r, e, lv, below)
    <3>1. PICK l : l = Level(child, feed[child])
      OBVIOUS
    <3>2. /\ e.kind = "branch" /\ feed[child] # Absent /\ itr' = [itr EXCEPT !.stack = Append(rest, l)]
          /\ \E x : Becomes(r, x) /\ x.op = "next"
      BY <2>1, <2>2, <2>5, <3>1 DEF ComesToBranch
    <3>3. l \in Levels /\ l.path = child /\ FromStart(l, start) /\ Behind(last, l)
      BY <1>1, <2>3, <3>1, <3>2, BranchLevel
    <3>4. Append(rest, l) \in Seq(Levels)
      BY <3>3, AppendProperties
    <3>5. Laid(Append(rest, l), start) /\ Past(Append(rest, l), last)
      BY <2>3, <3>2, <3>3, OneMoreLaid, OneMorePast
    <3>6. /\ itr' \in Iterators /\ itr'.start = start /\ itr'.stack = Append(rest, l)
          /\ itr'.last = last
      BY <1>1, <1>4, <3>2, <3>4
    <3> QED
      BY <3>2, <3>5, <3>6
  <2> QED
    BY <1>6, <2>4, <2>5
<1> QED
  BY <1>3, <1>5, <1>6

\* A KVSeek begins at the root.
LEMMA KVSeekLaid ==
    ASSUME Sound, NEW r \in Readers, NEW s \in Starts, KVSeek(r, s)
    PROVE  /\ feed' = feed /\ itr' = itr /\ call[r] = Idle
           /\ \E y : /\ Becomes(r, y) /\ y \in Calls /\ y.op = "seek" /\ y.key = s
                     /\ y.path = <<>> /\ y.rest = s /\ y.stack = <<>> /\ y.rest = After(s, <<>>)
                     /\ SeekLaid(y)
<1>1. PICK y : y = NewCall("seek", s, None, s)
  OBVIOUS
<1>2. feed' = feed /\ Becomes(r, y) /\ call[r] = Idle /\ itr' = itr
  BY <1>1, KVSeekDoes DEF KVSeek, Begin
<1>3. y.op = "seek" /\ y.key = s /\ y.path = <<>> /\ y.rest = s /\ y.stack = <<>>
  BY <1>1 DEF NewCall
<1>4. s \in Words /\ IsPrefix(<<>>, s)
  BY KVAssumption, EmptyWord, PrefixIs
<1>5. s = After(s, <<>>)
  <2>1. <<>> \o After(s, <<>>) = s
    BY <1>4, EmptyWord, PrefixAndAfter
  <2>2. After(s, <<>>) \in Words
    BY <1>4, EmptyWord, AfterIs
  <2> QED
    BY <2>1, <2>2, ConcatEmptySeq DEF Words
<1>6. SeekLaid(y)
  <2>1. Heads(s, <<>>, s)
    BY <1>4, <1>5 DEF Heads
  <2> QED
    BY <1>3, <2>1, NoLevels DEF SeekLaid
<1>7. y \in Calls
  <2>1. "seek" \in WriterOps \cup ReaderOps
    BY DEF ReaderOps
  <2> QED
    BY <1>1, <1>4, <2>1, NothingToDo DEF NewCall, Calls
<1> QED
  BY <1>2, <1>3, <1>5, <1>6, <1>7

\* Writers leave the iterator alone.
LEMMA WritesLeave ==
    ASSUME NEW c \in Writers, Writes(c) \/ DeleteKVTable(c)
    PROVE  itr' = itr
BY DEF Writes, DeleteKVTable, CreateKVTable, KVDelete, KVPut, putRead, deleteRead, Unchanged,
       store, storeKVTables

LEMMA InLineInit == Init => InLine
<1> SUFFICES ASSUME Init PROVE InLine
  OBVIOUS
<1>1. \A r \in Readers : call[r] = Idle
  BY ClientsAre DEF Init
<1>2. itr = NoIterator
  BY DEF Init
<1>3. itr \in Iterators /\ itr.stack = <<>>
  BY <1>2, NoLevels, EmptyWord DEF NoIterator, Iterators
<1> QED
  BY <1>1, <1>3, NoLevels, IdleTyped DEF InLine

\* The seeks of the readers that have no part in a step.
LEMMA InLineAfter ==
    ASSUME Sound, InLine, itr' \in Iterators, Laid(itr'.stack, itr'.start),
           Past(itr'.stack, itr'.last), NEW c \in Clients, NEW y, Becomes(c, y),
           c \in Readers /\ y.op = "seek" => SeekLaid(y)
    PROVE  InLine'
<1>1. call'[c] = y /\ \A d \in Clients : d # c => call'[d] = call[d]
  BY BecomesIs
<1>2. ASSUME NEW r \in Readers, call'[r].op = "seek"
      PROVE  SeekLaid(call'[r])
  <2>1. CASE r = c
    BY <1>1, <1>2, <2>1
  <2>2. CASE r # c
    BY <1>1, <1>2, <2>2, ClientsAre DEF InLine
  <2> QED
    BY <2>1, <2>2
<1> QED
  BY <1>2 DEF InLine, SeekLaid

LEMMA InLineStep ==
    ASSUME Sound, Kept, Tidied, InLine, [Next]_vars
    PROVE  InLine'
<1>1. CASE UNCHANGED vars
  BY <1>1 DEF InLine, SeekLaid, vars
<1>2. CASE Next
  <2>1. ASSUME NEW c \in Writers, Writes(c) \/ DeleteKVTable(c)
        PROVE  InLine'
    <3>1. PICK y : Becomes(c, y)
      BY <2>1, WritesTidy
    <3>2. itr' = itr
      BY <2>1, WritesLeave
    <3> QED
      BY <3>1, <3>2, InLineAfter, ClientsAre DEF InLine
  <2>2. ASSUME NEW r \in Readers, NEW k \in Keys, KVGet(r, k)
        PROVE  InLine'
    <3>1. PICK y : Becomes(r, y) /\ y.op = "get"
      BY <2>2, KVGetOnTheWay
    <3>2. itr' = itr
      BY <2>2 DEF KVGet
    <3> QED
      BY <3>1, <3>2, InLineAfter, ClientsAre DEF InLine
  <2>3. ASSUME NEW r \in Readers, NEW s \in Starts, KVSeek(r, s)
        PROVE  InLine'
    <3>1. PICK y : Becomes(r, y) /\ SeekLaid(y) /\ itr' = itr
      BY <2>3, KVSeekLaid
    <3> QED
      BY <3>1, InLineAfter, ClientsAre DEF InLine
  <2>4. ASSUME NEW r \in Readers, seekRead(r)
        PROVE  InLine'
    BY <2>4, seekReadLaid, InLineAfter, ClientsAre
  <2>5. ASSUME NEW r \in Readers, KVGetNext(r) \/ nextRead(r)
        PROVE  InLine'
    <3>1. NextEntry(r)
      BY <2>5 DEF KVGetNext, nextRead
    <3> QED
      BY <3>1, NextEntryLaid, InLineAfter, ClientsAre
  <2>6. ASSUME NEW r \in Readers, getRead(r)
        PROVE  InLine'
    <3>1. PICK y : Becomes(r, y) /\ y.op # "seek"
      <4>1. call[r] \in Calls /\ call[r].op = "get"
        BY <2>6, getReadDoes
      <4>2. \A n : Moved(call[r], n).op = "get"
        BY <4>1, MovedIs
      <4> QED
        BY <2>6, <4>2, getReadDoes, IdleTyped DEF Becomes
    <3>2. itr' = itr
      BY <2>6 DEF getRead
    <3> QED
      BY <3>1, <3>2, InLineAfter, ClientsAre DEF InLine
  <2>7. OpenKVTable => InLine'
    BY DEF OpenKVTable, InLine, SeekLaid
  <2>8. ASSUME Crash
        PROVE  InLine'
    <3>1. \A r \in Readers : call'[r] = Idle
      BY <2>8, CrashDoes, ClientsAre
    <3>2. itr' = NoIterator
      BY <2>8 DEF Crash
    <3>3. itr' \in Iterators /\ itr'.stack = <<>>
      BY <3>2, NoLevels, EmptyWord DEF NoIterator, Iterators
    <3> QED
      BY <3>1, <3>3, NoLevels, IdleTyped DEF InLine
  <2> QED
    BY <1>2, <2>1, <2>2, <2>3, <2>4, <2>5, <2>6, <2>7, <2>8, StepsAre DEF Reads
<1> QED
  BY <1>1, <1>2

\* What a step gives out.
GivesOutInOrder ==
    (/\ itr' # itr /\ itr' # NoIterator /\ ~itr'.done
     /\ \A r \in Readers : call[r].op # "seek" /\ call'[r].op # "next")
    => Less(itr.last, itr'.last) /\ ~Less(itr'.last, itr.start)

LEMMA InLineGivesOut ==
    ASSUME Sound, Kept, Tidied, InLine, Next
    PROVE  GivesOutInOrder
<1> SUFFICES ASSUME itr' # itr, itr' # NoIterator, ~itr'.done,
                    \A r \in Readers : call[r].op # "seek" /\ call'[r].op # "next"
             PROVE  Less(itr.last, itr'.last) /\ ~Less(itr'.last, itr.start)
  BY DEF GivesOutInOrder
<1>1. PICK r \in Readers : KVGetNext(r) \/ nextRead(r)
  <2>1. \A c \in Writers : ~(Writes(c) \/ DeleteKVTable(c))
    BY WritesLeave
  <2>2. \A r \in Readers : ~seekRead(r) /\ ~getRead(r)
    BY DEF seekRead, getRead
  <2>3. \A r \in Readers : (\A k \in Keys : ~KVGet(r, k)) /\ (\A s \in Starts : ~KVSeek(r, s))
    BY DEF KVGet, KVSeek
  <2>4. ~OpenKVTable /\ ~Crash
    BY DEF OpenKVTable, Crash
  <2> QED
    BY <2>1, <2>2, <2>3, <2>4, StepsAre DEF Reads
<1>2. NextEntry(r)
  BY <1>1 DEF KVGetNext, nextRead
<1>3. PICK y : /\ Becomes(r, y)
               /\ \/ itr'.done \/ y.op = "next"
                  \/ Less(itr.last, itr'.last) /\ ~Less(itr'.last, itr.start)
  BY <1>2, NextEntryLaid
<1>4. y.op # "next"
  BY <1>3, BecomesIs, ClientsAre
<1> QED
  BY <1>3, <1>4

\* However puts and deletes go on and split leaves and branches meanwhile, an
\* iteration gives out each key behind the one before, and none before its start:
\* the levels on the stack of the iterator hold what is behind the last key, the
\* deeper before the higher (KVSeek, KVGetNext, seekStringKey and nextStringKey,
\* pkg/collection/kv.go and iterator.go).
THEOREM KVIterationInOrder ==
    ASSUME OneWriter, ~PutsBranchKeys
    PROVE  Spec => IterationInOrder
<1> DEFINE Inv == Sound /\ Kept /\ Tidied /\ InLine
<1>1. Init => Inv
  BY SoundInit, KeptInit, TidiedInit, InLineInit
<1>2. Inv /\ [Next]_vars => Inv'
  BY SoundStep, KeptStep, TidiedStep, InLineStep
<1>3. Inv /\ [Next]_vars => [GivesOutInOrder]_vars
  BY InLineGivesOut
<1>4. [GivesOutInOrder]_vars
      <=> [(/\ itr' # itr /\ itr' # NoIterator /\ ~itr'.done
            /\ \A r \in Readers : call[r].op # "seek" /\ call'[r].op # "next")
           => Less(itr.last, itr'.last) /\ ~Less(itr'.last, itr.start)]_vars
  BY DEF GivesOutInOrder
<1> HIDE DEF Inv
<1> QED
  BY <1>1, <1>2, <1>3, <1>4, PTL DEF Spec, IterationInOrder

-----------------------------------------------------------------------------
\* The iterations give out every key.

\* Two keys that begin with the first letter of a start part no later than it,
\* or, with the letters they share, before it: a seek does not come by a branch
\* that is longer than what it looks for or diverges upwards from it, which
\* seekStringKey passes over or enters.
FittingStarts ==
    \A s \in Starts : \A q \in Forks :
        s # <<>> /\ q # <<>> /\ q[1] = s[1] => ~Less(s, q)

\* Towards a key of the table there is an entry in every manifest on the way.
LEMMA Onward ==
    ASSUME NEW f, Whole(f), NEW k \in Keys, ContentOf(f)[k] # None,
           NEW b \in Paths, Walked(f, b), IsPrefix(b, k)
    PROVE  f[b] # Absent /\ \E e \in Entry : Contains(f[b], e) /\ Toward(b, e, k)
<1>1. PICK v \in Values : ContentOf(f)[k] = v
  BY ContentIs
<1>2. HasLeaf(f, k, v)
  BY <1>1, ContentIs
<1>3. PICK p \in Paths : /\ IsPrefix(p, k) /\ Walked(f, p) /\ f[p] # Absent
                         /\ Contains(f[p], Leaf(After(k, p), v))
  BY <1>2 DEF HasLeaf
<1>4. p \in Words /\ b \in Words /\ k \in Words
  BY PathsAre
<1>5. PICK a \in Words : a = After(k, p)
  BY <1>4, AfterIs
<1>6. PICK e \in Entry : /\ e = Leaf(a, v) /\ e.name = a /\ e.kind = "leaf"
  BY MadeEntries
<1>7. p \o a = k
  BY <1>3, <1>4, <1>5, PrefixAndAfter
<1>8. CASE p = b
  <2>1. Toward(b, e, k)
    BY <1>6, <1>7, <1>8 DEF Toward
  <2> QED
    BY <1>3, <1>5, <1>6, <1>8, <2>1
<1>9. CASE p # b /\ IsPrefix(b, p)
  <2>1. PICK n \in Words : f[b] # Absent /\ Contains(f[b], Branch(n)) /\ IsPrefix(b \o n, p)
    BY <1>3, <1>9, BranchOnTheWay
  <2>2. b \o n \in Words
    BY <1>4, ConcatIs
  <2>3. IsPrefix(b \o n, k)
    BY <1>3, <1>4, <2>1, <2>2, PrefixOfPrefix
  <2>4. PICK d \in Entry : d = Branch(n) /\ d.name = n /\ d.kind = "branch"
    BY MadeEntries
  <2>5. Toward(b, d, k)
    BY <2>3, <2>4 DEF Toward
  <2> QED
    BY <2>1, <2>4, <2>5
<1>10. CASE p # b /\ IsPrefix(p, b)
  <2>1. IsKey(e, After(k, p)) /\ Contains(f[p], e)
    BY <1>3, <1>5, <1>6 DEF IsKey
  <2>2. p = b
    BY <1>3, <1>10, <2>1, NothingBelow
  <2> QED
    BY <1>10, <2>2
<1>11. IsPrefix(b, p) \/ IsPrefix(p, b)
  <2>1. Len(p) \in Nat /\ Len(b) \in Nat
    BY <1>4, WordIs
  <2>2. Len(b) <= Len(p) \/ Len(p) <= Len(b)
    BY <2>1
  <2> QED
    BY <1>3, <1>4, <2>2, PrefixesOfOne
<1> QED
  BY <1>8, <1>9, <1>10, <1>11

\* A seek stops at or enters the first entry that it can.
LEMMA SeekIndexFirst ==
    ASSUME NEW es \in Manifests, NEW key, NEW i, i = SeekIndex(es, key),
           NEW j \in 1..Len(es), i = 0 \/ j < i
    PROVE  ~Stops(es[j], key) /\ ~Enters(es[j], key)
<1> DEFINE I == {h \in 1..Len(es) : Stops(es[h], key) \/ Enters(es[h], key)}
<1>1. i = IF I # {} THEN Min(I) ELSE 0
  BY DEF SeekIndex, SelectInSeq
<1>2. I # {} => Min(I) \in I /\ \A h \in I : Min(I) <= h
  BY ManifestIs, FirstOf
<1>3. SUFFICES ASSUME j \in I PROVE FALSE
  OBVIOUS
<1>4. i \in I /\ i <= j
  BY <1>1, <1>2, <1>3
<1>5. i \in 1..Len(es) /\ Len(es) \in Nat
  BY <1>4, ManifestIs
<1> QED
  BY <1>4, <1>5

\* With a fitting start the branches with the first letter of the key come before
\* it or towards it.
LEMMA FittingBranch ==
    ASSUME FittingStarts, NEW key \in Starts, key # <<>>, NEW p \in Paths, IsPrefix(p, key),
           NEW rest \in Words, rest = After(key, p), rest # <<>>,
           NEW name \in Words, name # <<>>, p \o name \in Forks, name[1] = rest[1]
    PROVE  ~Less(key, p \o name)
<1>1. key \in Words /\ p \in Words /\ p \o name \in Words
  BY KVAssumption, PathsAre, ConcatIs
<1>2. p \o rest = key
  BY <1>1, PrefixAndAfter
<1>3. p \o name # <<>> /\ (p \o name)[1] = key[1]
  <2>1. CASE p = <<>>
    <3>1. p \o name = name /\ p \o rest = rest
      BY <2>1, ConcatEmptySeq DEF Words
    <3> QED
      BY <1>2, <3>1
  <2>2. CASE p # <<>>
    <3>1. IsPrefix(p, p \o name)
      BY <1>1, ConcatHasPrefix
    <3> QED
      BY <1>1, <2>2, <3>1, FirstLetter
  <2> QED
    BY <2>1, <2>2
<1> QED
  BY <1>3 DEF FittingStarts

\* What a seek passes over comes before the key.
LEMMA PassedOver ==
    ASSUME FittingStarts, NEW key \in Starts, key # <<>>, NEW p \in Paths, IsPrefix(p, key),
           NEW rest \in Words, rest = After(key, p),
           NEW e \in Entry, ~Stops(e, rest), ~Enters(e, rest),
           e.kind = "branch" => e.name # <<>> /\ p \o e.name \in Forks,
           NEW k \in Keys, Toward(p, e, k)
    PROVE  Less(k, key)
<1>1. PICK n \in Words : n = e.name
  BY EntryIs
<1>2. key \in Words /\ p \in Words /\ p \o n \in Words /\ k \in Words
  BY KVAssumption, PathsAre, ConcatIs
<1>3. p \o rest = key
  BY <1>2, PrefixAndAfter
<1>4. n # <<>> => rest # <<>> /\ n[1] <= rest[1]
  <2>1. SUFFICES ASSUME n # <<>> PROVE rest # <<>> /\ n[1] <= rest[1]
    OBVIOUS
  <2>2. rest # <<>> /\ ~(n[1] > rest[1])
    BY <1>1, <2>1 DEF Stops, Beyond
  <2>3. n[1] \in Nat /\ rest[1] \in Nat
    <3>1. 1 \in 1..Len(n) /\ 1 \in 1..Len(rest)
      BY <2>1, <2>2, WordIs
    <3> QED
      BY <3>1, WordIs
  <2> QED
    BY <2>2, <2>3
<1>5. CASE e.kind = "leaf"
  <2>1. k = p \o n
    BY <1>1, <1>5 DEF Toward
  <2>2. n # rest /\ (n # <<>> => ~Less(rest, n))
    BY <1>1, <1>5 DEF Stops
  <2>3. Less(n, rest)
    <3>1. CASE n = <<>>
      BY <2>2, <3>1, EmptyIsLeast
    <3>2. CASE n # <<>>
      BY <2>2, <3>2, OneIsLess
    <3> QED
      BY <3>1, <3>2
  <2> QED
    BY ZenonT(40), <1>2, <1>3, <2>1, <2>3, LessBehind
<1>6. CASE e.kind = "branch"
  <2>1. IsPrefix(p \o n, k) /\ n # <<>> /\ p \o n \in Forks
    BY <1>1, <1>6 DEF Toward
  <2>2. ~IsPrefix(n, rest)
    BY <1>1, <1>6 DEF Enters
  <2>3. ~IsPrefix(p \o n, key)
    BY <1>2, <2>2, AfterKeepsPrefix
  <2>4. Less(p \o n, key)
    <3>1. CASE n[1] = rest[1]
      <4>1. ~Less(key, p \o n)
        BY <1>4, <2>1, <3>1, FittingBranch
      <4>2. p \o n # key
        BY <1>2, <2>3, PrefixItself
      <4> QED
        BY <1>2, <4>1, <4>2, OneIsLess
    <3>2. CASE n[1] # rest[1]
      <4>1. n[1] < rest[1]
        <5>1. 1 \in 1..Len(n) /\ 1 \in 1..Len(rest)
          BY <1>4, <2>1, WordIs
        <5>2. n[1] \in Nat /\ rest[1] \in Nat
          BY <5>1, WordIs
        <5> QED
          BY <1>4, <2>1, <3>2, <5>2
      <4>2. Less(n, rest)
        BY <1>4, <2>1, <4>1, LessByLetter
      <4> QED
        BY <1>2, <1>3, <4>2, LessBehind
    <3> QED
      BY <3>1, <3>2
  <2> QED
    BY <1>2, <2>1, <2>3, <2>4, LongerIsLess
<1> QED
  BY <1>5, <1>6, EntryIs

\* A branch that a seek enters leads towards the key.
LEMMA EntersOnTheWay ==
    ASSUME FittingStarts, NEW key \in Starts, key # <<>>, NEW p \in Paths, IsPrefix(p, key),
           NEW rest \in Words, rest = After(key, p),
           NEW e \in Entry, ~Stops(e, rest), Enters(e, rest),
           e.name # <<>> /\ p \o e.name \in Forks
    PROVE  Leads(e, rest)
<1>1. PICK n \in Words : n = e.name /\ n # <<>>
  BY EntryIs
<1>2. key \in Words /\ p \in Words /\ p \o n \in Words
  BY KVAssumption, PathsAre, ConcatIs
<1>3. p \o rest = key
  BY <1>2, PrefixAndAfter
<1>4. e.kind = "branch" /\ (IsPrefix(n, rest) \/ Less(rest, n))
  BY <1>1 DEF Enters
<1>5. SUFFICES ASSUME Less(rest, n), ~IsPrefix(n, rest) PROVE FALSE
  BY <1>1, <1>4 DEF Leads
<1>6. rest # <<>> /\ ~(n[1] > rest[1])
  BY <1>1 DEF Stops, Beyond
<1>7. n[1] \in Nat /\ rest[1] \in Nat
  <2>1. 1 \in 1..Len(n) /\ 1 \in 1..Len(rest)
    BY <1>1, <1>6, WordIs
  <2> QED
    BY <2>1, WordIs
<1>8. n[1] = rest[1]
  <2>1. ~(n[1] < rest[1])
    BY <1>1, <1>5, <1>6, LessByLetter, NotLessTwice
  <2> QED
    BY <1>6, <1>7, <2>1
<1>9. ~Less(key, p \o n)
  BY <1>1, <1>6, <1>8, FittingBranch
<1>10. Less(key, p \o n)
  BY <1>2, <1>3, <1>5, LessBehind
<1> QED
  BY <1>9, <1>10

\* Nothing is missed: in the trie f, of the keys, those behind the key that a
\* seek looks for are still to come, on its stack or below where it is.
SeekFits(f, keys, x) ==
    /\ x.key \in Starts /\ OnTheWay(f, x) /\ Led(f, x.stack)
    /\ \A k \in keys : Less(k, x.key) \/ Comes(x.stack, k) \/ IsPrefix(x.path, k)

\* And those that an iterator has not given out are still on its stack, which is
\* exhausted when there are no more elements.
ItrFits(f, keys, j) ==
    keys # {} =>
        /\ Led(f, j.stack) /\ (j.done => Unexhausted(j.stack) = {})
        /\ \A k \in keys : Less(k, j.start) \/ Comes(j.stack, k)

\* Puts and deletes cut no manifest off.
LEMMA LedStays ==
    ASSUME NEW stack \in Seq(Levels), NEW start, Laid(stack, start), NEW f, NEW g, Led(f, stack),
           \A q \in Paths : Walked(f, q) => Walked(g, q)
    PROVE  Led(g, stack)
<1> SUFFICES ASSUME NEW i \in 1..Len(stack), NEW a \in 1..Len(stack[i].left),
                    stack[i].left[a].kind = "branch"
             PROVE  Walked(g, stack[i].path \o stack[i].left[a].name)
  BY DEF Led, LedIn
<1>1. PICK lv \in Levels : lv = stack[i]
  BY ElementOfSeq
<1>2. Spells(lv.path, lv.left)
  BY <1>1 DEF Laid, FromStart
<1>3. lv.path \o lv.left[a].name \in Paths
  BY <1>1, <1>2, LeftIs
<1>4. Walked(f, lv.path \o lv.left[a].name)
  BY <1>1 DEF Led, LedIn
<1> QED
  BY <1>1, <1>3, <1>4

LEMMA SeekFitsStays ==
    ASSUME NEW x \in Calls, SeekLaid(x), NEW f, NEW g, NEW keys, NEW new, SeekFits(f, keys, x),
           new \subseteq keys, \A q \in Paths : Walked(f, q) => Walked(g, q)
    PROVE  SeekFits(g, new, x)
<1>1. PICK s \in Seq(Levels) : s = x.stack /\ Laid(s, x.key) /\ Led(f, s)
  BY DEF Calls, SeekLaid, SeekFits
<1>2. Led(g, x.stack)
  BY <1>1, LedStays
<1>3. OnTheWay(g, x)
  BY OnTheWayStays DEF SeekFits
<1> QED
  BY <1>2, <1>3 DEF SeekFits

LEMMA ItrFitsStays ==
    ASSUME NEW j \in Iterators, Laid(j.stack, j.start), NEW f, NEW g, NEW keys, NEW new,
           ItrFits(f, keys, j), new \subseteq keys,
           \A q \in Paths : Walked(f, q) => Walked(g, q)
    PROVE  ItrFits(g, new, j)
<1>1. SUFFICES ASSUME new # {} PROVE ItrFits(g, new, j)
  BY DEF ItrFits
<1>2. keys # {}
  BY <1>1
<1>3. PICK s \in Seq(Levels) : s = j.stack /\ Laid(s, j.start) /\ Led(f, s)
  BY <1>2 DEF Iterators, ItrFits
<1>4. Led(g, j.stack)
  BY <1>3, LedStays
<1> QED
  BY <1>2, <1>4 DEF ItrFits

\* The branches of a manifest that branches lead to.
LEMMA BranchesLed ==
    ASSUME NEW f, IsTrie(f), NEW p \in Paths, Walked(f, p), f[p] # Absent,
           NEW j \in 1..Len(f[p]), f[p][j].kind = "branch"
    PROVE  Walked(f, p \o f[p][j].name)
<1>1. PICK n \in Words : n = f[p][j].name /\ p \o n \in Paths /\ Contains(f[p], Branch(n))
  BY BranchToPath
<1>2. Precedes(f, p, p \o n)
  BY <1>1, BranchLeads
<1> QED
  BY <1>1, <1>2, WalkedOn

\* The entries of a manifest from one of them on.
LEMMA PieceLed ==
    ASSUME NEW f, IsTrie(f), NEW p \in Paths, Walked(f, p), f[p] # Absent, NEW m, NEW lv,
           PieceOf(lv, p, f[p], m)
    PROVE  LedIn(f, lv)
<1> SUFFICES ASSUME NEW a \in 1..Len(lv.left), lv.left[a].kind = "branch"
             PROVE  Walked(f, lv.path \o lv.left[a].name)
  BY DEF LedIn
<1>1. lv.path = p
  BY DEF PieceOf
<1>2. PICK j \in 1..Len(f[p]) : lv.left[a] = f[p][j]
  BY DEF PieceOf
<1> QED
  BY <1>1, <1>2, BranchesLed

LEMMA PieceComes ==
    ASSUME NEW lv, NEW p, NEW es, NEW m, PieceOf(lv, p, es, m), NEW j \in 1..Len(es), j >= m,
           NEW k, Toward(p, es[j], k)
    PROVE  ComesIn(lv, k)
<1>1. lv.path = p
  BY DEF PieceOf
<1>2. PICK a \in 1..Len(lv.left) : lv.left[a] = es[j]
  BY DEF PieceOf
<1> QED
  BY <1>1, <1>2 DEF ComesIn

\* A seek on its way in the manifest of x.path.
Seeks(x, p, key, rest, s, es) ==
    /\ p \in Paths /\ key \in Words /\ rest \in Words /\ s \in Seq(Levels) /\ es \in Manifests
    /\ p = x.path /\ key = x.key /\ rest = x.rest /\ s = x.stack /\ es = feed[p] /\ es # Absent
    /\ Spells(p, es) /\ Tidy(p, es) /\ Walked(feed, p)
    /\ key \in Starts /\ IsPrefix(p, key) /\ rest = After(key, p) /\ Led(feed, s)

\* Of the keys of the table that are not on its stack, those before the first
\* entry that the seek stops at or enters come before its key.
LEMMA SeekPasses ==
    ASSUME Sound, Kept, FittingStarts, NEW x, NEW p, NEW key, NEW rest, NEW s, NEW es,
           Seeks(x, p, key, rest, s, es), key # <<>>, NEW k \in Present,
           Less(k, key) \/ Comes(s, k) \/ IsPrefix(p, k),
           NEW i, i = SeekIndex(es, rest)
    PROVE  \/ Less(k, key) \/ Comes(s, k)
           \/ i # 0 /\ \E j \in 1..Len(es) : j >= i /\ Toward(p, es[j], k)
<1>1. SUFFICES ASSUME IsPrefix(p, k)
               PROVE  \/ Less(k, key)
                      \/ i # 0 /\ \E j \in 1..Len(es) : j >= i /\ Toward(p, es[j], k)
  OBVIOUS
<1>2. Whole(feed) /\ k \in Keys /\ ContentOf(feed)[k] # None
  BY DEF Kept, Present
<1>3. PICK e \in Entry : Contains(es, e) /\ Toward(p, e, k)
  BY <1>1, <1>2, Onward DEF Seeks
<1>4. PICK j \in 1..Len(es) : es[j] = e
  BY <1>3 DEF Contains
<1>5. i = 0 \/ (i \in 1..Len(es) /\ Len(es) \in Nat)
  BY SeekIndexIs, ManifestIs DEF Seeks
<1>6. CASE i # 0 /\ j >= i
  BY <1>3, <1>4, <1>6
<1>7. CASE i = 0 \/ j < i
  <2>1. ~Stops(e, rest) /\ ~Enters(e, rest)
    BY <1>4, <1>7, SeekIndexFirst DEF Seeks
  <2>2. e.kind = "branch" => e.name # <<>> /\ p \o e.name \in Forks
    <3>1. e.kind = "branch" => e.name # <<>>
      BY <1>4, PlaceIs DEF Seeks
    <3> QED
      BY <1>3, <3>1 DEF Seeks, Tidy
  <2>3. Less(k, key)
    BY <1>2, <1>3, <2>1, <2>2, PassedOver DEF Seeks
  <2> QED
    BY <2>3
<1>8. i = 0 \/ j >= i \/ j < i
  BY <1>5
<1> QED
  BY <1>6, <1>7, <1>8

LEMMA FreshFits ==
    ASSUME NEW f, NEW keys, NEW key, NEW stack, Led(f, stack),
           \A k \in keys : Less(k, key) \/ Comes(stack, k)
    PROVE  ItrFits(f, keys, Fresh(key, stack))
<1>1. PICK j : j = Fresh(key, stack)
  OBVIOUS
<1>2. j.start = key /\ j.stack = stack /\ j.done = FALSE
  BY <1>1 DEF Fresh
<1> QED
  BY <1>1, <1>2 DEF ItrFits

\* One manifest of a seek.
LEMMA seekReadFits ==
    ASSUME Sound, Kept, Tidied, FittingStarts, NEW r \in Readers, seekRead(r),
           NEW keys, keys \subseteq Present, SeekFits(feed, keys, call[r])
    PROVE  /\ itr' = itr \/ ItrFits(feed, keys, itr')
           /\ \E y : Becomes(r, y) /\ (y.op = "seek" => SeekFits(feed, keys, y))
<1>1. PICK x : x = call[r]
  OBVIOUS
<1>2. PICK es : es = feed[x.path]
  OBVIOUS
<1>3. /\ x \in Calls /\ x.op = "seek"
      /\ \/ Fails(r)
         \/ /\ es # Absent /\ es \in Manifests /\ Spells(x.path, es)
            /\ \/ StartsAll(r, x, es)
               \/ PassesAll(r, x, es)
               \/ \E i : StopsAt(r, x, es, i)
               \/ \E i : GoesDownAt(r, x, es, i)
  BY <1>1, <1>2, seekReadIs
<1>4. PICK p \in Paths, key \in Words, rest \in Words, s \in Seq(Levels) :
          p = x.path /\ key = x.key /\ rest = x.rest /\ s = x.stack
  BY <1>3 DEF Calls
<1>5. /\ key \in Starts /\ Walked(feed, p) /\ IsPrefix(p, key) /\ rest = After(key, p)
      /\ Led(feed, s)
      /\ \A k \in keys : Less(k, key) \/ Comes(s, k) \/ IsPrefix(p, k)
  BY <1>1, <1>4 DEF SeekFits, OnTheWay
<1>6. CASE Fails(r)
  BY <1>6, IdleTyped DEF Fails
<1>7. ASSUME es # Absent, es \in Manifests, Spells(x.path, es)
      PROVE  Seeks(x, p, key, rest, s, es) /\ IsTrie(feed)
  <2>1. Tidy(p, es)
    BY <1>2, <1>4, <1>7 DEF Tidied
  <2> QED
    BY <1>2, <1>4, <1>5, <1>7, <2>1 DEF Seeks, Sound
<1>8. ASSUME es # Absent, es \in Manifests, Spells(x.path, es), key # <<>>, NEW k \in keys,
             NEW i, i = SeekIndex(es, rest)
      PROVE  \/ Less(k, key) \/ Comes(s, k)
             \/ i # 0 /\ \E j \in 1..Len(es) : j >= i /\ Toward(p, es[j], k)
  BY <1>5, <1>7, <1>8, SeekPasses
<1>9. ASSUME NEW stack, Led(feed, stack), \A k \in keys : Less(k, key) \/ Comes(stack, k),
             itr' = Fresh(key, stack), Becomes(r, Idle)
      PROVE  /\ itr' = itr \/ ItrFits(feed, keys, itr')
             /\ \E y : Becomes(r, y) /\ (y.op = "seek" => SeekFits(feed, keys, y))
  BY <1>9, FreshFits, IdleTyped
<1>10. CASE es # Absent /\ es \in Manifests /\ Spells(x.path, es) /\ StartsAll(r, x, es)
  <2>1. PICK lv \in Levels : lv = Level(p, es) /\ lv.path = p /\ lv.left = es
    <3>1. PICK lv : lv = [path |-> p, left |-> es]
      OBVIOUS
    <3>2. lv \in Levels /\ lv.path = p /\ lv.left = es
      BY <1>10, <3>1 DEF Levels
    <3> QED
      BY <3>1, <3>2 DEF Level
  <2>2. key = <<>> /\ itr' = Fresh(key, <<lv>>) /\ Becomes(r, Idle)
    BY <1>4, <1>10, <2>1 DEF StartsAll
  <2>3. p = <<>>
    <3>1. Len(p) <= Len(key) /\ Len(key) = 0 /\ Len(p) \in Nat
      BY <1>5, <2>2, PathsAre, PrefixIs, WordIs, EmptyWord
    <3>2. Len(p) = 0
      BY <3>1
    <3> QED
      BY <3>2, PathsAre, WordIs
  <2>4. LedIn(feed, lv)
    BY <1>2, <1>4, <1>5, <1>7, <1>10, <2>1, BranchesLed DEF LedIn
  <2>5. ASSUME NEW k \in keys
        PROVE  ComesIn(lv, k)
    <3>1. k \in Keys /\ k \in Words /\ ContentOf(feed)[k] # None /\ Whole(feed)
      BY KVAssumption DEF Present, Kept
    <3>2. IsPrefix(p, k)
      BY <2>3, <3>1, PrefixItself
    <3>3. PICK e \in Entry : Contains(es, e) /\ Toward(p, e, k)
      BY <1>2, <1>4, <1>5, <3>1, <3>2, Onward
    <3>4. PICK j \in 1..Len(es) : es[j] = e
      BY <3>3 DEF Contains
    <3> QED
      BY <2>1, <3>3, <3>4 DEF ComesIn
  <2>6. PICK none \in Seq(Levels) : none = <<>> /\ Led(feed, none)
    BY NoLevels
  <2>7. Led(feed, Append(none, lv)) /\ \A k \in keys : Comes(Append(none, lv), k)
    BY <2>1, <2>4, <2>5, <2>6, OneMoreLed, OneMoreComes
  <2>8. Append(none, lv) = <<lv>>
    BY <2>6
  <2> QED
    BY <1>9, <2>2, <2>7, <2>8
<1>11. CASE es # Absent /\ es \in Manifests /\ Spells(x.path, es) /\ PassesAll(r, x, es)
  <2>1. SeekIndex(es, rest) = 0 /\ itr' = Fresh(key, s) /\ Becomes(r, Idle)
    BY <1>4, <1>11 DEF PassesAll
  <2>2. key # <<>>
    BY <1>4, <1>11 DEF PassesAll
  <2>3. \A k \in keys : Less(k, key) \/ Comes(s, k)
    BY <1>8, <1>11, <2>1, <2>2
  <2> QED
    BY <1>5, <1>9, <2>1, <2>3
<1>12. ASSUME NEW i, StopsAt(r, x, es, i), es # Absent, es \in Manifests, Spells(x.path, es)
       PROVE  /\ itr' = itr \/ ItrFits(feed, keys, itr')
              /\ \E y : Becomes(r, y) /\ (y.op = "seek" => SeekFits(feed, keys, y))
  <2>1. PICK lv : lv = Level(p, SubSeq(es, i, Len(es)))
    OBVIOUS
  <2>2. /\ key # <<>> /\ i \in 1..Len(es) /\ i = SeekIndex(es, rest) /\ Becomes(r, Idle)
        /\ itr' = Fresh(key, Append(s, lv))
    BY <1>4, <1>12, <2>1 DEF StopsAt
  <2>3. i \in 1..(Len(es) + 1)
    BY <1>12, <2>2, ManifestIs
  <2>4. Spells(p, es) /\ Sorted(es)
    BY <1>7, <1>12 DEF Seeks, Tidy
  <2>5. PieceOf(lv, p, es, i)
    BY <1>12, <2>1, <2>3, <2>4, PieceLevel
  <2>6. lv \in Levels
    BY <2>5 DEF PieceOf
  <2>7. LedIn(feed, lv)
    BY <1>2, <1>4, <1>5, <1>7, <1>12, <2>5, PieceLed
  <2>8. ASSUME NEW k \in keys
        PROVE  Less(k, key) \/ Comes(Append(s, lv), k)
    <3>1. \/ Less(k, key) \/ Comes(s, k)
          \/ \E j \in 1..Len(es) : j >= i /\ Toward(p, es[j], k)
      BY <1>8, <1>12, <2>2
    <3>2. (\E j \in 1..Len(es) : j >= i /\ Toward(p, es[j], k)) => ComesIn(lv, k)
      BY <2>5, PieceComes
    <3> QED
      BY <2>6, <3>1, <3>2, OneMoreComes
  <2>9. Led(feed, Append(s, lv))
    BY <1>5, <2>6, <2>7, OneMoreLed
  <2> QED
    BY <1>9, <2>2, <2>8, <2>9
<1>13. ASSUME NEW i, GoesDownAt(r, x, es, i), es # Absent, es \in Manifests, Spells(x.path, es)
       PROVE  /\ itr' = itr \/ ItrFits(feed, keys, itr')
              /\ \E y : Becomes(r, y) /\ (y.op = "seek" => SeekFits(feed, keys, y))
  <2>1. PICK y : Becomes(r, y) /\ GoesOn(x, es, i, y)
    BY <1>13 DEF GoesDownAt
  <2>2. /\ key # <<>> /\ i \in 1..Len(es) /\ i = SeekIndex(es, rest) /\ ~Stops(es[i], rest)
        /\ Enters(es[i], rest) /\ itr' = itr
    BY <1>4, <1>13 DEF GoesDownAt
  <2>3. PICK m \in 1..(Len(es) + 1) : m = i + 1
    BY <1>13, <2>2, ManifestIs
  <2>4. PICK lv : lv = Level(p, SubSeq(es, m, Len(es)))
    OBVIOUS
  <2>5. Spells(p, es) /\ Sorted(es) /\ IsTrie(feed) /\ Tidy(p, es)
    BY <1>7, <1>13 DEF Seeks, Tidy
  <2>6. PieceOf(lv, p, es, m)
    BY <1>13, <2>4, <2>5, PieceLevel
  <2>7. lv \in Levels
    BY <2>6 DEF PieceOf
  <2>8. LedIn(feed, lv)
    BY <1>2, <1>4, <1>5, <1>13, <2>5, <2>6, PieceLed
  <2>9. es[i].kind = "branch"
    BY <2>2 DEF Enters
  <2>10. PICK e \in Entry : /\ e = es[i] /\ Contains(es, e) /\ e.name \in Words /\ e.name # <<>>
                            /\ p \o e.name \in Words
    BY <1>13, <2>2, <2>5, <2>9, PlaceIs
  <2>11. p \o e.name \in Forks
    BY <2>5, <2>9, <2>10 DEF Tidy
  <2>12. Leads(e, rest)
    BY <1>4, <1>5, <2>2, <2>10, <2>11, EntersOnTheWay
  <2>13. /\ y.key = key /\ y.path = p \o e.name /\ y.rest = After(rest, e.name)
         /\ y.stack = Append(s, lv)
    BY <1>4, <2>1, <2>3, <2>4, <2>10 DEF GoesOn
  <2>14. Walked(feed, p \o e.name)
    BY <1>2, <1>4, <1>5, <1>13, <2>2, <2>5, <2>9, <2>10, BranchesLed
  <2>15. IsPrefix(p \o e.name, key) /\ After(rest, e.name) = After(key, p \o e.name)
    <3>1. IsPrefix(e.name, rest) /\ p \in Words
      BY <2>12, PathsAre DEF Leads
    <3> QED
      BY <1>5, <2>10, <3>1, AfterTwice
  <2>16. OnTheWay(feed, y)
    BY <2>13, <2>14, <2>15 DEF OnTheWay
  <2>17. Led(feed, Append(s, lv))
    BY <1>5, <2>7, <2>8, OneMoreLed
  <2>18. ASSUME NEW k \in keys
         PROVE  Less(k, key) \/ Comes(Append(s, lv), k) \/ IsPrefix(p \o e.name, k)
    <3>1. \/ Less(k, key) \/ Comes(s, k)
          \/ \E j \in 1..Len(es) : j >= i /\ Toward(p, es[j], k)
      BY <1>8, <1>13, <2>2
    <3>2. ASSUME NEW j \in 1..Len(es), j >= i, Toward(p, es[j], k)
          PROVE  ComesIn(lv, k) \/ IsPrefix(p \o e.name, k)
      <4>1. CASE j = i
        BY <2>9, <2>10, <3>2, <4>1 DEF Toward
      <4>2. CASE j # i
        <5>1. j >= m
          BY <1>13, <2>2, <2>3, <3>2, <4>2, ManifestIs
        <5> QED
          BY <2>6, <3>2, <5>1, PieceComes
      <4> QED
        BY <4>1, <4>2
    <3> QED
      BY <2>7, <3>1, <3>2, OneMoreComes
  <2>19. SeekFits(feed, keys, y)
    BY <1>5, <2>13, <2>16, <2>17, <2>18 DEF SeekFits
  <2> QED
    BY <2>1, <2>2, <2>19
<1> QED
  BY <1>3, <1>6, <1>10, <1>11, <1>12, <1>13

\* One entry of a KVGetNext: of the keys, but for the one given out.
LEMMA NextEntryFits ==
    ASSUME Sound, Kept, InLine, NEW r \in Readers, NextEntry(r),
           NEW keys, keys \subseteq Present, ItrFits(feed, keys, itr)
    PROVE  ItrFits(feed, keys \ {itr'.last}, itr')
<1>1. SUFFICES ASSUME keys \ {itr'.last} # {} PROVE ItrFits(feed, keys \ {itr'.last}, itr')
  BY DEF ItrFits
<1>2. PICK start \in Words, stack \in Seq(Levels), last \in Words :
          /\ start = itr.start /\ stack = itr.stack /\ last = itr.last
          /\ Laid(stack, start) /\ Past(stack, last)
  BY DEF InLine, Iterators
<1>3. /\ Led(feed, stack) /\ (itr.done => Unexhausted(stack) = {})
      /\ \A k \in keys : Less(k, start) \/ Comes(stack, k)
  <2>1. keys # {}
    BY <1>1
  <2> QED
    BY <1>2, <2>1 DEF ItrFits
<1>4. itr \in Iterators
  BY DEF InLine
<1>5. \/ Unexhausted(stack) = {} /\ EndsIteration(r)
      \/ \E n \in Nat : \E e \in Entry : \E lv \in Levels : \E below \in Seq(Levels) :
            /\ IsTop(stack, n, e, lv, below)
            /\ \/ GivesOut(r, e, lv, below)
               \/ /\ e.kind = "branch" /\ feed[lv.path \o e.name] = Absent
                  /\ EndsIteration(r)
               \/ ComesToBranch(r, e, lv, below)
  BY <1>2, <1>4, NextEntryIs
<1>6. CASE Unexhausted(stack) = {} /\ EndsIteration(r)
  <2>1. itr'.start = start /\ itr'.stack = stack
    BY <1>2, <1>4, <1>6 DEF EndsIteration, Iterators
  <2> QED
    BY <1>3, <1>6, <2>1 DEF ItrFits
<1>7. ASSUME NEW n \in Nat, NEW e \in Entry, NEW lv \in Levels, NEW below \in Seq(Levels),
             IsTop(stack, n, e, lv, below),
             \/ GivesOut(r, e, lv, below)
             \/ /\ e.kind = "branch" /\ feed[lv.path \o e.name] = Absent
                /\ EndsIteration(r)
             \/ ComesToBranch(r, e, lv, below)
      PROVE  ItrFits(feed, keys \ {itr'.last}, itr')
  <2>1. PICK p \in Paths, es \in Manifests, t \in Manifests :
            /\ p = stack[n].path /\ es = stack[n].left /\ p = lv.path /\ t = lv.left
            /\ stack[n] \in Levels
    BY <1>7, LevelIs DEF IsTop
  <2>2. /\ n \in 1..Len(stack) /\ Len(es) \in Nat /\ Len(es) >= 1 /\ e = es[1]
        /\ Len(t) = Len(es) - 1 /\ \A a \in 1..Len(t) : t[a] = es[a + 1]
        /\ Len(below) = n - 1 /\ \A i \in 1..(n - 1) : below[i] = stack[i]
        /\ \A i \in 1..Len(stack) : i > n => Len(stack[i].left) = 0
    BY <1>7, <2>1, ManifestIs DEF IsTop
  <2>3. ~itr.done
    <3>1. n \in Unexhausted(stack)
      <4>1. stack[n].left # <<>> /\ n \in DOMAIN stack
        BY <2>1, <2>2, EmptyManifest
      <4> QED
        BY <4>1 DEF Unexhausted
    <3> QED
      BY <1>3, <3>1
  <2>4. PICK child : child = p \o e.name
    OBVIOUS
  <2>5. PICK rest \in Seq(Levels) : rest = Append(below, lv)
    BY AppendProperties
  <2>6. 1 \in 1..Len(es) /\ \A a \in 1..Len(t) : a + 1 \in 1..Len(es)
    BY <2>2
  <2>7. Led(feed, rest)
    <3>1. Led(feed, below)
      <4>1. \A i \in 1..Len(below) : i \in 1..Len(stack) /\ below[i] = stack[i]
        BY <2>2
      <4> QED
        BY <1>3, <4>1 DEF Led
    <3>2. LedIn(feed, stack[n])
      BY <1>3, <2>2 DEF Led
    <3>3. LedIn(feed, lv)
      BY <2>1, <2>2, <2>6, <3>2 DEF LedIn
    <3> QED
      BY <2>5, <3>1, <3>3, OneMoreLed
  <2>8. ASSUME NEW k \in keys, ~Less(k, start)
        PROVE  Comes(rest, k) \/ Toward(p, e, k)
    <3>1. PICK i \in 1..Len(stack) : ComesIn(stack[i], k)
      BY <1>3, <2>8 DEF Comes
    <3>2. PICK a \in 1..Len(stack[i].left) : Toward(stack[i].path, stack[i].left[a], k)
      BY <3>1 DEF ComesIn
    <3>3. Len(stack) \in Nat
      OBVIOUS
    <3>4. CASE i < n
      <4>1. i \in 1..Len(below) /\ below[i] = stack[i]
        BY <2>2, <3>3, <3>4
      <4>2. Comes(below, k)
        BY <3>1, <4>1 DEF Comes
      <4> QED
        BY <2>5, <4>2, OneMoreComes
    <3>5. CASE i = n
      <4>1. a \in 1..Len(es) /\ Toward(p, es[a], k)
        BY <2>1, <3>2, <3>5
      <4>2. CASE a = 1
        BY <2>2, <4>1, <4>2
      <4>3. CASE a # 1
        <5>1. PICK b \in 1..Len(t) : t[b] = es[a]
          <6>1. a - 1 \in 1..Len(t) /\ (a - 1) + 1 = a
            BY <2>2, <4>1, <4>3
          <6> QED
            BY <2>2, <6>1
        <5>2. ComesIn(lv, k)
          BY <2>1, <4>1, <5>1 DEF ComesIn
        <5> QED
          BY <2>5, <5>2, OneMoreComes
      <4> QED
        BY <4>2, <4>3
    <3>6. CASE i > n
      BY <2>2, <3>2, <3>6
    <3>7. i < n \/ i = n \/ i > n
      BY <3>3
    <3> QED
      BY <3>4, <3>5, <3>6, <3>7
  <2>9. e.kind = "branch" => child \in Paths /\ child # <<>> /\ Walked(feed, child)
    <3>1. Spells(p, es)
      BY <1>2, <2>1, <2>2 DEF Laid, FromStart
    <3>2. child \in Paths /\ child # <<>>
      BY <2>2, <2>4, <2>6, <3>1, PlaceIs
    <3>3. LedIn(feed, stack[n])
      BY <1>3, <2>2 DEF Led
    <3> QED
      BY <2>1, <2>2, <2>4, <2>6, <3>2, <3>3 DEF LedIn
  <2>10. e.kind = "branch" => feed[child] # Absent
    <3>1. SUFFICES ASSUME e.kind = "branch" PROVE feed[child] # Absent
      OBVIOUS
    <3>2. Whole(feed) /\ IsTrie(feed)
      BY DEF Kept, Whole
    <3>3. PICK q \in Paths : Walked(feed, q) /\ Precedes(feed, q, child)
      BY <2>9, <3>1, <3>2, WalkedBack
    <3>4. PICK m \in Words : /\ m = After(child, q) /\ q \o m = child /\ feed[q] # Absent
                             /\ Contains(feed[q], Branch(m))
      BY <2>9, <3>1, <3>2, <3>3, PrecedesIs
    <3> QED
      BY <3>2, <3>3, <3>4 DEF Whole
  <2>11. CASE GivesOut(r, e, lv, below)
    <3>1. /\ e.kind = "leaf" /\ itr'.stack = rest /\ itr'.last = child /\ itr'.start = start
          /\ itr'.done = itr.done
      BY <1>2, <1>4, <2>1, <2>4, <2>5, <2>11 DEF GivesOut, Iterators
    <3>2. \A k \in keys \ {child} : ~Toward(p, e, k)
      BY <2>4, <3>1 DEF Toward
    <3> QED
      BY <2>3, <2>7, <2>8, <3>1, <3>2 DEF ItrFits
  <2>12. CASE ComesToBranch(r, e, lv, below)
    <3>1. PICK l : l = Level(child, feed[child])
      OBVIOUS
    <3>2. /\ e.kind = "branch" /\ feed[child] # Absent
          /\ itr' = [itr EXCEPT !.stack = Append(rest, l)]
      BY <2>1, <2>4, <2>5, <2>12, <3>1 DEF ComesToBranch
    <3>3. itr'.stack = Append(rest, l) /\ itr'.start = start /\ itr'.done = itr.done
      BY <1>2, <1>4, <3>2 DEF Iterators
    <3>4. PICK m \in Manifests : m = feed[child] /\ IsTrie(feed)
      BY <2>9, <3>2, ManifestThere DEF Sound
    <3>5. l \in Levels /\ l.path = child /\ l.left = m
      BY <2>9, <3>1, <3>2, <3>4 DEF Level, Levels
    <3>6. LedIn(feed, l)
      BY <2>9, <3>2, <3>4, <3>5, BranchesLed DEF LedIn
    <3>7. ASSUME NEW k \in keys, Toward(p, e, k)
          PROVE  ComesIn(l, k)
      <4>1. IsPrefix(child, k)
        BY <2>4, <3>2, <3>7 DEF Toward
      <4>2. k \in Keys /\ ContentOf(feed)[k] # None /\ Whole(feed)
        BY DEF Present, Kept
      <4>3. PICK d \in Entry : Contains(m, d) /\ Toward(child, d, k)
        BY <2>9, <3>2, <3>4, <4>1, <4>2, Onward
      <4>4. PICK j \in 1..Len(m) : m[j] = d
        BY <4>3 DEF Contains
      <4> QED
        BY <3>5, <4>3, <4>4 DEF ComesIn
    <3>8. Led(feed, Append(rest, l))
      BY <2>7, <3>5, <3>6, OneMoreLed
    <3>9. \A k \in keys : Less(k, start) \/ Comes(Append(rest, l), k)
      BY <2>8, <3>5, <3>7, OneMoreComes
    <3> QED
      BY <2>3, <3>3, <3>8, <3>9 DEF ItrFits
  <2>13. ~(e.kind = "branch" /\ feed[lv.path \o e.name] = Absent)
    BY <2>1, <2>4, <2>10
  <2> QED
    BY <1>7, <2>11, <2>12, <2>13
<1> QED
  BY <1>5, <1>6, <1>7

\* One reader at most seeks or goes on to the manifest of a branch: openKVTMu.
Busy == {"seek", "next"}
Alone == \A r, s \in Readers : call[r].op \in Busy /\ call[s].op \in Busy => r = s

LEMMA AloneAfter ==
    ASSUME Sound, Alone, NEW c \in Clients, NEW y, Becomes(c, y),
           c \in Readers /\ y.op \in Busy => call[c].op \in Busy \/ ~Locked
    PROVE  Alone'
<1>1. call'[c] = y /\ \A d \in Clients : d # c => call'[d] = call[d]
  BY BecomesIs
<1>2. \A r \in Readers : call[r].op \in Busy => Locked
  BY ClientsAre DEF Locked, Busy
<1>3. SUFFICES ASSUME NEW r \in Readers, NEW s \in Readers, call'[r].op \in Busy,
                      call'[s].op \in Busy, r # s
               PROVE  FALSE
  BY DEF Alone, Busy
<1>4. r \in Clients /\ s \in Clients
  BY ClientsAre
<1>5. CASE r # c /\ s # c
  BY <1>1, <1>3, <1>4, <1>5 DEF Alone
<1>6. CASE r = c
  BY <1>1, <1>2, <1>3, <1>4, <1>6 DEF Alone
<1>7. CASE s = c
  BY <1>1, <1>2, <1>3, <1>4, <1>7 DEF Alone
<1> QED
  BY <1>5, <1>6, <1>7

LEMMA AloneInit == Init => Alone
<1> SUFFICES ASSUME Init PROVE Alone
  OBVIOUS
<1>1. \A r \in Readers : call[r] = Idle
  BY ClientsAre DEF Init
<1> QED
  BY <1>1, IdleTyped DEF Alone, Busy

LEMMA AloneStep ==
    ASSUME Sound, Kept, Tidied, InLine, Alone, [Next]_vars
    PROVE  Alone'
<1>1. CASE UNCHANGED vars
  BY <1>1 DEF Alone, Busy, vars
<1>2. CASE Next
  <2>1. ASSUME NEW c \in Writers, Writes(c) \/ DeleteKVTable(c)
        PROVE  Alone'
    <3>1. PICK y : Becomes(c, y)
      BY <2>1, WritesTidy
    <3> QED
      BY <3>1, AloneAfter, ClientsAre
  <2>2. ASSUME NEW r \in Readers, NEW k \in Keys, KVGet(r, k)
        PROVE  Alone'
    <3>1. PICK y : Becomes(r, y) /\ y.op = "get"
      BY <2>2, KVGetOnTheWay
    <3> QED
      BY <3>1, AloneAfter, ClientsAre DEF Busy
  <2>3. ASSUME NEW r \in Readers, NEW s \in Starts, KVSeek(r, s)
        PROVE  Alone'
    <3>1. PICK y : Becomes(r, y)
      BY <2>3, KVSeekLaid
    <3>2. ~Locked
      BY <2>3 DEF KVSeek, Begin
    <3> QED
      BY <3>1, <3>2, AloneAfter, ClientsAre
  <2>4. ASSUME NEW r \in Readers, seekRead(r)
        PROVE  Alone'
    <3>1. PICK y : Becomes(r, y)
      BY <2>4, seekReadLaid
    <3>2. call[r].op \in Busy
      BY <2>4 DEF seekRead, Busy
    <3> QED
      BY <3>1, <3>2, AloneAfter, ClientsAre
  <2>5. ASSUME NEW r \in Readers, KVGetNext(r) \/ nextRead(r)
        PROVE  Alone'
    <3>1. NextEntry(r)
      BY <2>5 DEF KVGetNext, nextRead
    <3>2. PICK y : Becomes(r, y)
      BY <3>1, NextEntryLaid
    <3>3. call[r].op \in Busy \/ ~Locked
      BY <2>5 DEF KVGetNext, nextRead, Busy
    <3> QED
      BY <3>2, <3>3, AloneAfter, ClientsAre
  <2>6. ASSUME NEW r \in Readers, getRead(r)
        PROVE  Alone'
    <3>1. PICK y : Becomes(r, y) /\ y.op \in {"get", "idle"}
      <4>1. call[r] \in Calls /\ call[r].op = "get"
        BY <2>6, getReadDoes
      <4>2. \A n : Moved(call[r], n).op = "get"
        BY <4>1, MovedIs
      <4> QED
        BY <2>6, <4>2, getReadDoes, IdleTyped DEF Becomes
    <3> QED
      BY <3>1, AloneAfter, ClientsAre DEF Busy
  <2>7. OpenKVTable => Alone'
    BY DEF OpenKVTable, Alone, Busy
  <2>8. Crash => Alone'
    BY CrashDoes, ClientsAre, IdleTyped DEF Alone, Busy
  <2> QED
    BY <1>2, <2>1, <2>2, <2>3, <2>4, <2>5, <2>6, <2>7, <2>8, StepsAre DEF Reads
<1> QED
  BY <1>1, <1>2

Seeking == \E r \in Readers : call[r].op = "seek"

\* What the histories say of the keys that are due.
LEMMA DueIs ==
    ASSUME Remember
    PROVE  /\ due'.seek \subseteq Present' /\ due'.itr \subseteq Present'
           /\ Seeking => due'.seek \subseteq due.seek
           /\ itr' = itr \/ ~Seeking => due'.itr \subseteq due.itr \ {itr'.last}
           /\ itr' # itr /\ Seeking => due'.itr \subseteq due.seek
           /\ itr' = NoIterator => due'.itr = {}
<1>1. PICK seek : seek = IF \A r \in Readers : call'[r].op # "seek" THEN {}
                         ELSE IF Seeking THEN due.seek \cap Present' ELSE Present'
  OBVIOUS
<1>2. PICK left : left = (IF itr' # itr /\ Seeking THEN due.seek ELSE due.itr \ {itr'.last})
                            \cap IF itr' = NoIterator THEN {} ELSE Present'
  OBVIOUS
<1>3. due' = [seek |-> seek, itr |-> left]
  BY <1>1, <1>2 DEF Remember, Seeking
<1>4. due'.seek = seek /\ due'.itr = left
  BY <1>3
<1>5. seek \subseteq Present' /\ (Seeking => seek \subseteq due.seek)
  BY <1>1
<1>6. /\ left \subseteq Present' /\ (itr' = NoIterator => left = {})
      /\ itr' = itr \/ ~Seeking => left \subseteq due.itr \ {itr'.last}
      /\ itr' # itr /\ Seeking => left \subseteq due.seek
  BY <1>2
<1> QED
  BY <1>4, <1>5, <1>6

NothingMissed ==
    /\ due.seek \subseteq Present /\ due.itr \subseteq Present
    /\ ItrFits(feed, due.itr, itr)
    /\ \A r \in Readers : call[r].op = "seek" => SeekFits(feed, due.seek, call[r])

LEMMA FewerKeys ==
    ASSUME NEW f, NEW keys, NEW new, new \subseteq keys
    PROVE  /\ \A x : SeekFits(f, keys, x) => SeekFits(f, new, x)
           /\ \A j : ItrFits(f, keys, j) => ItrFits(f, new, j)
<1>1. \A x : SeekFits(f, keys, x) => SeekFits(f, new, x)
  BY DEF SeekFits
<1>2. \A j : ItrFits(f, keys, j) => ItrFits(f, new, j)
  <2>1. new # {} => keys # {}
    OBVIOUS
  <2> QED
    BY <2>1 DEF ItrFits
<1> QED
  BY <1>1, <1>2

\* The seeks of readers that have no part in a step.
LEMMA MissedAfter ==
    ASSUME Sound, InLine, NothingMissed, Remember, ItrFits(feed', due'.itr, itr'),
           \A q \in Paths : Walked(feed, q) => Walked(feed', q),
           \A r \in Readers : call'[r].op = "seek" =>
               call'[r] = call[r] \/ SeekFits(feed', due'.seek, call'[r])
    PROVE  NothingMissed'
<1>1. due'.seek \subseteq Present' /\ due'.itr \subseteq Present'
  BY DueIs
<1>2. ASSUME NEW r \in Readers, call'[r].op = "seek", call'[r] = call[r]
      PROVE  SeekFits(feed', due'.seek, call'[r])
  <2>1. PICK x \in Calls : x = call[r] /\ x.op = "seek"
    BY <1>2, ClientsAre DEF Sound, CallsTyped
  <2>2. SeekLaid(x) /\ SeekFits(feed, due.seek, x)
    BY <2>1 DEF InLine, NothingMissed
  <2>3. due'.seek \subseteq due.seek
    BY <2>1, DueIs DEF Seeking
  <2>4. SeekFits(feed', due'.seek, x)
    BY <2>2, <2>3, SeekFitsStays
  <2> QED
    BY <1>2, <2>1, <2>4
<1> QED
  BY <1>1, <1>2 DEF NothingMissed, Present

\* A step that leaves the iterator alone.
LEMMA MissedSame ==
    ASSUME Sound, InLine, NothingMissed, Remember, itr' = itr,
           \A q \in Paths : Walked(feed, q) => Walked(feed', q),
           \A r \in Readers : call'[r].op = "seek" =>
               call'[r] = call[r] \/ SeekFits(feed', due'.seek, call'[r])
    PROVE  NothingMissed'
<1>1. PICK j \in Iterators : j = itr /\ Laid(j.stack, j.start) /\ ItrFits(feed, due.itr, j)
  BY DEF InLine, NothingMissed
<1>2. due'.itr \subseteq due.itr
  BY DueIs
<1>3. ItrFits(feed', due'.itr, j)
  BY <1>1, <1>2, ItrFitsStays
<1> QED
  BY <1>1, <1>3, MissedAfter

LEMMA NothingMissedInit == Init => NothingMissed
<1> SUFFICES ASSUME Init PROVE NothingMissed
  OBVIOUS
<1>1. \A r \in Readers : call[r] = Idle
  BY ClientsAre DEF Init
<1>2. due.seek = {} /\ due.itr = {}
  BY DEF Init
<1> QED
  BY <1>1, <1>2, IdleTyped DEF NothingMissed, ItrFits

LEMMA DropMissed ==
    ASSUME Sound, Kept, Remember, NEW c \in Writers, DeleteKVTable(c)
    PROVE  NothingMissed'
<1>1. PICK y : ContentOf(feed') = [k \in Keys |-> None] /\ Becomes(c, y)
  BY DropKeeps
<1>2. content' = ContentOf(feed')
  BY DEF Remember, Kept
<1>3. Present' = {}
  BY <1>1, <1>2 DEF Present
<1>4. due'.seek = {} /\ due'.itr = {}
  BY <1>3, DueIs
<1>5. \A r \in Readers : call'[r] = call[r] /\ call[r].op # "seek"
  BY <1>1, BecomesIs, ClientsAre DEF DeleteKVTable, Locked
<1> QED
  BY <1>4, <1>5 DEF NothingMissed, ItrFits

LEMMA NothingMissedStep ==
    ASSUME OneWriter, ~PutsBranchKeys, FittingStarts, Sound, Kept, Tidied, InLine, Alone,
           NothingMissed, [Next]_vars
    PROVE  NothingMissed'
<1>1. CASE UNCHANGED vars
  BY <1>1 DEF NothingMissed, Present, vars
<1>2. CASE Next
  <2>1. Remember
    BY <1>2, StepsAre
  <2>2. ASSUME NEW c \in Writers, Writes(c)
        PROVE  NothingMissed'
    <3>1. PICK y : Altered(feed, feed') /\ Becomes(c, y)
      BY <2>2, WritesKeep
    <3>2. \A r \in Readers : call'[r] = call[r]
      BY <3>1, BecomesIs, ClientsAre
    <3>3. itr' = itr
      BY <2>2, WritesLeave
    <3> QED
      BY <2>1, <3>1, <3>2, <3>3, MissedSame DEF Altered
  <2>3. ASSUME NEW r \in Readers, NEW y, feed' = feed, itr' = itr, Becomes(r, y),
               y.op = "seek" => SeekFits(feed', due'.seek, y)
        PROVE  NothingMissed'
    <3>1. call'[r] = y /\ \A s \in Readers : s # r => call'[s] = call[s]
      BY <2>3, BecomesIs, ClientsAre
    <3> QED
      BY <2>1, <2>3, <3>1, MissedSame
  <2>4. ASSUME NEW r \in Readers, NEW k \in Keys, KVGet(r, k)
        PROVE  NothingMissed'
    <3>1. itr' = itr
      BY <2>4 DEF KVGet
    <3> QED
      BY <2>3, <2>4, <3>1, KVGetOnTheWay
  <2>5. ASSUME NEW r \in Readers, NEW s \in Starts, KVSeek(r, s)
        PROVE  NothingMissed'
    <3>1. PICK y : /\ feed' = feed /\ itr' = itr /\ Becomes(r, y) /\ y \in Calls /\ y.key = s
                   /\ y.path = <<>> /\ y.rest = s /\ y.stack = <<>> /\ y.rest = After(s, <<>>)
      BY <2>5, KVSeekLaid
    <3>2. s \in Words /\ IsPrefix(<<>>, s)
      BY KVAssumption, PrefixItself
    <3>3. OnTheWay(feed, y)
      BY <3>1, <3>2, WalkedRoot DEF OnTheWay
    <3>4. \A k \in due'.seek : IsPrefix(<<>>, k)
      BY <2>1, DueIs, KVAssumption, PrefixItself DEF Present
    <3>5. SeekFits(feed', due'.seek, y)
      BY <3>1, <3>3, <3>4, NoLevels DEF SeekFits
    <3> QED
      BY <2>3, <3>1, <3>5
  <2>6. ASSUME NEW r \in Readers, seekRead(r)
        PROVE  NothingMissed'
    <3>1. call[r].op = "seek" /\ Seeking
      BY <2>6 DEF seekRead, Seeking
    <3>2. PICK keys : keys = due.seek /\ keys \subseteq Present /\ SeekFits(feed, keys, call[r])
      BY <3>1 DEF NothingMissed
    <3>3. PICK y : /\ Becomes(r, y) /\ (y.op = "seek" => SeekFits(feed, keys, y))
                   /\ itr' = itr \/ ItrFits(feed, keys, itr')
      BY <2>6, <3>2, seekReadFits
    <3>4. feed' = feed
      BY <2>6, seekReadLaid
    <3>5. due'.seek \subseteq keys
      BY <2>1, <3>1, <3>2, DueIs
    <3>6. y.op = "seek" => SeekFits(feed', due'.seek, y)
      BY <3>3, <3>4, <3>5, FewerKeys
    <3>7. CASE itr' = itr
      BY <2>3, <3>3, <3>4, <3>6, <3>7
    <3>8. CASE itr' # itr
      <4>1. due'.itr \subseteq keys
        BY <2>1, <3>1, <3>2, <3>8, DueIs
      <4>2. ItrFits(feed', due'.itr, itr')
        BY <3>3, <3>4, <3>8, <4>1, FewerKeys
      <4>3. call'[r] = y /\ \A s \in Readers : s # r => call'[s] = call[s]
        BY <3>3, BecomesIs, ClientsAre
      <4> QED
        BY <2>1, <3>4, <3>6, <4>2, <4>3, MissedAfter
    <3> QED
      BY <3>7, <3>8
  <2>7. ASSUME NEW r \in Readers, KVGetNext(r) \/ nextRead(r)
        PROVE  NothingMissed'
    <3>1. NextEntry(r)
      BY <2>7 DEF KVGetNext, nextRead
    <3>2. PICK y : Becomes(r, y) /\ y.op # "seek"
      BY <3>1, NextEntryLaid
    <3>3. feed' = feed
      BY <3>1, NextEntryDoes
    <3>4. ~Seeking
      <4>1. CASE KVGetNext(r)
        BY <4>1, ClientsAre DEF KVGetNext, Locked, Seeking
      <4>2. CASE nextRead(r)
        BY <4>2 DEF nextRead, Alone, Seeking, Busy
      <4> QED
        BY <2>7, <4>1, <4>2
    <3>5. PICK keys : keys = due.itr /\ keys \subseteq Present /\ ItrFits(feed, keys, itr)
      BY DEF NothingMissed
    <3>6. ItrFits(feed, keys \ {itr'.last}, itr')
      BY <3>1, <3>5, NextEntryFits
    <3>7. due'.itr \subseteq keys \ {itr'.last}
      BY <2>1, <3>4, <3>5, DueIs
    <3>8. ItrFits(feed', due'.itr, itr')
      BY <3>3, <3>6, <3>7, FewerKeys
    <3>9. call'[r] = y /\ \A s \in Readers : s # r => call'[s] = call[s]
      BY <3>2, BecomesIs, ClientsAre
    <3> QED
      BY <2>1, <3>2, <3>3, <3>8, <3>9, MissedAfter
  <2>8. ASSUME NEW r \in Readers, getRead(r)
        PROVE  NothingMissed'
    <3>1. PICK y : Becomes(r, y) /\ y.op # "seek"
      <4>1. call[r] \in Calls /\ call[r].op = "get"
        BY <2>8, getReadDoes
      <4>2. \A n : Moved(call[r], n).op = "get"
        BY <4>1, MovedIs
      <4> QED
        BY <2>8, <4>2, getReadDoes, IdleTyped DEF Becomes
    <3>2. itr' = itr /\ feed' = feed
      BY <2>8 DEF getRead
    <3> QED
      BY <2>3, <3>1, <3>2
  <2>9. ASSUME OpenKVTable
        PROVE  NothingMissed'
    BY <2>1, <2>9, MissedSame DEF OpenKVTable
  <2>10. ASSUME Crash
         PROVE  NothingMissed'
    <3>1. feed' = feed /\ \A r \in Readers : call'[r] = Idle
      BY <2>10, CrashDoes, ClientsAre
    <3>2. due'.itr = {}
      BY <2>1, <2>10, DueIs DEF Crash
    <3> QED
      BY <2>1, <3>1, <3>2, IdleTyped, MissedAfter DEF ItrFits
  <2> QED
    BY <1>2, <2>1, <2>2, <2>4, <2>5, <2>6, <2>7, <2>8, <2>9, <2>10, DropMissed, StepsAre DEF Reads
<1> QED
  BY <1>1, <1>2

LEMMA NothingMissedMeansComplete ==
    ASSUME InLine, NothingMissed
    PROVE  IterationComplete
<1> SUFFICES ASSUME itr.done, NEW k \in due.itr PROVE Less(k, itr.start)
  BY DEF IterationComplete
<1>1. PICK stack \in Seq(Levels) : stack = itr.stack
  BY DEF InLine, Iterators
<1>2. Unexhausted(stack) = {} /\ (Less(k, itr.start) \/ Comes(stack, k))
  <2>1. due.itr # {} /\ ItrFits(feed, due.itr, itr)
    BY DEF NothingMissed
  <2> QED
    BY <1>1, <2>1 DEF ItrFits
<1>3. ~Comes(stack, k)
  <2>1. SUFFICES ASSUME NEW i \in 1..Len(stack), NEW a \in 1..Len(stack[i].left) PROVE FALSE
    BY DEF Comes, ComesIn
  <2>2. stack[i].left = <<>>
    BY <1>2 DEF Unexhausted
  <2> QED
    BY <2>1, <2>2, EmptyManifest
<1> QED
  BY <1>2, <1>3

\* When KVGetNext has no more elements, every key from the start on that was in
\* the table since the seek began has been given out, although puts split the
\* manifests that are still to come and others of their keys are deleted: what a
\* seek leaves on the stack and what the branches there lead to hold the keys
\* that are due, and no store cuts a branch off (KVSeek, KVGetNext, seekStringKey
\* and nextStringKey, pkg/collection/kv.go and iterator.go).
THEOREM KVIterationComplete ==
    ASSUME OneWriter, ~PutsBranchKeys, FittingStarts
    PROVE  Spec => []IterationComplete
<1> DEFINE Inv == Sound /\ Kept /\ Tidied /\ InLine /\ Alone /\ NothingMissed
<1>1. Init => Inv
  BY SoundInit, KeptInit, TidiedInit, InLineInit, AloneInit, NothingMissedInit
<1>2. Inv /\ [Next]_vars => Inv'
  BY SoundStep, KeptStep, TidiedStep, InLineStep, AloneStep, NothingMissedStep
<1>3. Inv => IterationComplete
  BY NothingMissedMeansComplete
<1> HIDE DEF Inv
<1> QED
  BY <1>1, <1>2, <1>3, PTL DEF Spec
=============================================================================
