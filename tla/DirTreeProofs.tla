--------------------------- MODULE DirTreeProofs ---------------------------
(***************************************************************************)
(* The directory tree of a pod.  Until a directory is moved, or a backup   *)
(* left by an upload that failed, every file has a content of its own,     *)
(* which is there, and what a path is cached as is what its feed says: for *)
(* trees of any depth.  In a tree of one level directories list exactly    *)
(* what there is in them, but for the files that refused uploads left      *)
(* unlisted, also when directories move; and until then a call that fails  *)
(* has stored nothing, such an upload excepted.  (Below the first level    *)
(* RemoveInode corrects the wrong directory.)                              *)
(*                                                                         *)
(* First the loops and recursions the calls are made of: each has a value, *)
(* the one its equation says, and keeps what its body keeps.  Then paths,  *)
(* lists of entries, what each call does to directories and to files, what *)
(* the walks of RmDir, SyncDirectory and mapChildrenToNewPath do, what     *)
(* each handler does, and the two invariants, Kept and Whole.              *)
(***************************************************************************)
EXTENDS DirTree, SequenceTheorems, WellFoundedInduction, TLAPS

-----------------------------------------------------------------------------
\* A set of natural numbers that is not empty has a least one; it stands for
\* induction.
LEMMA LeastNatural ==
    ASSUME NEW T \in SUBSET Nat, T # {}
    PROVE  \E x \in T : \A y \in T : x <= y
<1> DEFINE R == {ss \in Nat \X Nat : ss[1] < ss[2]}
<1>1. IsWellFoundedOn(R, Nat)
  BY NatLessThanWellFounded DEF OpToRel
<1>2. \A x, y \in Nat : y < x => <<y, x>> \in R
  OBVIOUS
<1> HIDE DEF R
<1>3. PICK x \in T : \A y \in T : ~ (<<y, x>> \in R)
  BY <1>1, WFMin
<1>4. ASSUME NEW y \in T
      PROVE  x <= y
  <2>1. ~ (<<y, x>> \in R)
    BY <1>3
  <2>2. x \in Nat /\ y \in Nat /\ ~ (y < x)
    BY <1>2, <2>1
  <2> QED
    BY <2>2
<1> QED
  BY <1>4

\* What holds of every position once it holds of those of smaller weight holds
\* of all: the walks over the tree end because paths grow up to MaxDepth.
LEMMA MeasureInduction ==
    ASSUME NEW S, NEW m \in [S -> Nat], NEW T,
           \A x \in S : (\A y \in S : m[y] < m[x] => y \in T) => x \in T
    PROVE  S \subseteq T
<1> SUFFICES ASSUME NEW z \in S, z \notin T
             PROVE  FALSE
  OBVIOUS
<1> DEFINE N == {n \in Nat : \E x \in S : x \notin T /\ m[x] = n}
<1>1. m[z] \in N
  OBVIOUS
<1>2. PICK n \in N : \A k \in N : n <= k
  <2> HIDE DEF N
  <2>1. N \in SUBSET Nat
    BY DEF N
  <2> QED
    BY <1>1, <2>1, LeastNatural
<1>3. PICK x \in S : x \notin T /\ m[x] = n
  BY <1>2
<1>4. ASSUME NEW y \in S, m[y] < m[x], y \notin T
      PROVE  FALSE
  <2>1. m[y] \in N
    BY <1>4
  <2>2. m[x] <= m[y]
    BY <1>2, <1>3, <2>1
  <2> QED
    BY <1>4, <2>2
<1> QED
  BY <1>3, <1>4

\* Def computes the value at a position from a function's values at positions of
\* smaller weight.
LooksDown(S, V, m, Def) ==
    /\ V # {} /\ m \in [S -> Nat] /\ Def \in [[S -> V] \X S -> V]
    /\ \A g, h \in [S -> V] : \A x \in S :
          (\A y \in S : m[y] < m[x] => g[y] = h[y]) => Def[<<g, x>>] = Def[<<h, x>>]

\* Some function satisfies the equation everywhere.
HasSolution(S, V, Def) == \E f \in [S -> V] : \A x \in S : f[x] = Def[<<f, x>>]

\* A recursion that only looks at smaller weights is solved by some function,
\* so that RmDir, SyncDirectory and mapChildrenToNewPath are what theirs say.
LEMMA RecursionHasSolution ==
    ASSUME NEW S, NEW V, NEW m, NEW Def, LooksDown(S, V, m, Def)
    PROVE  HasSolution(S, V, Def)
<1>0. /\ V # {} /\ m \in [S -> Nat] /\ Def \in [[S -> V] \X S -> V]
      /\ \A g, h \in [S -> V] : \A x \in S :
            (\A y \in S : m[y] < m[x] => g[y] = h[y]) => Def[<<g, x>>] = Def[<<h, x>>]
  BY DEF LooksDown
<1> USE <1>0
<1> DEFINE Upto(n, g) == \A x \in S : m[x] < n => g[x] = Def[<<g, x>>]
\* Two solutions agree as far as both reach.
<1>1. ASSUME NEW n \in Nat, NEW k \in Nat, NEW g \in [S -> V], NEW h \in [S -> V],
             Upto(n, g), Upto(k, h)
      PROVE  \A x \in S : m[x] < n /\ m[x] < k => g[x] = h[x]
  <2> DEFINE T == {x \in S : m[x] < n /\ m[x] < k => g[x] = h[x]}
  <2>1. ASSUME NEW x \in S, \A y \in S : m[y] < m[x] => y \in T
        PROVE  x \in T
    <3> SUFFICES ASSUME m[x] < n, m[x] < k
                 PROVE  g[x] = h[x]
      OBVIOUS
    <3>1. \A y \in S : m[y] < m[x] => g[y] = h[y]
      <4>1. \A y \in S : m[y] \in Nat /\ m[x] \in Nat
        OBVIOUS
      <4> QED
        BY <2>1, <4>1
    <3>2. Def[<<g, x>>] = Def[<<h, x>>]
      BY <1>0, <3>1
    <3> QED
      BY <1>1, <3>2
  <2> HIDE DEF T
  <2>2. S \subseteq T
    BY <1>0, <2>1, MeasureInduction
  <2> QED
    BY <2>2 DEF T
\* Every bound is reached.
<1>2. \A n \in Nat : \E g \in [S -> V] : Upto(n, g)
  <2> DEFINE Bad == {n \in Nat : ~ \E g \in [S -> V] : Upto(n, g)}
  <2> SUFFICES ASSUME Bad # {}
               PROVE  FALSE
    OBVIOUS
  <2>1. PICK n \in Bad : \A k \in Bad : n <= k
    <3>1. Bad \in SUBSET Nat
      OBVIOUS
    <3> HIDE DEF Bad
    <3> QED
      BY <3>1, LeastNatural
  <2>2. n \in Nat
    BY <2>1
  <2>3. n # 0
    <3>1. PICK v \in V : TRUE
      OBVIOUS
    <3>2. [x \in S |-> v] \in [S -> V] /\ Upto(0, [x \in S |-> v])
      OBVIOUS
    <3> QED
      BY <2>1, <3>2
  <2>4. PICK g \in [S -> V] : Upto(n - 1, g)
    <3>1. n - 1 \in Nat /\ ~(n <= n - 1)
      BY <2>2, <2>3
    <3>2. n - 1 \notin Bad
      BY <2>1, <3>1
    <3> QED
      BY <3>1, <3>2
  <2> DEFINE h == [x \in S |-> Def[<<g, x>>]]
  <2>5. h \in [S -> V]
    OBVIOUS
  <2>6. \A y \in S : m[y] < n - 1 => h[y] = g[y]
    BY <2>4
  <2>7. ASSUME NEW x \in S, m[x] < n
        PROVE  h[x] = Def[<<h, x>>]
    <3>1. \A y \in S : m[y] < m[x] => g[y] = h[y]
      <4>1. \A y \in S : m[y] < m[x] => m[y] < n - 1
        BY <2>2, <2>7
      <4> QED
        BY <2>6, <4>1
    <3>2. Def[<<g, x>>] = Def[<<h, x>>]
      BY <1>0, <2>5, <3>1
    <3> QED
      BY <3>2
  <2> QED
    BY <2>1, <2>5, <2>7
<1> DEFINE G == [n \in Nat |-> CHOOSE g \in [S -> V] : Upto(n, g)]
           f == [x \in S |-> G[m[x] + 1][x]]
<1>3. \A n \in Nat : G[n] \in [S -> V] /\ Upto(n, G[n])
  BY <1>2
<1> HIDE DEF G
<1>4. \A x \in S : m[x] \in Nat /\ m[x] + 1 \in Nat
  BY <1>0
<1>5. f \in [S -> V]
  BY <1>3, <1>4
<1>6. ASSUME NEW x \in S
      PROVE  f[x] = Def[<<f, x>>]
  <2>1. G[m[x] + 1] \in [S -> V] /\ Upto(m[x] + 1, G[m[x] + 1])
    BY <1>3, <1>4
  <2>2. ASSUME NEW y \in S, m[y] < m[x]
        PROVE  G[m[x] + 1][y] = f[y]
    <3>1. G[m[y] + 1] \in [S -> V] /\ Upto(m[y] + 1, G[m[y] + 1])
      BY <1>3, <1>4
    <3>2. m[y] < m[x] + 1 /\ m[y] < m[y] + 1
      BY <1>4, <2>2
    <3> DEFINE a == G[m[x] + 1]
               b == G[m[y] + 1]
    <3>3. a \in [S -> V] /\ b \in [S -> V] /\ Upto(m[x] + 1, a) /\ Upto(m[y] + 1, b)
      BY <2>1, <3>1
    <3>4. f[y] = b[y]
      OBVIOUS
    <3> HIDE DEF a, b, f, Upto
    <3>5. \A z \in S : m[z] < m[x] + 1 /\ m[z] < m[y] + 1 => a[z] = b[z]
      BY SMTT(40), <1>1, <1>4, <3>3
    <3>6. a[y] = b[y]
      BY <3>2, <3>5
    <3>7. a[y] = f[y]
      BY <3>4, <3>6
    <3> QED
      BY <3>7 DEF a
  <2>3. Def[<<G[m[x] + 1], x>>] = Def[<<f, x>>]
    BY <1>0, <1>5, <2>1, <2>2
  <2>4. m[x] < m[x] + 1
    BY <1>4
  <2> QED
    BY <2>1, <2>3, <2>4
<1> QED
  BY <1>5, <1>6 DEF HasSolution

-----------------------------------------------------------------------------
\* Loops over the entries of a directory.

\* Of positions there is a last one.
LEMMA LastPosition ==
    ASSUME NEW n \in Nat, NEW T \in SUBSET (1..n), T # {}
    PROVE  /\ Max(T) \in T
           /\ \A i \in T : i <= Max(T)
<1> DEFINE Left == {n - i : i \in T}
<1>1. Left \in SUBSET Nat /\ Left # {}
  <2>1. \A i \in T : i \in 1..n /\ n - i \in Nat
    OBVIOUS
  <2> QED
    BY <2>1
<1>2. PICK k \in Left : \A j \in Left : k <= j
  <2> HIDE DEF Left
  <2> QED
    BY <1>1, LeastNatural
<1>3. PICK x \in T : k = n - x
  BY <1>2
<1>4. ASSUME NEW i \in T
      PROVE  x >= i
  <2>1. n - x <= n - i /\ i \in Nat /\ x \in Nat
    BY SMTT(40), <1>2, <1>3
  <2> QED
    BY <2>1
<1>5. /\ Max(T) \in T
      /\ \A i \in T : Max(T) >= i
  BY <1>4 DEF Max
<1> QED
  BY <1>5

\* The value after each entry of a loop.
Steps(handle, start, entries, after) ==
    /\ after[0] = start
    /\ \A k \in 1..Len(entries) : after[k] = handle[entries[k]][after[k - 1]]

Loop(E, X, handle, start, entries) ==
    handle \in [E -> [X -> X]] /\ start \in X /\ entries \in Seq(E)
LoopSteps(X, handle, start, entries) ==
    \E after \in [0..Len(entries) -> X] :
        /\ Steps(handle, start, entries, after)
        /\ Each(handle, start, entries) = after[Len(entries)]

\* A loop goes through its entries one by one: what FoldLeft computes of the set
\* of positions is what its body makes of the value the positions before left.
LEMMA LoopIs ==
    ASSUME NEW E, NEW X, NEW handle, NEW start, NEW entries,
           Loop(E, X, handle, start, entries)
    PROVE  LoopSteps(X, handle, start, entries)
<1> handle \in [E -> [X -> X]] /\ start \in X /\ entries \in Seq(E)
  BY DEF Loop
<1> DEFINE n == Len(entries)
           S == SUBSET (1..n)
           m == [T \in S |-> IF T = {} THEN 0 ELSE Max(T)]
           Body(g, T) == IF T = {} THEN start
                         ELSE handle[entries[Max(T)]][g[T \ {Max(T)}]]
           Def == [p \in [S -> X] \X S |-> Body(p[1], p[2])]
           it == CHOOSE g : g = [T \in S |-> Body(g, T)]
<1>0. n \in Nat /\ DOMAIN entries = 1..n /\ \A i \in 1..n : entries[i] \in E
  BY LenProperties, ElementOfSeq
<1>1. \A T \in S : T # {} => /\ Max(T) \in T /\ Max(T) \in 1..n
                             /\ T \ {Max(T)} \in S
                             /\ \A i \in T : i <= Max(T)
  BY <1>0, LastPosition
<1>2. m \in [S -> Nat]
  BY <1>0, <1>1
<1>3. ASSUME NEW T \in S, T # {}
      PROVE  m[T \ {Max(T)}] < m[T]
  <2> DEFINE U == T \ {Max(T)}
  <2>1. U \in S /\ m[T] = Max(T) /\ Max(T) \in 1..n
    BY <1>1, <1>3
  <2>2. CASE U = {}
    <3>1. m[U] = 0
      BY <2>1, <2>2
    <3> QED
      BY <2>1, <3>1
  <2>3. CASE U # {}
    <3>1. m[U] = Max(U) /\ Max(U) \in U /\ Max(U) \in 1..n
      BY <1>1, <2>1, <2>3
    <3>2. Max(U) <= Max(T) /\ Max(U) # Max(T)
      BY <1>1, <1>3, <3>1
    <3> QED
      BY <2>1, <3>1, <3>2
  <2> QED
    BY <2>2, <2>3
<1>4. \A g \in [S -> X] : \A T \in S : Body(g, T) \in X
  BY <1>0, <1>1
<1>5. Def \in [[S -> X] \X S -> X] /\ \A g \in [S -> X], T \in S : Def[<<g, T>>] = Body(g, T)
  BY <1>4
<1>6. ASSUME NEW g, NEW h, NEW T \in S, \A U \in S : m[U] < m[T] => g[U] = h[U]
      PROVE  Body(g, T) = Body(h, T)
  <2>1. CASE T # {}
    <3>1. g[T \ {Max(T)}] = h[T \ {Max(T)}]
      <4> HIDE DEF m
      <4> QED
        BY <1>1, <1>3, <1>6, <2>1
    <3> QED
      BY <2>1, <3>1
  <2> QED
    BY <2>1
<1>7. PICK f \in [S -> X] : \A T \in S : f[T] = Def[<<f, T>>]
  <2> HIDE DEF m, S, Def
  <2>1. X # {}
    OBVIOUS
  <2>2. LooksDown(S, X, m, Def)
    <3>1. \A g, h \in [S -> X] : \A T \in S :
             (\A U \in S : m[U] < m[T] => g[U] = h[U]) => Def[<<g, T>>] = Def[<<h, T>>]
      <4> SUFFICES ASSUME NEW g \in [S -> X], NEW h \in [S -> X], NEW T \in S,
                          \A U \in S : m[U] < m[T] => g[U] = h[U]
                   PROVE  Def[<<g, T>>] = Def[<<h, T>>]
        OBVIOUS
      <4> HIDE DEF Body
      <4>1. Body(g, T) = Body(h, T)
        BY <1>6
      <4> QED
        BY <1>5, <4>1
    <3> QED
      BY <1>2, <1>5, <2>1, <3>1 DEF LooksDown
  <2>3. HasSolution(S, X, Def)
    BY <2>2, RecursionHasSolution
  <2> QED
    BY <2>3 DEF HasSolution
<1>8. f = [T \in S |-> Body(f, T)]
  BY <1>5, <1>7
<1>9. it = [T \in S |-> Body(it, T)]
  <2> HIDE DEF Body
  <2> QED
    BY <1>8
<1>10. Each(handle, start, entries) = it[1..n]
  BY <1>0 DEF Each, FoldLeft, MapThenFoldSet
<1>11. ASSUME NEW T \in S
       PROVE  it[T] = Body(it, T)
  <2> HIDE DEF Body, it
  <2> QED
    BY <1>9
<1> HIDE DEF it
<1>12. S \subseteq {T \in S : it[T] \in X}
  <2>1. ASSUME NEW T \in S, \A U \in S : m[U] < m[T] => it[U] \in X
        PROVE  it[T] \in X
    <3>1. CASE T = {}
      BY <1>11, <3>1
    <3>2. CASE T # {}
      <4>1. it[T \ {Max(T)}] \in X
        <5> HIDE DEF m
        <5> QED
          BY <1>1, <1>3, <2>1, <3>2
      <4>2. handle[entries[Max(T)]] \in [X -> X]
        BY <1>0, <1>1, <3>2
      <4>3. it[T] = handle[entries[Max(T)]][it[T \ {Max(T)}]]
        BY <1>11, <3>2
      <4> QED
        BY <4>1, <4>2, <4>3
    <3> QED
      BY <3>1, <3>2
  <2> DEFINE Good == {T \in S : it[T] \in X}
  <2>2. \A T \in S : (\A U \in S : m[U] < m[T] => U \in Good) => T \in Good
    <3> HIDE DEF m, S
    <3> QED
      BY <2>1
  <2> HIDE DEF m, S, Good
  <2>3. S \subseteq Good
    BY <1>2, <2>2, MeasureInduction
  <2> QED
    BY <2>3 DEF Good
<1> DEFINE after == [k \in 0..n |-> it[1..k]]
<1>13. \A k \in 0..n : 1..k \in S
  BY <1>0
<1>14. after \in [0..n -> X]
  <2> HIDE DEF S
  <2> QED
    BY <1>12, <1>13
<1>15. after[0] = start
  <2>1. 1..0 = {} /\ {} \in S /\ 0 \in 0..n
    BY <1>0
  <2>2. it[{}] = start
    BY <1>11, <2>1
  <2>3. after[0] = it[1..0]
    BY <2>1
  <2> HIDE DEF after
  <2> QED
    BY <2>1, <2>2, <2>3
<1>16. ASSUME NEW k \in 1..n
       PROVE  after[k] = handle[entries[k]][after[k - 1]]
  <2>1. k \in 0..n /\ k - 1 \in 0..n /\ k \in 1..k
    BY <1>0
  <2>0. 1..k \in S /\ 1..k # {}
    <3> HIDE DEF S
    <3> QED
      BY <1>13, <2>1
  <2>2. Max(1..k) = k
    <3>1. Max(1..k) \in 1..k /\ k <= Max(1..k)
      BY <1>1, <2>0, <2>1
    <3> QED
      BY <1>0, <3>1
  <2>3. (1..k) \ {k} = 1..(k - 1)
    BY <1>0
  <2>4. it[1..k] = handle[entries[k]][it[1..(k - 1)]]
    BY <1>11, <2>0, <2>2, <2>3
  <2> QED
    BY <2>1, <2>4
<1>17. Each(handle, start, entries) = after[n]
  BY <1>0, <1>10
<1> HIDE DEF after
<1> QED
  BY <1>14, <1>15, <1>16, <1>17 DEF Steps, LoopSteps

\* What counts up by one reaches every number.
LEMMA CountUp ==
    ASSUME NEW n \in Nat, NEW T, 0 \in T, \A k \in 1..n : k - 1 \in T => k \in T
    PROVE  0..n \subseteq T
<1> DEFINE D == 0..n
           m == [k \in D |-> k]
<1>1. m \in [D -> Nat]
  OBVIOUS
<1>2. ASSUME NEW k \in D, \A l \in D : m[l] < m[k] => l \in T
      PROVE  k \in T
  <2>1. CASE k = 0
    BY <2>1
  <2>2. CASE k # 0
    <3>1. k \in 1..n /\ k - 1 \in D /\ m[k - 1] < m[k]
      BY <2>2
    <3> QED
      BY <1>2, <3>1
  <2> QED
    BY <2>1, <2>2
<1>3. D \subseteq T
  <2> HIDE DEF D, m
  <2> QED
    BY <1>1, <1>2, MeasureInduction
<1> QED
  BY <1>3

\* Where each pass of the body leads is where the loop has led so far.
LEMMA LoopCounts ==
    ASSUME NEW E, NEW X, NEW handle, NEW start, NEW entries, NEW J,
           Loop(E, X, handle, start, entries), start \in J[0],
           \A k \in 1..Len(entries) : \A x \in J[k - 1] \cap X : handle[entries[k]][x] \in J[k]
    PROVE  Each(handle, start, entries) \in J[Len(entries)] \cap X
<1>1. PICK after \in [0..Len(entries) -> X] :
              /\ Steps(handle, start, entries, after)
              /\ Each(handle, start, entries) = after[Len(entries)]
  BY LoopIs DEF LoopSteps
<1> DEFINE n == Len(entries)
           T == {k \in 0..n : after[k] \in J[k]}
<1>2. n \in Nat
  BY LenProperties DEF Loop
<1>3. 0 \in T
  BY <1>1, <1>2 DEF Steps
<1>4. ASSUME NEW k \in 1..n, k - 1 \in T
      PROVE  k \in T
  <2>1. after[k - 1] \in J[k - 1] \cap X /\ k \in 0..n
    BY <1>2, <1>4
  <2>2. after[k] = handle[entries[k]][after[k - 1]]
    BY <1>1 DEF Steps
  <2> QED
    BY <2>1, <2>2
<1>5. 0..n \subseteq T
  <2> HIDE DEF n, T
  <2> QED
    BY <1>2, <1>3, <1>4, CountUp
<1>6. n \in T
  BY <1>2, <1>5
<1> QED
  BY <1>1, <1>2, <1>6

\* What the body keeps, the loop keeps.
LEMMA LoopKeeps ==
    ASSUME NEW E, NEW X, NEW handle, NEW start, NEW entries, NEW J,
           Loop(E, X, handle, start, entries), start \in J,
           \A i \in 1..Len(entries) : \A x \in J \cap X : handle[entries[i]][x] \in J
    PROVE  Each(handle, start, entries) \in J \cap X
<1> DEFINE n == Len(entries)
           all == [k \in 0..n |-> J]
<1>1. n \in Nat
  BY LenProperties DEF Loop
<1>2. all[0] = J /\ all[n] = J /\ \A k \in 1..n : all[k] = J /\ all[k - 1] = J
  BY <1>1
<1> HIDE DEF all
<1>3. Each(handle, start, entries) \in all[n] \cap X
  BY <1>2, LoopCounts
<1> QED
  BY <1>2, <1>3

-----------------------------------------------------------------------------
\* Paths and the directories of a tree.

AllNames == DirNames \cup AllFileNames

LEMMA PathsAre ==
    /\ <<>> \in DirPaths
    /\ \A p \in DirPaths : p \in Seq(DirNames) /\ Len(p) \in 0..MaxDepth
    /\ \A p \in Seq(DirNames) : Len(p) <= MaxDepth => p \in DirPaths
<1>0. MaxDepth \in Nat \ {0}
  BY TreeAssumption
<1>1. ASSUME NEW p \in DirPaths
      PROVE  p \in Seq(DirNames) /\ Len(p) \in 0..MaxDepth
  <2>1. PICK n \in 0..MaxDepth : p \in [1..n -> DirNames]
    BY DEF DirPaths
  <2>2. n \in Nat /\ n \in 0..MaxDepth
    BY <1>0, <2>1
  <2>3. p \in Seq(DirNames) /\ Len(p) = n
    BY <2>1, <2>2
  <2> QED
    BY <2>2, <2>3
<1>2. ASSUME NEW p \in Seq(DirNames), Len(p) <= MaxDepth
      PROVE  p \in DirPaths
  <2>1. Len(p) \in 0..MaxDepth /\ p \in [1..Len(p) -> DirNames]
    BY <1>0, <1>2, LenProperties
  <2> QED
    BY <2>1 DEF DirPaths
<1>3. <<>> \in DirPaths
  <2>1. <<>> \in Seq(DirNames) /\ Len(<<>>) = 0
    BY EmptySeq
  <2>2. Len(<<>>) <= MaxDepth
    BY <1>0, <2>1
  <2> QED
    BY <1>2, <2>1, <2>2, Zenon
<1> QED
  BY <1>1, <1>2, <1>3

\* The first names of a path.
LEMMA FirstNames ==
    ASSUME NEW S, NEW q \in Seq(S), NEW n \in 0..Len(q)
    PROVE  /\ SubSeq(q, 1, n) \in Seq(S) /\ Len(SubSeq(q, 1, n)) = n
           /\ \A i \in 1..n : SubSeq(q, 1, n)[i] = q[i]
<1>1. Len(q) \in Nat /\ n \in Int /\ 1 \in Int /\ \A i \in 1..n : q[i] \in S
  BY LenProperties, ElementOfSeq
<1>2. /\ SubSeq(q, 1, n) \in Seq(S)
      /\ Len(SubSeq(q, 1, n)) = IF 1 <= n THEN n - 1 + 1 ELSE 0
      /\ \A i \in 1..(n - 1 + 1) : SubSeq(q, 1, n)[i] = q[1 + i - 1]
  BY <1>1, SubSeqProperties
<1> QED
  BY <1>1, <1>2

\* A path that is longer by a name.
LEMMA LongerPath ==
    ASSUME NEW S, NEW p \in Seq(S), NEW n \in S
    PROVE  /\ Append(p, n) \in Seq(S) /\ Len(Append(p, n)) = Len(p) + 1
           /\ \A i \in 1..Len(p) : Append(p, n)[i] = p[i]
           /\ Append(p, n)[Len(p) + 1] = n
           /\ Parent(Append(p, n)) = p /\ Last(Append(p, n)) = n
           /\ Append(p, n) # <<>>
<1> DEFINE q == Append(p, n)
<1>1. Len(p) \in Nat
  BY LenProperties
<1>2. /\ q \in Seq(S) /\ Len(q) = Len(p) + 1
      /\ \A i \in 1..Len(p) : q[i] = p[i]
      /\ q[Len(p) + 1] = n
  BY <1>1, LenProperties
<1> HIDE DEF q
<1>3. q # <<>>
  BY <1>1, <1>2, EmptySeq
<1>4. Last(q) = n
  BY <1>2 DEF Last
<1>5. Parent(q) = p
  <2>1. Parent(q) = SubSeq(q, 1, Len(p))
    BY <1>1, <1>2, <1>3 DEF Parent, Front
  <2>2. \A i \in 1..Len(p) : q[i] \in S
    BY <1>1, <1>2, ElementOfSeq
  <2>3. /\ SubSeq(q, 1, Len(p)) \in Seq(S)
        /\ Len(SubSeq(q, 1, Len(p))) = Len(p)
        /\ \A i \in 1..Len(p) : SubSeq(q, 1, Len(p))[i] = q[i]
    BY <1>1, <2>2, SubSeqProperties
  <2> QED
    BY <1>2, <2>1, <2>3, SeqEqual
<1> QED
  BY <1>2, <1>3, <1>4, <1>5 DEF q

\* A path that is not the root is its parent's, longer by its last name.
LEMMA PathEnds ==
    ASSUME NEW S, NEW q \in Seq(S), q # <<>>
    PROVE  /\ Parent(q) \in Seq(S) /\ Last(q) \in S
           /\ q = Append(Parent(q), Last(q)) /\ Len(Parent(q)) = Len(q) - 1
<1> DEFINE p == SubSeq(q, 1, Len(q) - 1)
<1>1. Len(q) \in Nat \ {0}
  BY EmptySeq
<1>2. Parent(q) = p
  BY DEF Parent, Front
<1>3. \A i \in 1..Len(q) : q[i] \in S
  BY ElementOfSeq
<1>4. /\ p \in Seq(S) /\ Len(p) = Len(q) - 1
      /\ \A i \in 1..(Len(q) - 1) : p[i] = q[i]
  <2>1. Len(q) - 1 \in 0..Len(q)
    BY <1>1
  <2> QED
    BY <2>1, FirstNames
<1> HIDE DEF p
<1>5. Last(q) \in S /\ Last(q) = q[Len(q)]
  BY <1>1, <1>3 DEF Last
<1>6. /\ Append(p, Last(q)) \in Seq(S) /\ Len(Append(p, Last(q))) = Len(q)
      /\ \A i \in 1..Len(q) : Append(p, Last(q))[i] = q[i]
  <2>1. /\ Append(p, Last(q)) \in Seq(S) /\ Len(Append(p, Last(q))) = Len(p) + 1
        /\ \A i \in 1..Len(p) : Append(p, Last(q))[i] = p[i]
        /\ Append(p, Last(q))[Len(p) + 1] = Last(q)
    BY <1>4, <1>5, LongerPath
  <2>2. \A i \in 1..Len(q) : i \in 1..(Len(q) - 1) \/ i = Len(q)
    BY <1>1
  <2>3. Len(p) + 1 = Len(q)
    BY <1>1, <1>4
  <2>4. ASSUME NEW i \in 1..Len(q)
        PROVE  Append(p, Last(q))[i] = q[i]
    <3>1. CASE i \in 1..(Len(q) - 1)
      <4> DEFINE r == Append(p, Last(q))
      <4>1. \A k \in 1..(Len(q) - 1) : r[k] = p[k]
        BY <1>4, <2>1
      <4> HIDE DEF r
      <4>2. r[i] = q[i]
        BY <1>4, <3>1, <4>1
      <4> QED
        BY <4>2 DEF r
    <3>2. CASE i = Len(q)
      BY <1>5, <2>1, <2>3, <3>2
    <3> QED
      BY <2>2, <3>1, <3>2
  <2> QED
    BY <2>1, <2>3, <2>4
<1> QED
  BY <1>2, <1>4, <1>5, <1>6, SeqEqual

LEMMA DirPathsGrow ==
    ASSUME NEW p \in DirPaths, NEW n \in DirNames
    PROVE  /\ Parent(Append(p, n)) = p /\ Last(Append(p, n)) = n
           /\ Len(p) < MaxDepth => Append(p, n) \in DirPaths
           /\ Append(p, n) # <<>> /\ Len(Append(p, n)) = Len(p) + 1
<1>1. p \in Seq(DirNames) /\ Len(p) \in 0..MaxDepth /\ MaxDepth \in Nat
  BY PathsAre, TreeAssumption
<1>2. /\ Append(p, n) \in Seq(DirNames) /\ Len(Append(p, n)) = Len(p) + 1
      /\ Parent(Append(p, n)) = p /\ Last(Append(p, n)) = n
      /\ Append(p, n) # <<>>
  BY <1>1, LongerPath
<1>3. Len(p) < MaxDepth => Len(Append(p, n)) <= MaxDepth
  BY <1>1, <1>2
<1> QED
  BY <1>2, <1>3, PathsAre

LEMMA DirPathsEnd ==
    ASSUME NEW q \in DirPaths, q # <<>>
    PROVE  /\ Parent(q) \in DirPaths /\ Last(q) \in DirNames
           /\ q = Append(Parent(q), Last(q))
           /\ Len(Parent(q)) = Len(q) - 1 /\ Len(Parent(q)) < MaxDepth
<1>1. q \in Seq(DirNames) /\ Len(q) \in 0..MaxDepth /\ MaxDepth \in Nat
  BY PathsAre, TreeAssumption
<1>2. /\ Parent(q) \in Seq(DirNames) /\ Last(q) \in DirNames
      /\ q = Append(Parent(q), Last(q)) /\ Len(Parent(q)) = Len(q) - 1
  BY <1>1, PathEnds
<1> QED
  BY <1>1, <1>2, PathsAre

LEMMA ParentIsDir ==
    ASSUME NEW q \in DirPaths
    PROVE  Parent(q) \in DirPaths
<1>1. CASE q = <<>>
  BY <1>1 DEF Parent
<1> QED
  BY <1>1, DirPathsEnd

LEMMA FilePathsAre ==
    ASSUME NEW p \in DirPaths, NEW n \in AllFileNames
    PROVE  Append(p, n) \in FilePaths /\ Parent(Append(p, n)) = p /\ Last(Append(p, n)) = n
<1>1. p \in Seq(AllNames) /\ n \in AllNames
  BY PathsAre, SeqMonotonic DEF AllNames
<1>2. Append(p, n) \in FilePaths
  BY DEF FilePaths
<1> QED
  BY <1>1, <1>2, LongerPath

LEMMA FilePathsEnd ==
    ASSUME NEW q \in FilePaths
    PROVE  /\ Parent(q) \in DirPaths /\ Last(q) \in AllFileNames
           /\ q = Append(Parent(q), Last(q))
<1>1. PICK p \in DirPaths, n \in AllFileNames : q = Append(p, n)
  BY DEF FilePaths
<1> QED
  BY <1>1, FilePathsAre

\* The entries of a directory name what is below it.
LEMMA EntriesAre ==
    ASSUME NEW p \in DirPaths, NEW e \in EntriesAt(p)
    PROVE  /\ e \in Entries
           /\ \/ /\ e[1] = "F" /\ e[2] \in AllFileNames /\ e = FileEntry(e[2])
                 /\ Append(p, e[2]) \in FilePaths
              \/ /\ e[1] = "D" /\ e[2] \in DirNames /\ e = DirEntry(e[2])
                 /\ Len(p) < MaxDepth /\ Append(p, e[2]) \in DirPaths
<1>1. e \in Entries /\ (e[1] = "D" => Len(p) < MaxDepth)
  BY DEF EntriesAt
<1>2. CASE \E n \in DirNames : e = DirEntry(n)
  <2>1. e[1] = "D" /\ e[2] \in DirNames /\ e = DirEntry(e[2])
    BY <1>2 DEF DirEntry
  <2> QED
    BY <1>1, <2>1, DirPathsGrow
<1>3. CASE \E n \in AllFileNames : e = FileEntry(n)
  <2>1. e[1] = "F" /\ e[2] \in AllFileNames /\ e = FileEntry(e[2])
    BY <1>3 DEF FileEntry
  <2> QED
    BY <1>1, <2>1, FilePathsAre
<1> QED
  BY <1>1, <1>2, <1>3 DEF Entries

LEMMA EntriesFit ==
    ASSUME NEW p \in DirPaths
    PROVE  /\ \A n \in AllFileNames : FileEntry(n) \in EntriesAt(p)
           /\ \A n \in DirNames : Len(p) < MaxDepth => DirEntry(n) \in EntriesAt(p)
           /\ EntriesAt(p) \subseteq Entries
           /\ Seq(EntriesAt(p)) \subseteq Seq(Entries)
<1>1. \A n \in AllFileNames : FileEntry(n) \in Entries /\ FileEntry(n)[1] # "D"
  BY DEF Entries, FileEntry
<1>2. \A n \in DirNames : DirEntry(n) \in Entries
  BY DEF Entries
<1>3. EntriesAt(p) \subseteq Entries
  BY DEF EntriesAt
<1>4. Seq(EntriesAt(p)) \subseteq Seq(Entries)
  BY <1>3, SeqMonotonic
<1> QED
  BY <1>1, <1>2, <1>3, <1>4 DEF EntriesAt

-----------------------------------------------------------------------------
\* Lists of entries.

LEMMA ListIs ==
    ASSUME NEW S, NEW seq \in Seq(S)
    PROVE  /\ Len(seq) \in Nat /\ DOMAIN seq = 1..Len(seq)
           /\ Range(seq) \subseteq S
           /\ \A T : Range(seq) \subseteq T => seq \in Seq(T)
           /\ \A i \in 1..Len(seq) : seq[i] \in Range(seq)
           /\ \A f \in Range(seq) : \E i \in 1..Len(seq) : seq[i] = f
<1>1. Len(seq) \in Nat /\ DOMAIN seq = 1..Len(seq) /\ seq \in [1..Len(seq) -> S]
  BY LenProperties
<1>2. \A i \in 1..Len(seq) : seq[i] \in Range(seq) /\ seq[i] \in S
  BY <1>1 DEF Range
<1>3. \A f \in Range(seq) : \E i \in 1..Len(seq) : seq[i] = f
  BY <1>1 DEF Range
<1>4. ASSUME NEW T, Range(seq) \subseteq T
      PROVE  seq \in Seq(T)
  <2>1. seq \in [1..Len(seq) -> T]
    BY <1>1, <1>2, <1>4
  <2> QED
    BY <1>1, <2>1
<1> QED
  BY <1>1, <1>2, <1>3, <1>4

LEMMA NoEntries == Range(<<>>) = {} /\ \A f : Once(<<>>, f)
  BY DEF Range, Once

\* A list with an entry more.
LEMMA WithOneMore ==
    ASSUME NEW S, NEW seq \in Seq(S), NEW e \in S
    PROVE  /\ Append(seq, e) \in Seq(S) /\ Range(Append(seq, e)) = Range(seq) \cup {e}
           /\ \A f : f # e /\ Once(seq, f) => Once(Append(seq, e), f)
           /\ e \notin Range(seq) => Once(Append(seq, e), e)
<1> DEFINE n == Len(seq)
           new == Append(seq, e)
<1>1. /\ n \in Nat /\ DOMAIN seq = 1..n
      /\ new \in Seq(S) /\ Len(new) = n + 1
      /\ \A i \in 1..n : new[i] = seq[i]
      /\ new[n + 1] = e
  BY LenProperties, AppendProperties
<1> HIDE DEF new
<1>2. DOMAIN new = 1..(n + 1)
  BY <1>1, LenProperties
<1>3. \A i \in 1..(n + 1) : i \in 1..n \/ i = n + 1
  BY <1>1
<1>4. 1..n \subseteq 1..(n + 1) /\ n + 1 \in 1..(n + 1)
  BY <1>1
<1> HIDE DEF n
<1>5. Range(new) = Range(seq) \cup {e}
  BY <1>1, <1>2, <1>3, <1>4 DEF Range
<1>6. \A i \in 1..n : seq[i] \in Range(seq)
  BY <1>1 DEF Range
<1>7. ASSUME NEW f, f # e, Once(seq, f)
      PROVE  Once(new, f)
  <2> SUFFICES ASSUME NEW i \in 1..(n + 1), NEW j \in 1..(n + 1), new[i] = f, new[j] = f
               PROVE  i = j
    BY <1>2 DEF Once
  <2>1. i \in 1..n /\ j \in 1..n
    BY <1>1, <1>3, <1>7
  <2> QED
    BY <1>1, <1>7, <2>1 DEF Once
<1>8. ASSUME e \notin Range(seq)
      PROVE  Once(new, e)
  <2> SUFFICES ASSUME NEW i \in 1..(n + 1), NEW j \in 1..(n + 1), new[i] = e, new[j] = e
               PROVE  i = j
    BY <1>2 DEF Once
  <2>1. i \notin 1..n /\ j \notin 1..n
    BY <1>1, <1>6, <1>8
  <2> QED
    BY <1>3, <2>1
<1> QED
  BY <1>1, <1>5, <1>7, <1>8 DEF new

\* RemoveEntryFromDir takes every entry of the name out, and no other.
LEMMA WithoutIs ==
    ASSUME NEW S, S \subseteq Entries, NEW seq \in Seq(S), NEW e
    PROVE  /\ Without(seq, e) \in Seq(S)
           /\ Range(Without(seq, e)) = Range(seq) \ {e}
           /\ \A f : Once(seq, f) => Once(Without(seq, e), f)
<1> DEFINE n == Len(seq)
           keep == [f \in Entries |-> [kept \in Seq(Entries) |->
                       IF f # e THEN Append(kept, f) ELSE kept]]
           W == Without(seq, e)
<1>1. keep \in [Entries -> [Seq(Entries) -> Seq(Entries)]]
  OBVIOUS
<1>2. \A f \in Entries, kept \in Seq(Entries) :
         keep[f][kept] = IF f # e THEN Append(kept, f) ELSE kept
  OBVIOUS
<1>3. Without(seq, e) = Each(keep, <<>>, seq)
  BY DEF Without
<1> HIDE DEF keep
<1>4. <<>> \in Seq(Entries) /\ seq \in Seq(Entries)
  BY EmptySeq, SeqMonotonic
<1>5. PICK after \in [0..n -> Seq(Entries)] :
         Steps(keep, <<>>, seq, after) /\ Each(keep, <<>>, seq) = after[n]
  <2>1. Loop(Entries, Seq(Entries), keep, <<>>, seq)
    BY <1>1, <1>4 DEF Loop
  <2>2. LoopSteps(Seq(Entries), keep, <<>>, seq)
    BY <2>1, LoopIs
  <2> QED
    BY <2>2 DEF LoopSteps
<1>6. n \in Nat /\ DOMAIN seq = 1..n /\ \A i \in 1..n : seq[i] \in Entries
  BY <1>4, LenProperties, ElementOfSeq
<1> DEFINE To(k) == {seq[i] : i \in 1..k}
           OnceTo(k, f) == \A i, j \in 1..k : seq[i] = f /\ seq[j] = f => i = j
           Is(k) == /\ Range(after[k]) = To(k) \ {e}
                    /\ \A f : OnceTo(k, f) => Once(after[k], f)
           D == 0..n
           m == [k \in D |-> k]
           T == {k \in D : Is(k)}
<1>7. ASSUME NEW k \in D, \A l \in D : m[l] < m[k] => l \in T
      PROVE  k \in T
  <2>1. CASE k = 0
    <3>1. after[k] = <<>> /\ To(k) = {}
      BY <1>5, <2>1 DEF Steps
    <3> QED
      BY <3>1, NoEntries
  <2>2. CASE k # 0
    <3>1. k \in 1..n /\ k - 1 \in D /\ m[k - 1] < m[k]
      BY <1>6, <2>2
    <3>2. Is(k - 1) /\ after[k - 1] \in Seq(Entries) /\ seq[k] \in Entries
      BY <1>6, <1>7, <3>1
    <3>3. after[k] = IF seq[k] # e THEN Append(after[k - 1], seq[k]) ELSE after[k - 1]
      <4>1. after[k] = keep[seq[k]][after[k - 1]]
        BY <1>5, <3>1 DEF Steps
      <4> QED
        BY <1>2, <3>2, <4>1
    <3>4. 1..k = 1..(k - 1) \cup {k} /\ k \notin 1..(k - 1)
      BY <3>1
    <3>5. To(k) = To(k - 1) \cup {seq[k]}
      BY <3>4
    <3>6. \A f : OnceTo(k, f) => OnceTo(k - 1, f)
      BY <3>4
    <3>7. \A f \in To(k - 1) : f = seq[k] => ~OnceTo(k, f)
      BY <3>4
    <3> HIDE DEF To, OnceTo
    <3>8. CASE seq[k] = e
      BY <3>2, <3>3, <3>5, <3>6, <3>8
    <3>9. CASE seq[k] # e
      <4>1. /\ Range(after[k]) = Range(after[k - 1]) \cup {seq[k]}
            /\ \A f : f # seq[k] /\ Once(after[k - 1], f) => Once(after[k], f)
            /\ seq[k] \notin Range(after[k - 1]) => Once(after[k], seq[k])
        BY <3>2, <3>3, <3>9, WithOneMore
      <4>2. Range(after[k]) = To(k) \ {e}
        BY <3>2, <3>5, <3>9, <4>1
      <4>3. ASSUME NEW f, OnceTo(k, f)
            PROVE  Once(after[k], f)
        <5>1. CASE f # seq[k]
          BY <3>2, <3>6, <4>1, <4>3, <5>1
        <5>2. CASE f = seq[k]
          <6>1. f \notin To(k - 1)
            BY <3>7, <4>3, <5>2
          <6> QED
            BY <3>2, <4>1, <5>2, <6>1
        <5> QED
          BY <5>1, <5>2
      <4> QED
        BY <4>2, <4>3
    <3> QED
      BY <3>8, <3>9
  <2> QED
    BY <2>1, <2>2
<1>8. D \subseteq T
  <2>1. m \in [D -> Nat]
    BY <1>6
  <2> HIDE DEF D, m, T
  <2> QED
    BY <1>7, <2>1, MeasureInduction
<1>9. Is(n)
  BY <1>6, <1>8
<1>10. To(n) = Range(seq) /\ \A f : Once(seq, f) => OnceTo(n, f)
  BY <1>6 DEF Range, Once
<1>11. W = after[n] /\ after[n] \in Seq(Entries)
  BY <1>3, <1>5, <1>6
<1>12. Range(seq) \subseteq S
  BY ListIs
<1> HIDE DEF To, OnceTo, W
<1>13. Range(W) = Range(seq) \ {e} /\ \A f : Once(seq, f) => Once(W, f)
  BY <1>9, <1>10, <1>11
<1>14. W \in Seq(S)
  BY <1>11, <1>12, <1>13, ListIs
<1> QED
  BY <1>13, <1>14 DEF W

\* A name that is not listed is taken out of a list without changing it.
LEMMA WithoutNothing ==
    ASSUME NEW seq \in Seq(Entries), NEW e, e \notin Range(seq)
    PROVE  Without(seq, e) = seq
<1> DEFINE n == Len(seq)
           keep == [f \in Entries |-> [kept \in Seq(Entries) |->
                       IF f # e THEN Append(kept, f) ELSE kept]]
           upto == [k \in 0..n |-> [i \in 1..k |-> seq[i]]]
           J == [k \in 0..n |-> {upto[k]}]
<1>1. keep \in [Entries -> [Seq(Entries) -> Seq(Entries)]]
  OBVIOUS
<1>2. \A f \in Entries, kept \in Seq(Entries) :
         keep[f][kept] = IF f # e THEN Append(kept, f) ELSE kept
  OBVIOUS
<1>3. Without(seq, e) = Each(keep, <<>>, seq)
  BY DEF Without
<1> HIDE DEF keep
<1>4. n \in Nat /\ \A i \in 1..n : seq[i] \in Entries /\ seq[i] # e
  BY ListIs, LenProperties, ElementOfSeq
<1>5. Loop(Entries, Seq(Entries), keep, <<>>, seq)
  BY <1>1, EmptySeq DEF Loop
<1>6. upto[0] = <<>> /\ upto[n] = seq
  BY <1>4, LenProperties
<1>7. <<>> \in J[0]
  BY <1>4, <1>6
<1>8. ASSUME NEW k \in 1..n
      PROVE  /\ k \in 0..n /\ k - 1 \in 0..n
             /\ upto[k - 1] \in Seq(Entries)
             /\ upto[k] = Append(upto[k - 1], seq[k])
  <2>1. k \in 0..n /\ k - 1 \in 0..n /\ k - 1 \in Nat
    BY <1>4
  <2>2. upto[k - 1] = [i \in 1..(k - 1) |-> seq[i]] /\ upto[k] = [i \in 1..k |-> seq[i]]
    BY <2>1
  <2>3. \A i \in 1..(k - 1) : seq[i] \in Entries
    BY <1>4
  <2> HIDE DEF upto
  <2>4. upto[k - 1] \in Seq(Entries)
    BY <2>1, <2>2, <2>3
  <2>5. Len(upto[k - 1]) = k - 1
    BY <2>1, <2>2
  <2>6. upto[k] = Append(upto[k - 1], seq[k])
    BY <2>1, <2>2, <2>5
  <2> QED
    BY <2>1, <2>4, <2>6
<1>9. \A k \in 1..n : \A x \in J[k - 1] \cap Seq(Entries) : keep[seq[k]][x] \in J[k]
  <2> SUFFICES ASSUME NEW k \in 1..n
               PROVE  keep[seq[k]][upto[k - 1]] = upto[k]
    BY <1>8
  <2> HIDE DEF upto
  <2> QED
    BY <1>2, <1>4, <1>8
<1>10. Each(keep, <<>>, seq) \in J[n]
  <2> HIDE DEF J
  <2> QED
    BY <1>5, <1>7, <1>9, LoopCounts
<1> QED
  BY <1>3, <1>4, <1>6, <1>10

-----------------------------------------------------------------------------
\* What the calls do to the directories of a tree.

SameFiles(s, t) == t.meta = s.meta /\ t.live = s.live /\ t.fileMap = s.fileMap
SameDirs(s, t) == t.dir = s.dir /\ t.dirMap = s.dirMap

LEMMA StateIs ==
    ASSUME NEW s \in States
    PROVE  /\ s = [dir |-> s.dir, meta |-> s.meta, live |-> s.live, dirMap |-> s.dirMap,
                   fileMap |-> s.fileMap, out |-> s.out]
           /\ s.dir \in [DirPaths -> {NoDir} \cup Seq(Entries)]
           /\ \A p \in DirPaths : s.dir[p] # NoDir => s.dir[p] \in Seq(EntriesAt(p))
           /\ s.meta \in [FilePaths -> Blobs \cup {Absent, Deleted}]
           /\ s.live \in SUBSET Blobs
           /\ s.dirMap \in SUBSET DirPaths
           /\ s.fileMap \in [FilePaths -> Blobs \cup {NotCached}]
           /\ s.out \in {"ok", "error", "panic"}
           /\ \A p \in s.dirMap : s.dir[p] # NoDir
<1>1. /\ s.dir \in Trees /\ s.dirMap \in SUBSET DirPaths
      /\ s = [dir |-> s.dir, meta |-> s.meta, live |-> s.live, dirMap |-> s.dirMap,
              fileMap |-> s.fileMap, out |-> s.out]
      /\ s.meta \in [FilePaths -> Blobs \cup {Absent, Deleted}]
      /\ s.live \in SUBSET Blobs
      /\ s.fileMap \in [FilePaths -> Blobs \cup {NotCached}]
      /\ s.out \in {"ok", "error", "panic"}
      /\ \A p \in s.dirMap : s.dir[p] # NoDir
  BY DEF States
<1> QED
  BY <1>1 DEF Trees

\* A state put together from its parts.
LEMMA StateOf ==
    ASSUME NEW d, NEW m, NEW l, NEW c, NEW f, NEW o,
           d \in [DirPaths -> {NoDir} \cup Seq(Entries)],
           \A p \in DirPaths : d[p] # NoDir => d[p] \in Seq(EntriesAt(p)),
           m \in [FilePaths -> Blobs \cup {Absent, Deleted}], l \in SUBSET Blobs,
           c \in SUBSET DirPaths, \A p \in c : d[p] # NoDir,
           f \in [FilePaths -> Blobs \cup {NotCached}], o \in {"ok", "error", "panic"}
    PROVE  [dir |-> d, meta |-> m, live |-> l, dirMap |-> c, fileMap |-> f, out |-> o]
               \in States
<1>1. d \in Trees
  BY DEF Trees
<1> DEFINE s == [dir |-> d, meta |-> m, live |-> l, dirMap |-> c, fileMap |-> f, out |-> o]
<1>2. s.dirMap = c /\ s.dir = d
  OBVIOUS
<1>3. s \in [dir : Trees, meta : [FilePaths -> Blobs \cup {Absent, Deleted}],
             live : SUBSET Blobs, dirMap : SUBSET DirPaths,
             fileMap : [FilePaths -> Blobs \cup {NotCached}], out : {"ok", "error", "panic"}]
  BY <1>1
<1> HIDE DEF s
<1>4. s \in States
  BY <1>2, <1>3 DEF States
<1> QED
  BY <1>4 DEF s

\* A state whose metas, contents and cached metas are others.
LEMMA FilesReplaced ==
    ASSUME NEW s \in States, NEW m, NEW l, NEW f
    PROVE  [s EXCEPT !.meta = m, !.live = l, !.fileMap = f] =
           [dir |-> s.dir, meta |-> m, live |-> l, dirMap |-> s.dirMap,
            fileMap |-> f, out |-> s.out]
<1> DEFINE s1 == [s EXCEPT !.meta = m]
           s2 == [s1 EXCEPT !.live = l]
           s3 == [s2 EXCEPT !.fileMap = f]
<1>1. s1 = [dir |-> s.dir, meta |-> m, live |-> s.live, dirMap |-> s.dirMap,
            fileMap |-> s.fileMap, out |-> s.out]
  BY StateIs
<1>2. [s EXCEPT !.meta = m, !.live = l, !.fileMap = f] = s3
  OBVIOUS
<1> HIDE DEF s1
<1>3. s2 = [dir |-> s.dir, meta |-> m, live |-> l, dirMap |-> s.dirMap,
            fileMap |-> s.fileMap, out |-> s.out]
  BY <1>1
<1> HIDE DEF s2
<1>4. s3 = [dir |-> s.dir, meta |-> m, live |-> l, dirMap |-> s.dirMap,
            fileMap |-> f, out |-> s.out]
  BY <1>3
<1> HIDE DEF s3
<1> QED
  BY <1>2, <1>4

\* A call that fails or panics leaves the rest of the state alone.
LEMMA FailIs ==
    ASSUME NEW s \in States
    PROVE  /\ Fail(s) \in States /\ SameFiles(s, Fail(s)) /\ SameDirs(s, Fail(s))
           /\ Fail(s).out = "error"
           /\ Panic(s) \in States /\ SameFiles(s, Panic(s)) /\ SameDirs(s, Panic(s))
           /\ Panic(s).out = "panic"
<1>1. /\ Fail(s) = [dir |-> s.dir, meta |-> s.meta, live |-> s.live, dirMap |-> s.dirMap,
                    fileMap |-> s.fileMap, out |-> "error"]
      /\ Panic(s) = [dir |-> s.dir, meta |-> s.meta, live |-> s.live, dirMap |-> s.dirMap,
                     fileMap |-> s.fileMap, out |-> "panic"]
  BY StateIs DEF Fail, Panic
<1>2. Fail(s) \in States /\ Panic(s) \in States
  BY <1>1, StateIs, StateOf
<1> QED
  BY <1>1, <1>2 DEF SameFiles, SameDirs

\* GetInode caches the directories it finds; what it does not find fails.
LEMMA GetInodeIs ==
    ASSUME NEW s \in States, NEW p \in DirPaths
    PROVE  LET t == GetInode(s, p)
           IN  /\ t \in States /\ SameFiles(s, t) /\ t.dir = s.dir
               /\ s.dir[p] # NoDir => t.dirMap = s.dirMap \cup {p} /\ t.out = s.out
               /\ s.dir[p] = NoDir => t.dirMap = s.dirMap /\ t.out \in {"error", "panic"}
<1>1. CASE s.dir[p] # NoDir
  <2>1. GetInode(s, p) = [dir |-> s.dir, meta |-> s.meta, live |-> s.live,
                          dirMap |-> s.dirMap \cup {p}, fileMap |-> s.fileMap,
                          out |-> s.out]
    <3>1. GetInode(s, p) = [s EXCEPT !.dirMap = s.dirMap \cup {p}]
      BY <1>1 DEF GetInode
    <3> QED
      BY <3>1, StateIs
  <2>2. GetInode(s, p) \in States
    <3>1. \A q \in s.dirMap \cup {p} : s.dir[q] # NoDir
      BY <1>1, StateIs
    <3>2. s.dirMap \cup {p} \in SUBSET DirPaths
      BY StateIs
    <3> QED
      BY <2>1, <3>1, <3>2, StateIs, StateOf
  <2> QED
    <3> DEFINE t == GetInode(s, p)
    <3>1. /\ t.dir = s.dir /\ t.meta = s.meta /\ t.live = s.live /\ t.fileMap = s.fileMap
          /\ t.dirMap = s.dirMap \cup {p} /\ t.out = s.out
      BY <2>1
    <3> HIDE DEF t
    <3> QED
      BY <1>1, <2>2, <3>1 DEF SameFiles, t
<1>2. CASE s.dir[p] = NoDir
  <2>1. GetInode(s, p) \in {Fail(s), Panic(s)}
    BY <1>2 DEF GetInode
  <2> QED
    <3>1. /\ Fail(s) \in States /\ SameFiles(s, Fail(s)) /\ SameDirs(s, Fail(s))
          /\ Fail(s).out = "error"
          /\ Panic(s) \in States /\ SameFiles(s, Panic(s)) /\ SameDirs(s, Panic(s))
          /\ Panic(s).out = "panic"
      BY FailIs
    <3> DEFINE t == GetInode(s, p)
    <3>2. t = Fail(s) \/ t = Panic(s)
      BY <2>1
    <3> HIDE DEF t
    <3>3. /\ t \in States /\ SameFiles(s, t) /\ SameDirs(s, t)
          /\ t.out \in {"error", "panic"}
      BY <3>1, <3>2
    <3> QED
      BY <1>2, <3>3 DEF SameDirs, t
<1> QED
  BY <1>1, <1>2

LEMMA SetInodeIs ==
    ASSUME NEW s \in States, NEW p \in DirPaths, NEW entries \in Seq(EntriesAt(p))
    PROVE  LET t == SetInode(s, p, entries)
           IN  /\ t \in States /\ SameFiles(s, t) /\ t.out = s.out
               /\ t.dir = [s.dir EXCEPT ![p] = entries] /\ t.dirMap = s.dirMap \cup {p}
<1> DEFINE d == [s.dir EXCEPT ![p] = entries]
<1>1. SetInode(s, p, entries) = [dir |-> d, meta |-> s.meta, live |-> s.live,
                                 dirMap |-> s.dirMap \cup {p}, fileMap |-> s.fileMap,
                                 out |-> s.out]
  <2>1. SetInode(s, p, entries) = [s EXCEPT !.dir = d, !.dirMap = s.dirMap \cup {p}]
    BY StateIs DEF SetInode
  <2> HIDE DEF d
  <2> QED
    BY <2>1, StateIs
<1>2. entries \in Seq(Entries) /\ entries # NoDir
  BY EntriesFit, MarksAreNoValues
<1>3. /\ d \in [DirPaths -> {NoDir} \cup Seq(Entries)]
      /\ \A q \in DirPaths : d[q] = IF q = p THEN entries ELSE s.dir[q]
  BY <1>2, StateIs
<1> HIDE DEF d
<1>4. \A q \in DirPaths : d[q] # NoDir => d[q] \in Seq(EntriesAt(q))
  BY <1>3, StateIs
<1>5. s.dirMap \cup {p} \in SUBSET DirPaths /\ \A q \in s.dirMap \cup {p} : d[q] # NoDir
  BY <1>2, <1>3, StateIs
<1>6. SetInode(s, p, entries) \in States
  BY <1>1, <1>3, <1>4, <1>5, StateIs, StateOf
<1> QED
  BY <1>1, <1>6 DEF SameFiles, d

\* An entry is added to and taken out of a directory that exists.
EntryAdded(s, t, p, e) ==
    /\ s.dir[p] # NoDir => /\ t.out = "ok" /\ t.dirMap = s.dirMap \cup {p}
                           /\ t.dir = [s.dir EXCEPT ![p] = Append(s.dir[p], e)]
    /\ s.dir[p] = NoDir => t.out # "ok" /\ SameDirs(s, t)

EntryRemoved(s, t, p, e) ==
    /\ s.dir[p] # NoDir => /\ t.out = "ok" /\ t.dirMap = s.dirMap \cup {p}
                           /\ t.dir = [s.dir EXCEPT ![p] = Without(s.dir[p], e)]
    /\ s.dir[p] = NoDir => t.out # "ok" /\ SameDirs(s, t)

LEMMA AddEntryIs ==
    ASSUME NEW s \in States, NEW p \in DirPaths, NEW e \in EntriesAt(p), s.out = "ok"
    PROVE  LET t == AddEntryToDir(s, p, e)
           IN  t \in States /\ SameFiles(s, t) /\ EntryAdded(s, t, p, e)
<1> DEFINE g == GetInode(s, p)
<1>1. /\ g \in States /\ SameFiles(s, g) /\ g.dir = s.dir
      /\ s.dir[p] # NoDir => g.dirMap = s.dirMap \cup {p} /\ g.out = "ok"
      /\ s.dir[p] = NoDir => g.dirMap = s.dirMap /\ g.out \in {"error", "panic"}
  BY GetInodeIs
<1>2. AddEntryToDir(s, p, e) =
         IF g.out = "ok" THEN SetInode(g, p, Append(g.dir[p], e)) ELSE g
  BY DEF AddEntryToDir, Then
<1> HIDE DEF g
<1>3. CASE s.dir[p] # NoDir
  <2>1. Append(g.dir[p], e) \in Seq(EntriesAt(p))
    BY <1>1, <1>3, StateIs, AppendProperties
  <2> DEFINE t == SetInode(g, p, Append(g.dir[p], e))
  <2>2. /\ t \in States /\ SameFiles(g, t) /\ t.out = g.out
        /\ t.dir = [g.dir EXCEPT ![p] = Append(g.dir[p], e)] /\ t.dirMap = g.dirMap \cup {p}
    BY <1>1, <2>1, SetInodeIs
  <2> HIDE DEF t
  <2>3. AddEntryToDir(s, p, e) = t
    BY <1>1, <1>2, <1>3 DEF t
  <2> QED
    BY <1>1, <1>3, <2>2, <2>3 DEF SameFiles, EntryAdded
<1>4. CASE s.dir[p] = NoDir
  BY <1>1, <1>2, <1>4 DEF SameDirs, EntryAdded
<1> QED
  BY <1>3, <1>4

LEMMA RemoveEntryIs ==
    ASSUME NEW s \in States, NEW p \in DirPaths, NEW e, s.out = "ok"
    PROVE  LET t == RemoveEntryFromDir(s, p, e)
           IN  t \in States /\ SameFiles(s, t) /\ EntryRemoved(s, t, p, e)
<1> DEFINE g == GetInode(s, p)
<1>1. /\ g \in States /\ SameFiles(s, g) /\ g.dir = s.dir
      /\ s.dir[p] # NoDir => g.dirMap = s.dirMap \cup {p} /\ g.out = "ok"
      /\ s.dir[p] = NoDir => g.dirMap = s.dirMap /\ g.out \in {"error", "panic"}
  BY GetInodeIs
<1>2. RemoveEntryFromDir(s, p, e) =
         IF g.out = "ok" THEN SetInode(g, p, Without(g.dir[p], e)) ELSE g
  BY DEF RemoveEntryFromDir, Then
<1> HIDE DEF g
<1>3. CASE s.dir[p] # NoDir
  <2>1. Without(g.dir[p], e) \in Seq(EntriesAt(p))
    <3>1. g.dir[p] \in Seq(EntriesAt(p)) /\ EntriesAt(p) \subseteq Entries
      BY <1>1, <1>3, StateIs, EntriesFit
    <3> QED
      BY <3>1, WithoutIs
  <2> DEFINE t == SetInode(g, p, Without(g.dir[p], e))
  <2>2. /\ t \in States /\ SameFiles(g, t) /\ t.out = g.out
        /\ t.dir = [g.dir EXCEPT ![p] = Without(g.dir[p], e)] /\ t.dirMap = g.dirMap \cup {p}
    BY <1>1, <2>1, SetInodeIs
  <2> HIDE DEF t
  <2>3. RemoveEntryFromDir(s, p, e) = t
    BY <1>1, <1>2, <1>3 DEF t
  <2> QED
    BY <1>1, <1>3, <2>2, <2>3 DEF SameFiles, EntryRemoved
<1>4. CASE s.dir[p] = NoDir
  BY <1>1, <1>2, <1>4 DEF SameDirs, EntryRemoved
<1> QED
  BY <1>3, <1>4

\* An inode is dropped, and its entry taken out of the directory two levels up.
LEMMA DropInodeIs ==
    ASSUME NEW s \in States, NEW p \in DirPaths
    PROVE  LET t == DropInode(s, p)
           IN  /\ t \in States /\ SameFiles(s, t)
               /\ s.dir[p] # NoDir => /\ t.out = s.out /\ t.dirMap = s.dirMap \ {p}
                                      /\ t.dir = [s.dir EXCEPT ![p] = NoDir]
               /\ s.dir[p] = NoDir => t = Fail(s)
<1> DEFINE d == [s.dir EXCEPT ![p] = NoDir]
<1>1. CASE s.dir[p] # NoDir
  <2>1. DropInode(s, p) = [dir |-> d, meta |-> s.meta, live |-> s.live,
                           dirMap |-> s.dirMap \ {p}, fileMap |-> s.fileMap, out |-> s.out]
    <3>1. DropInode(s, p) = [s EXCEPT !.dir = d, !.dirMap = s.dirMap \ {p}]
      BY <1>1, StateIs DEF DropInode
    <3> HIDE DEF d
    <3> QED
      BY <3>1, StateIs
  <2>2. /\ d \in [DirPaths -> {NoDir} \cup Seq(Entries)]
        /\ \A q \in DirPaths : d[q] = IF q = p THEN NoDir ELSE s.dir[q]
    BY StateIs
  <2> HIDE DEF d
  <2>3. \A q \in DirPaths : d[q] # NoDir => d[q] \in Seq(EntriesAt(q))
    BY <2>2, StateIs
  <2>4. s.dirMap \ {p} \in SUBSET DirPaths /\ \A q \in s.dirMap \ {p} : d[q] # NoDir
    BY <2>2, StateIs
  <2>5. DropInode(s, p) \in States
    BY <2>1, <2>2, <2>3, <2>4, StateIs, StateOf
  <2> QED
    <3> DEFINE t == DropInode(s, p)
    <3>1. /\ t.dir = d /\ t.meta = s.meta /\ t.live = s.live /\ t.fileMap = s.fileMap
          /\ t.dirMap = s.dirMap \ {p} /\ t.out = s.out
      BY <2>1
    <3> HIDE DEF t
    <3> QED
      BY <1>1, <2>5, <3>1 DEF SameFiles, d, t
<1>2. CASE s.dir[p] = NoDir
  BY <1>2, FailIs DEF DropInode
<1> QED
  BY <1>1, <1>2

LEMMA RemoveInodeKeeps ==
    ASSUME NEW s \in States, NEW p \in DirPaths
    PROVE  RemoveInode(s, p) \in States /\ SameFiles(s, RemoveInode(s, p))
<1> DEFINE t == DropInode(s, p)
           u == RemoveEntryFromDir(t, Corrected(p), DirEntry(Last(p)))
<1>1. t \in States /\ SameFiles(s, t)
  BY DropInodeIs, FailIs
<1>2. RemoveInode(s, p) = IF t.out = "ok" THEN (IF p = <<>> THEN t ELSE u) ELSE t
  BY DEF RemoveInode, Then
<1>3. Corrected(p) \in DirPaths
  BY ParentIsDir DEF Corrected
<1>4. t.out = "ok" => u \in States /\ SameFiles(t, u)
  <2> HIDE DEF t
  <2> QED
    BY <1>1, <1>3, RemoveEntryIs
<1> HIDE DEF t, u
<1> QED
  BY <1>1, <1>2, <1>4 DEF SameFiles

-----------------------------------------------------------------------------
\* What the calls do to files.

\* What a path is cached as is what its feed says.
Fresh(s) == \A p \in FilePaths : s.fileMap[p] # NotCached => s.fileMap[p] = s.meta[p]

\* The content of every file is there and is no other file's.
Owned(s) ==
    /\ \A p \in FilePaths : s.meta[p] \in Blobs => s.meta[p] \in s.live
    /\ \A p, q \in FilePaths : s.meta[p] \in Blobs /\ s.meta[p] = s.meta[q] => p = q

\* The states of a pod before the first move and the first backup left half-way.
Kept == {s \in States : Fresh(s) /\ Owned(s)}

LEMMA SameFilesKeep ==
    ASSUME NEW s \in Kept, NEW t \in States, SameFiles(s, t)
    PROVE  t \in Kept
  BY DEF Kept, Fresh, Owned, SameFiles

\* What a call sees of a file.
LEMMA SeenIs ==
    ASSUME NEW s \in States, NEW p \in FilePaths
    PROVE  /\ Seen(s, p) \in Blobs \cup {NotCached}
           /\ s \in Kept => Seen(s, p) = IF s.meta[p] \in Blobs THEN s.meta[p] ELSE NotCached
           /\ Seen(s, p) = NotCached => s.fileMap[p] = NotCached /\ s.meta[p] \notin Blobs
           /\ NotCached \notin Blobs /\ Absent \notin Blobs /\ Deleted \notin Blobs
  BY StateIs, MarksAreNoValues DEF Seen, HasMeta, Kept, Fresh

\* GetInode of a file caches what it sees.
LEMMA CacheIs ==
    ASSUME NEW s \in States, NEW p \in FilePaths
    PROVE  LET t == Cache(s, p)
           IN  /\ t \in States /\ SameDirs(s, t) /\ t.out = s.out
               /\ t.meta = s.meta /\ t.live = s.live
               /\ t.fileMap = [s.fileMap EXCEPT ![p] = Seen(s, p)]
               /\ s \in Kept => t \in Kept
<1> DEFINE f == [s.fileMap EXCEPT ![p] = Seen(s, p)]
           t == Cache(s, p)
<1>1. t = [dir |-> s.dir, meta |-> s.meta, live |-> s.live, dirMap |-> s.dirMap,
           fileMap |-> f, out |-> s.out]
  <2>1. t = [s EXCEPT !.fileMap = f]
    BY StateIs DEF Cache
  <2> HIDE DEF f, t
  <2> QED
    BY <2>1, StateIs
<1>2. /\ f \in [FilePaths -> Blobs \cup {NotCached}]
      /\ \A q \in FilePaths : f[q] = IF q = p THEN Seen(s, p) ELSE s.fileMap[q]
  BY SeenIs, StateIs
<1> HIDE DEF f
<1>3. t \in States
  <2> HIDE DEF t
  <2> QED
    BY <1>1, <1>2, StateIs, StateOf
<1>4. /\ t.dir = s.dir /\ t.meta = s.meta /\ t.live = s.live /\ t.dirMap = s.dirMap
      /\ t.fileMap = f /\ t.out = s.out
  <2> HIDE DEF t
  <2> QED
    BY <1>1
<1> HIDE DEF t
<1>5. s \in Kept => t \in Kept
  BY <1>2, <1>3, <1>4, SeenIs DEF Kept, Fresh, Owned
<1> QED
  BY <1>3, <1>4, <1>5 DEF SameDirs, t, f

\* RmFile deletes the content a file is seen to have and marks its feed, or
\* fails and has deleted nothing.
LEMMA RmFileIs ==
    ASSUME NEW s \in States, NEW p \in FilePaths, s.out = "ok"
    PROVE  LET t == RmFile(s, p)
           IN  /\ t \in States /\ SameDirs(s, t)
               /\ \/ t.out = "ok" /\ t.meta = [s.meta EXCEPT ![p] = Deleted]
                  \/ t.out = "error" /\ t.meta = s.meta /\ t.live = s.live
               /\ s \in Kept => t \in Kept
               /\ s \in Kept /\ s.meta[p] \in Blobs => t.out = "ok"
<1> DEFINE t == RmFile(s, p)
<1>1. CASE Seen(s, p) = NotCached
  <2>1. t = Fail(s)
    BY <1>1 DEF RmFile
  <2>2. /\ Fail(s) \in States /\ SameFiles(s, Fail(s)) /\ SameDirs(s, Fail(s))
        /\ Fail(s).out = "error"
    BY FailIs
  <2>3. s \in Kept => Fail(s) \in Kept
    BY <2>2, SameFilesKeep
  <2>4. s.meta[p] \notin Blobs
    BY <1>1, SeenIs
  <2> QED
    BY <2>1, <2>2, <2>3, <2>4 DEF SameFiles
<1>2. CASE Seen(s, p) # NotCached /\ Seen(s, p) \notin s.live
  <2> DEFINE c == Cache(s, p)
  <2>1. t = Fail(c)
    BY <1>2 DEF RmFile
  <2>2. /\ c \in States /\ SameDirs(s, c) /\ c.meta = s.meta /\ c.live = s.live
        /\ s \in Kept => c \in Kept
    BY CacheIs
  <2> HIDE DEF c
  <2>3. /\ Fail(c) \in States /\ SameFiles(c, Fail(c)) /\ SameDirs(c, Fail(c))
        /\ Fail(c).out = "error"
    BY <2>2, FailIs
  <2>4. s \in Kept => Fail(c) \in Kept
    BY <2>2, <2>3, SameFilesKeep
  <2>5. s \in Kept => s.meta[p] \notin Blobs
    BY <1>2, SeenIs DEF Kept, Owned
  <2> QED
    BY <2>1, <2>2, <2>3, <2>4, <2>5 DEF SameFiles, SameDirs
<1>3. CASE Seen(s, p) # NotCached /\ Seen(s, p) \in s.live
  <2> DEFINE m == [s.meta EXCEPT ![p] = Deleted]
             f == [s.fileMap EXCEPT ![p] = NotCached]
             l == s.live \ {Seen(s, p)}
  <2>1. t = [dir |-> s.dir, meta |-> m, live |-> l, dirMap |-> s.dirMap,
             fileMap |-> f, out |-> s.out]
    <3>1. t = [s EXCEPT !.meta = m, !.live = l, !.fileMap = f]
      BY <1>3, StateIs DEF RmFile
    <3> HIDE DEF m, l, f, t
    <3> QED
      BY <3>1, FilesReplaced
  <2>2. /\ f \in [FilePaths -> Blobs \cup {NotCached}]
        /\ \A q \in FilePaths : f[q] = IF q = p THEN NotCached ELSE s.fileMap[q]
        /\ m \in [FilePaths -> Blobs \cup {Absent, Deleted}]
        /\ \A q \in FilePaths : m[q] = IF q = p THEN Deleted ELSE s.meta[q]
        /\ l \in SUBSET Blobs
    BY StateIs
  <2> HIDE DEF m, f
  <2>3. t \in States
    <3> HIDE DEF t, l
    <3> QED
      BY <2>1, <2>2, StateIs, StateOf
  <2>4. /\ t.dir = s.dir /\ t.meta = m /\ t.live = l /\ t.dirMap = s.dirMap
        /\ t.fileMap = f /\ t.out = s.out
    <3> HIDE DEF t, l
    <3> QED
      BY <2>1
  <2> HIDE DEF t
  <2>5. ASSUME s \in Kept
        PROVE  t \in Kept
    <3>1. Fresh(s) /\ Owned(s)
      BY <2>5 DEF Kept
    <3>2. Seen(s, p) = s.meta[p] /\ s.meta[p] \in Blobs
      BY <1>3, <2>5, SeenIs
    <3>3. Fresh(t)
      BY <2>2, <2>4, <3>1 DEF Fresh
    <3>4. ASSUME NEW q \in FilePaths, t.meta[q] \in Blobs
          PROVE  q # p /\ t.meta[q] = s.meta[q] /\ t.meta[q] \in t.live
      <4>1. q # p /\ t.meta[q] = s.meta[q]
        BY <2>2, <2>4, <3>4, SeenIs
      <4>2. s.meta[q] \in s.live /\ s.meta[q] # s.meta[p]
        BY <3>1, <3>2, <3>4, <4>1 DEF Owned
      <4> QED
        BY <2>4, <3>2, <4>1, <4>2
    <3>5. Owned(t)
      <4>1. \A q, r \in FilePaths : t.meta[q] \in Blobs /\ t.meta[q] = t.meta[r] => q = r
        BY <3>1, <3>4 DEF Owned
      <4> QED
        BY <3>4, <4>1 DEF Owned
    <3> QED
      BY <2>3, <3>3, <3>5 DEF Kept
  <2> QED
    BY <2>3, <2>4, <2>5 DEF SameDirs, t, m
<1> QED
  BY <1>1, <1>2, <1>3

\* Upload stores a content under a name.
LEMMA UploadIs ==
    ASSUME NEW s \in States, NEW p \in FilePaths, NEW b \in Blobs
    PROVE  LET t == Upload(s, p, b, FALSE)
           IN  /\ t \in States /\ SameDirs(s, t) /\ t.out = s.out
               /\ t.meta = [s.meta EXCEPT ![p] = b]
               /\ t.fileMap = [s.fileMap EXCEPT ![p] = b]
               /\ t.live = s.live \cup {b}
<1> DEFINE m == [s.meta EXCEPT ![p] = b]
           f == [s.fileMap EXCEPT ![p] = b]
           t == Upload(s, p, b, FALSE)
<1>1. t = [dir |-> s.dir, meta |-> m, live |-> s.live \cup {b}, dirMap |-> s.dirMap,
           fileMap |-> f, out |-> s.out]
  <2>1. t = [s EXCEPT !.meta = m, !.live = s.live \cup {b}, !.fileMap = f]
    BY StateIs DEF Upload
  <2> HIDE DEF m, f, t
  <2> QED
    BY <2>1, FilesReplaced
<1>2. /\ f \in [FilePaths -> Blobs \cup {NotCached}]
      /\ m \in [FilePaths -> Blobs \cup {Absent, Deleted}]
      /\ s.live \cup {b} \in SUBSET Blobs
  BY StateIs
<1> HIDE DEF m, f
<1>3. t \in States
  <2> HIDE DEF t
  <2> QED
    BY <1>1, <1>2, StateIs, StateOf
<1>4. /\ t.dir = s.dir /\ t.meta = m /\ t.live = s.live \cup {b} /\ t.dirMap = s.dirMap
      /\ t.fileMap = f /\ t.out = s.out
  <2> HIDE DEF t
  <2> QED
    BY <1>1
<1> HIDE DEF t
<1> QED
  BY <1>3, <1>4 DEF SameDirs, t, m, f

\* RenameFromFileName gives a content another name.
LEMMA RenameFromIs ==
    ASSUME NEW s \in States, NEW p \in FilePaths, NEW q \in FilePaths, p # q,
           Seen(s, p) # NotCached, Seen(s, q) = NotCached
    PROVE  LET t == RenameFromFileName(s, p, q)
           IN  /\ t \in States /\ SameDirs(s, t) /\ t.out = s.out /\ t.live = s.live
               /\ \A r \in FilePaths : t.meta[r] = IF r = q THEN Seen(s, p)
                                                   ELSE IF r = p THEN Deleted ELSE s.meta[r]
               /\ s \in Kept => t \in Kept
<1> DEFINE m == [[s.meta EXCEPT ![p] = Deleted] EXCEPT ![q] = Seen(s, p)]
           f == [[s.fileMap EXCEPT ![p] = NotCached] EXCEPT ![q] = Seen(s, p)]
           t == RenameFromFileName(s, p, q)
<1>1. t = [dir |-> s.dir, meta |-> m, live |-> s.live, dirMap |-> s.dirMap,
           fileMap |-> f, out |-> s.out]
  <2>1. t = [s EXCEPT !.meta = m, !.live = s.live, !.fileMap = f]
    BY StateIs DEF RenameFromFileName
  <2> HIDE DEF m, f, t
  <2> QED
    BY <2>1, FilesReplaced
<1>2. Seen(s, p) \in Blobs
  BY SeenIs
<1>3. /\ f \in [FilePaths -> Blobs \cup {NotCached}]
      /\ \A r \in FilePaths : f[r] = IF r = q THEN Seen(s, p)
                                     ELSE IF r = p THEN NotCached ELSE s.fileMap[r]
  BY <1>2, StateIs
<1>4. /\ m \in [FilePaths -> Blobs \cup {Absent, Deleted}]
      /\ \A r \in FilePaths : m[r] = IF r = q THEN Seen(s, p)
                                     ELSE IF r = p THEN Deleted ELSE s.meta[r]
  BY <1>2, StateIs
<1> HIDE DEF m, f
<1>5. t \in States
  <2> HIDE DEF t
  <2> QED
    BY <1>1, <1>3, <1>4, StateIs, StateOf
<1>6. /\ t.dir = s.dir /\ t.meta = m /\ t.live = s.live /\ t.dirMap = s.dirMap
      /\ t.fileMap = f /\ t.out = s.out
  <2> HIDE DEF t
  <2> QED
    BY <1>1
<1> HIDE DEF t
<1>7. ASSUME s \in Kept
      PROVE  t \in Kept
  <2>1. Fresh(s) /\ Owned(s)
    BY <1>7 DEF Kept
  <2>2. Seen(s, p) = s.meta[p] /\ s.meta[p] \in Blobs /\ s.meta[q] \notin Blobs
    BY <1>2, <1>7, SeenIs
  <2>3. Fresh(t)
    BY <1>3, <1>4, <1>6, <2>1 DEF Fresh
  <2> DEFINE from(r) == IF r = q THEN p ELSE r
  <2>4. ASSUME NEW r \in FilePaths, t.meta[r] \in Blobs
        PROVE  r # p /\ from(r) \in FilePaths /\ t.meta[r] = s.meta[from(r)]
    BY <1>4, <1>6, <2>2, <2>4, SeenIs
  <2>5. \A r \in FilePaths : t.meta[r] \in Blobs => t.meta[r] \in t.live
    BY <1>6, <2>1, <2>4 DEF Owned
  <2>6. ASSUME NEW r \in FilePaths, NEW u \in FilePaths,
               t.meta[r] \in Blobs, t.meta[r] = t.meta[u]
        PROVE  r = u
    <3>1. from(r) = from(u)
      <4>1. /\ r # p /\ from(r) \in FilePaths /\ t.meta[r] = s.meta[from(r)]
            /\ u # p /\ from(u) \in FilePaths /\ t.meta[u] = s.meta[from(u)]
        BY <2>4, <2>6
      <4> HIDE DEF from
      <4> QED
        BY <2>1, <2>6, <4>1 DEF Owned
    <3> QED
      BY <2>4, <2>6, <3>1
  <2>7. Owned(t)
    BY <2>5, <2>6 DEF Owned
  <2> QED
    BY <1>5, <2>3, <2>7 DEF Kept
<1> QED
  BY <1>4, <1>5, <1>6, <1>7 DEF SameDirs, t

\* The content of a file that is there moves to a backup's name that never was.
LEMMA BackupIs ==
    ASSUME NEW s \in States, NEW p \in FilePaths, NEW q \in FilePaths, s.out = "ok"
    PROVE  LET t == BackupFromFileName(s, p, q)
           IN  /\ t \in States /\ SameDirs(s, t) /\ t.live = s.live
               /\ t.out \in {"ok", "error"}
               /\ s.meta[p] \in Blobs /\ s.meta[q] = Absent =>
                    /\ t.out = "ok"
                    /\ \A r \in FilePaths :
                         /\ t.meta[r] = IF r = q THEN s.meta[p]
                                        ELSE IF r = p THEN Deleted ELSE s.meta[r]
                         /\ t.fileMap[r] = IF r = q THEN s.meta[p] ELSE s.fileMap[r]
               /\ s.meta[p] \notin Blobs => t = Fail(s)
<1> DEFINE m == [s.meta EXCEPT ![p] = Deleted]
           gone == [s EXCEPT !.meta[p] = Deleted]
           t == BackupFromFileName(s, p, q)
<1>1. gone = [dir |-> s.dir, meta |-> m, live |-> s.live, dirMap |-> s.dirMap,
              fileMap |-> s.fileMap, out |-> s.out]
  <2>1. gone = [s EXCEPT !.meta = m]
    BY StateIs
  <2> HIDE DEF m, gone
  <2> QED
    BY <2>1, StateIs
<1>2. /\ m \in [FilePaths -> Blobs \cup {Absent, Deleted}]
      /\ \A r \in FilePaths : m[r] = IF r = p THEN Deleted ELSE s.meta[r]
  BY StateIs
<1> HIDE DEF m
<1>3. gone \in States
  <2> HIDE DEF gone
  <2> QED
    BY <1>1, <1>2, StateIs, StateOf
<1>4. /\ gone.dir = s.dir /\ gone.meta = m /\ gone.live = s.live /\ gone.dirMap = s.dirMap
      /\ gone.fileMap = s.fileMap /\ gone.out = s.out
  <2> HIDE DEF gone
  <2> QED
    BY <1>1
<1>5. t = IF s.meta[p] \notin Blobs THEN Fail(s)
          ELSE IF s.meta[q] # Absent THEN Fail(gone)
          ELSE [gone EXCEPT !.meta[q] = s.meta[p], !.fileMap[q] = s.meta[p]]
  BY DEF BackupFromFileName, HasMeta
<1> HIDE DEF gone, t
<1>6. CASE s.meta[p] \notin Blobs
  <2>1. t = Fail(s)
    BY <1>5, <1>6
  <2>2. /\ Fail(s) \in States /\ SameFiles(s, Fail(s)) /\ SameDirs(s, Fail(s))
        /\ Fail(s).out = "error"
    BY FailIs
  <2> QED
    BY <1>6, <2>1, <2>2 DEF t, SameFiles
<1>7. CASE s.meta[p] \in Blobs /\ s.meta[q] # Absent
  <2>1. t = Fail(gone)
    BY <1>5, <1>7
  <2>2. /\ Fail(gone) \in States /\ SameFiles(gone, Fail(gone)) /\ SameDirs(gone, Fail(gone))
        /\ Fail(gone).out = "error"
    BY <1>3, FailIs
  <2> QED
    BY <1>4, <1>7, <2>1, <2>2 DEF t, SameFiles, SameDirs
<1>8. CASE s.meta[p] \in Blobs /\ s.meta[q] = Absent
  <2> DEFINE n == [m EXCEPT ![q] = s.meta[p]]
             f == [s.fileMap EXCEPT ![q] = s.meta[p]]
  <2>1. t = [dir |-> s.dir, meta |-> n, live |-> s.live, dirMap |-> s.dirMap,
             fileMap |-> f, out |-> s.out]
    <3>1. t = [gone EXCEPT !.meta = n, !.fileMap = f]
      BY <1>4, <1>5, <1>8
    <3> HIDE DEF n, f
    <3> QED
      BY <1>1, <3>1
  <2>2. /\ n \in [FilePaths -> Blobs \cup {Absent, Deleted}]
        /\ \A r \in FilePaths : n[r] = IF r = q THEN s.meta[p] ELSE m[r]
    BY <1>2, <1>8, StateIs
  <2>3. /\ f \in [FilePaths -> Blobs \cup {NotCached}]
        /\ \A r \in FilePaths : f[r] = IF r = q THEN s.meta[p] ELSE s.fileMap[r]
    BY <1>8, StateIs
  <2> HIDE DEF n, f
  <2>4. t \in States
    BY <2>1, <2>2, <2>3, StateIs, StateOf
  <2>5. /\ t.dir = s.dir /\ t.meta = n /\ t.live = s.live /\ t.dirMap = s.dirMap
        /\ t.fileMap = f /\ t.out = s.out
    BY <2>1
  <2> QED
    BY <1>2, <1>8, <2>2, <2>3, <2>4, <2>5 DEF t, SameDirs
<1> QED
  BY <1>6, <1>7, <1>8 DEF t

-----------------------------------------------------------------------------
\* Walks of a tree.

\* What holds of a directory once it holds of those in it holds of all.
LEMMA DownInduction ==
    ASSUME NEW T,
           \A p \in DirPaths :
              (\A n \in DirNames : Len(p) < MaxDepth => Append(p, n) \in T) => p \in T
    PROVE  DirPaths \subseteq T
<1> DEFINE m == [p \in DirPaths |-> MaxDepth - Len(p)]
<1>1. \A p \in DirPaths : Len(p) \in 0..MaxDepth /\ MaxDepth \in Nat
  BY PathsAre, TreeAssumption
<1>2. m \in [DirPaths -> Nat]
  BY <1>1
<1>3. ASSUME NEW p \in DirPaths, \A q \in DirPaths : m[q] < m[p] => q \in T
      PROVE  p \in T
  <2>1. ASSUME NEW n \in DirNames, Len(p) < MaxDepth
        PROVE  Append(p, n) \in T
    <3>1. Append(p, n) \in DirPaths /\ Len(Append(p, n)) = Len(p) + 1
      BY <2>1, DirPathsGrow
    <3>2. m[Append(p, n)] < m[p]
      BY <1>1, <3>1
    <3> QED
      BY <1>3, <3>1, <3>2
  <2> QED
    BY <2>1
<1> HIDE DEF m
<1> QED
  BY <1>2, <1>3, MeasureInduction

\* Def computes the value at a directory from those at the directories in it.
Descends(V, Def) ==
    /\ V # {} /\ Def \in [[DirPaths -> V] \X DirPaths -> V]
    /\ \A g, h \in [DirPaths -> V] : \A p \in DirPaths :
          (\A n \in DirNames : Len(p) < MaxDepth => g[Append(p, n)] = h[Append(p, n)])
             => Def[<<g, p>>] = Def[<<h, p>>]

LEMMA WalksAre ==
    ASSUME NEW V, NEW Def, Descends(V, Def)
    PROVE  HasSolution(DirPaths, V, Def)
<1> DEFINE m == [p \in DirPaths |-> MaxDepth - Len(p)]
<1>1. \A p \in DirPaths : Len(p) \in 0..MaxDepth /\ MaxDepth \in Nat
  BY PathsAre, TreeAssumption
<1>2. m \in [DirPaths -> Nat]
  BY <1>1
<1>3. ASSUME NEW g \in [DirPaths -> V], NEW h \in [DirPaths -> V], NEW p \in DirPaths,
             \A q \in DirPaths : m[q] < m[p] => g[q] = h[q]
      PROVE  Def[<<g, p>>] = Def[<<h, p>>]
  <2>1. ASSUME NEW n \in DirNames, Len(p) < MaxDepth
        PROVE  g[Append(p, n)] = h[Append(p, n)]
    <3>1. Append(p, n) \in DirPaths /\ Len(Append(p, n)) = Len(p) + 1
      BY <2>1, DirPathsGrow
    <3>2. m[Append(p, n)] < m[p]
      BY <1>1, <3>1
    <3> QED
      BY <1>3, <3>1, <3>2
  <2> QED
    BY <2>1 DEF Descends
<1> HIDE DEF m
<1>4. LooksDown(DirPaths, V, m, Def)
  BY <1>2, <1>3 DEF Descends, LooksDown
<1> QED
  BY <1>4, RecursionHasSolution

\* What RmDir does with an entry.
LEMMA RmEntriesAre ==
    ASSUME NEW g \in [DirPaths -> [States -> States]], NEW p \in DirPaths
    PROVE  /\ rmEntries(g, p) \in [EntriesAt(p) -> [States -> States]]
           /\ \A e \in EntriesAt(p), s \in States :
                 rmEntries(g, p)[e][s] = IF s.out # "ok" THEN s
                                         ELSE IF e[1] = "F" THEN rmFile(s, p, e)
                                         ELSE g[Append(p, e[2])][s]
<1>1. \A e \in EntriesAt(p), s \in States :
         rmEntries(g, p)[e][s] = IF s.out # "ok" THEN s
                                 ELSE IF e[1] = "F" THEN rmFile(s, p, e)
                                 ELSE g[Append(p, e[2])][s]
  BY DEF rmEntries, Then
<1>2. ASSUME NEW e \in EntriesAt(p), NEW s \in States, s.out = "ok"
      PROVE  (IF e[1] = "F" THEN rmFile(s, p, e) ELSE g[Append(p, e[2])][s]) \in States
  <2>1. CASE e[1] = "F"
    <3>1. Append(p, e[2]) \in FilePaths
      BY <2>1, EntriesAre
    <3> DEFINE t == RmFile(s, Append(p, e[2]))
    <3>2. t \in States
      BY <1>2, <3>1, RmFileIs
    <3>3. rmFile(s, p, e) = IF t.out = "ok" THEN RemoveEntryFromDir(t, p, e) ELSE t
      BY DEF rmFile, Then
    <3> HIDE DEF t
    <3>4. t.out = "ok" => RemoveEntryFromDir(t, p, e) \in States
      BY <3>2, RemoveEntryIs
    <3> QED
      BY <2>1, <3>2, <3>3, <3>4
  <2>2. CASE e[1] # "F"
    BY <2>2, EntriesAre
  <2> QED
    BY <2>1, <2>2
<1>3. \A e \in EntriesAt(p), s \in States : rmEntries(g, p)[e][s] \in States
  BY <1>1, <1>2
<1>4. rmEntries(g, p) = [e \in EntriesAt(p) |-> [s \in States |-> rmEntries(g, p)[e][s]]]
  BY DEF rmEntries
<1> QED
  BY <1>1, <1>3, <1>4

RmDirStep(g, p) ==
    [s \in States |->
        Then(Then(GetInode(s, p), LAMBDA t : Each(rmEntries(g, p), t, t.dir[p])),
             LAMBDA t : RemoveInode(t, p))]

\* RmDir takes the entries of a directory out one by one, then the directory.
LEMMA RmDirStepIs ==
    ASSUME NEW g \in [DirPaths -> [States -> States]], NEW p \in DirPaths, NEW s \in States
    PROVE  LET t == GetInode(s, p)
               u == Each(rmEntries(g, p), t, t.dir[p])
           IN  /\ t.out # "ok" => RmDirStep(g, p)[s] = t
               /\ t.out = "ok" =>
                     /\ Loop(EntriesAt(p), States, rmEntries(g, p), t, t.dir[p])
                     /\ u \in States
                     /\ RmDirStep(g, p)[s] = IF u.out = "ok" THEN RemoveInode(u, p) ELSE u
               /\ RmDirStep(g, p)[s] \in States
<1> DEFINE t == GetInode(s, p)
           u == Each(rmEntries(g, p), t, t.dir[p])
           r == RmDirStep(g, p)[s]
<1>1. /\ t \in States /\ t.dir = s.dir
      /\ t.out = "ok" => s.dir[p] # NoDir
  BY GetInodeIs
<1>2. r = IF t.out = "ok" THEN (IF u.out = "ok" THEN RemoveInode(u, p) ELSE u)
          ELSE (IF t.out = "ok" THEN RemoveInode(t, p) ELSE t)
  BY DEF RmDirStep, Then
<1>3. ASSUME t.out = "ok"
      PROVE  Loop(EntriesAt(p), States, rmEntries(g, p), t, t.dir[p])
  <2>1. t.dir[p] \in Seq(EntriesAt(p))
    BY <1>1, <1>3, StateIs
  <2> QED
    BY <1>1, <2>1, RmEntriesAre DEF Loop
<1>4. ASSUME t.out = "ok"
      PROVE  u \in States
  <2>1. LoopSteps(States, rmEntries(g, p), t, t.dir[p])
    BY <1>3, <1>4, LoopIs
  <2>2. Len(t.dir[p]) \in Nat
    BY <1>1, <1>4, StateIs, LenProperties
  <2> HIDE DEF t
  <2>3. PICK after \in [0..Len(t.dir[p]) -> States] : u = after[Len(t.dir[p])]
    BY <2>1 DEF LoopSteps
  <2> QED
    BY <2>2, <2>3
<1>5. t.out = "ok" => RemoveInode(u, p) \in States
  <2> HIDE DEF t, u
  <2> QED
    BY <1>4, RemoveInodeKeeps
<1> HIDE DEF t, u, r
<1>6. r = IF t.out = "ok" THEN (IF u.out = "ok" THEN RemoveInode(u, p) ELSE u) ELSE t
  BY <1>2
<1> QED
  BY <1>1, <1>3, <1>4, <1>5, <1>6 DEF t, u, r

\* RmDir of a directory depends on RmDir of those in it, and of no other.
LEMMA RmDirLooksDown ==
    ASSUME NEW g, NEW h, NEW p \in DirPaths,
           \A n \in DirNames : Len(p) < MaxDepth => g[Append(p, n)] = h[Append(p, n)]
    PROVE  RmDirStep(g, p) = RmDirStep(h, p)
<1>1. \A e \in EntriesAt(p) : e[1] # "F" => g[Append(p, e[2])] = h[Append(p, e[2])]
  BY EntriesAre
<1>2. rmEntries(g, p) = rmEntries(h, p)
  BY <1>1 DEF rmEntries, Then
<1> QED
  BY <1>2 DEF RmDirStep, Then

\* RmDir ends: its recursion is what its equation says.
LEMMA RmDirUnfolds ==
    /\ rmDir \in [DirPaths -> [States -> States]]
    /\ \A p \in DirPaths : rmDir[p] = RmDirStep(rmDir, p)
<1> DEFINE V == [States -> States]
           Def == [x \in [DirPaths -> V] \X DirPaths |-> RmDirStep(x[1], x[2])]
<1>1. \A g \in [DirPaths -> V], p \in DirPaths : RmDirStep(g, p) \in V
  <2> SUFFICES ASSUME NEW g \in [DirPaths -> V], NEW p \in DirPaths
               PROVE  RmDirStep(g, p) \in V
    OBVIOUS
  <2>1. \A s \in States : RmDirStep(g, p)[s] \in States
    BY RmDirStepIs
  <2>2. RmDirStep(g, p) = [s \in States |-> RmDirStep(g, p)[s]]
    BY DEF RmDirStep
  <2> QED
    BY <2>1, <2>2
<1>2. /\ Def \in [[DirPaths -> V] \X DirPaths -> V]
      /\ \A g \in [DirPaths -> V], p \in DirPaths : Def[<<g, p>>] = RmDirStep(g, p)
  BY <1>1
<1>3. V # {}
  <2>1. [s \in States |-> s] \in V
    OBVIOUS
  <2> QED
    BY <2>1
<1>4. Descends(V, Def)
  <2>1. \A g, h \in [DirPaths -> V] : \A p \in DirPaths :
           (\A n \in DirNames : Len(p) < MaxDepth => g[Append(p, n)] = h[Append(p, n)])
              => Def[<<g, p>>] = Def[<<h, p>>]
    <3> HIDE DEF V, Def
    <3> SUFFICES ASSUME NEW g \in [DirPaths -> V], NEW h \in [DirPaths -> V],
                        NEW p \in DirPaths,
                        \A n \in DirNames : Len(p) < MaxDepth
                           => g[Append(p, n)] = h[Append(p, n)]
                 PROVE  Def[<<g, p>>] = Def[<<h, p>>]
      OBVIOUS
    <3>1. RmDirStep(g, p) = RmDirStep(h, p)
      BY RmDirLooksDown
    <3> QED
      BY <1>2, <3>1
  <2> HIDE DEF V, Def
  <2> QED
    BY <1>2, <1>3, <2>1 DEF Descends
<1>5. PICK f \in [DirPaths -> V] : \A p \in DirPaths : f[p] = RmDirStep(f, p)
  <2> HIDE DEF V, Def
  <2>1. HasSolution(DirPaths, V, Def)
    BY <1>4, WalksAre
  <2> QED
    BY <1>2, <2>1 DEF HasSolution
<1>6. f = [p \in DirPaths |-> RmDirStep(f, p)]
  <2> HIDE DEF V
  <2> QED
    BY <1>5
<1>7. rmDir = [p \in DirPaths |-> RmDirStep(rmDir, p)]
  BY <1>6, Zenon DEF rmDir, RmDirStep
<1>8. \A p \in DirPaths : rmDir[p] = RmDirStep(rmDir, p)
  BY <1>7, Zenon
<1>9. DirPaths \subseteq {p \in DirPaths : rmDir[p] = f[p]}
  <2> DEFINE T == {p \in DirPaths : rmDir[p] = f[p]}
  <2>1. \A p \in DirPaths :
           (\A n \in DirNames : Len(p) < MaxDepth => Append(p, n) \in T) => p \in T
    BY <1>5, <1>8, RmDirLooksDown
  <2> HIDE DEF T
  <2>2. DirPaths \subseteq T
    BY <2>1, DownInduction
  <2> QED
    BY <2>2 DEF T
<1>10. rmDir = f
  <2> HIDE DEF V
  <2>1. rmDir = [p \in DirPaths |-> rmDir[p]]
    BY <1>7
  <2>2. f = [p \in DirPaths |-> f[p]]
    OBVIOUS
  <2> QED
    BY <1>9, <2>1, <2>2
<1> QED
  BY <1>8, <1>10

\* What the sync of a directory does with an entry.
LEMMA LoadFileMetaIs ==
    ASSUME NEW s \in States, NEW p \in FilePaths
    PROVE  LET t == loadFileMeta(s, p)
           IN  /\ t \in States /\ SameDirs(s, t) /\ t.out = s.out
               /\ t.meta = s.meta /\ t.live = s.live
               /\ s \in Kept => t \in Kept
<1> DEFINE t == loadFileMeta(s, p)
           f == [s.fileMap EXCEPT ![p] = s.meta[p]]
<1>1. CASE ~HasMeta(s, p)
  BY <1>1 DEF loadFileMeta, SameDirs
<1>2. CASE HasMeta(s, p)
  <2>0. s.meta[p] \in Blobs
    BY <1>2 DEF HasMeta
  <2>1. t = [dir |-> s.dir, meta |-> s.meta, live |-> s.live, dirMap |-> s.dirMap,
             fileMap |-> f, out |-> s.out]
    <3>1. t = [s EXCEPT !.fileMap = f]
      BY <1>2, StateIs DEF loadFileMeta
    <3> HIDE DEF f, t
    <3> QED
      BY <3>1, StateIs
  <2>2. /\ f \in [FilePaths -> Blobs \cup {NotCached}]
        /\ \A q \in FilePaths : f[q] = IF q = p THEN s.meta[p] ELSE s.fileMap[q]
    BY <2>0, StateIs
  <2> HIDE DEF f, t
  <2>3. t \in States
    BY <2>1, <2>2, StateIs, StateOf
  <2>4. /\ t.dir = s.dir /\ t.meta = s.meta /\ t.live = s.live /\ t.dirMap = s.dirMap
        /\ t.fileMap = f /\ t.out = s.out
    BY <2>1
  <2>5. s \in Kept => t \in Kept
    BY <2>2, <2>3, <2>4 DEF Kept, Fresh, Owned
  <2> QED
    BY <2>3, <2>4, <2>5 DEF SameDirs, t
<1> QED
  BY <1>1, <1>2

LEMMA SyncEntriesAre ==
    ASSUME NEW g \in [DirPaths -> [States -> States]], NEW p \in DirPaths
    PROVE  /\ syncEntries(g, p) \in [EntriesAt(p) -> [States -> States]]
           /\ \A e \in EntriesAt(p), s \in States :
                 syncEntries(g, p)[e][s] =
                    IF s.out # "ok" THEN s
                    ELSE IF e[1] = "F" THEN loadFileMeta(s, Append(p, e[2]))
                    ELSE g[Append(p, e[2])][s]
<1>1. \A e \in EntriesAt(p), s \in States :
         syncEntries(g, p)[e][s] =
            IF s.out # "ok" THEN s
            ELSE IF e[1] = "F" THEN loadFileMeta(s, Append(p, e[2]))
            ELSE g[Append(p, e[2])][s]
  BY DEF syncEntries, Then
<1>2. ASSUME NEW e \in EntriesAt(p), NEW s \in States
      PROVE  (IF e[1] = "F" THEN loadFileMeta(s, Append(p, e[2]))
              ELSE g[Append(p, e[2])][s]) \in States
  <2>1. CASE e[1] = "F"
    BY <2>1, EntriesAre, LoadFileMetaIs
  <2>2. CASE e[1] # "F"
    BY <2>2, EntriesAre
  <2> QED
    BY <2>1, <2>2
<1>3. \A e \in EntriesAt(p), s \in States : syncEntries(g, p)[e][s] \in States
  BY <1>1, <1>2
<1>4. syncEntries(g, p) = [e \in EntriesAt(p) |-> [s \in States |-> syncEntries(g, p)[e][s]]]
  BY DEF syncEntries
<1> QED
  BY <1>1, <1>3, <1>4

Synced(g, p, s) ==
    LET found == GetInode(s, p)
    IN  CASE found.out = "ok" -> Each(syncEntries(g, p), found, found.dir[p])
          [] found.out = "error" -> s
          [] found.out = "panic" -> found
SyncStep(g, p) == [s \in States |-> Synced(g, p, s)]

\* SyncDirectory loads the entries of a directory one by one.
LEMMA SyncStepIs ==
    ASSUME NEW g \in [DirPaths -> [States -> States]], NEW p \in DirPaths, NEW s \in States
    PROVE  LET t == GetInode(s, p)
               u == Each(syncEntries(g, p), t, t.dir[p])
           IN  /\ t.out = "error" => SyncStep(g, p)[s] = s
               /\ t.out = "panic" => SyncStep(g, p)[s] = t
               /\ t.out = "ok" =>
                     /\ Loop(EntriesAt(p), States, syncEntries(g, p), t, t.dir[p])
                     /\ SyncStep(g, p)[s] = u
               /\ SyncStep(g, p)[s] \in States
<1> DEFINE t == GetInode(s, p)
           u == Each(syncEntries(g, p), t, t.dir[p])
           r == SyncStep(g, p)[s]
<1>1. /\ t \in States /\ t.dir = s.dir /\ t.out \in {"ok", "error", "panic"}
      /\ t.out = "ok" => s.dir[p] # NoDir
  BY GetInodeIs, StateIs
<1>2. /\ t.out = "error" => r = s
      /\ t.out = "panic" => r = t
      /\ t.out = "ok" => r = u
  BY DEF SyncStep, Synced
<1>3. ASSUME t.out = "ok"
      PROVE  Loop(EntriesAt(p), States, syncEntries(g, p), t, t.dir[p])
  <2>1. t.dir[p] \in Seq(EntriesAt(p))
    BY <1>1, <1>3, StateIs
  <2> QED
    BY <1>1, <2>1, SyncEntriesAre DEF Loop
<1>4. ASSUME t.out = "ok"
      PROVE  u \in States
  <2>1. LoopSteps(States, syncEntries(g, p), t, t.dir[p])
    BY <1>3, <1>4, LoopIs
  <2>2. Len(t.dir[p]) \in Nat
    BY <1>1, <1>4, StateIs, LenProperties
  <2> HIDE DEF t
  <2>3. PICK after \in [0..Len(t.dir[p]) -> States] : u = after[Len(t.dir[p])]
    BY <2>1 DEF LoopSteps
  <2> QED
    BY <2>2, <2>3
<1> HIDE DEF t, u, r
<1> QED
  BY <1>1, <1>2, <1>3, <1>4 DEF t, u, r

LEMMA SyncLooksDown ==
    ASSUME NEW g, NEW h, NEW p \in DirPaths,
           \A n \in DirNames : Len(p) < MaxDepth => g[Append(p, n)] = h[Append(p, n)]
    PROVE  SyncStep(g, p) = SyncStep(h, p)
<1>1. \A e \in EntriesAt(p) : e[1] # "F" => g[Append(p, e[2])] = h[Append(p, e[2])]
  BY EntriesAre
<1>2. syncEntries(g, p) = syncEntries(h, p)
  BY <1>1 DEF syncEntries, Then
<1> QED
  BY <1>2 DEF SyncStep, Synced

\* SyncDirectory ends: its recursion is what its equation says.
LEMMA SyncUnfolds ==
    /\ syncDirectory \in [DirPaths -> [States -> States]]
    /\ \A p \in DirPaths : syncDirectory[p] = SyncStep(syncDirectory, p)
<1> DEFINE V == [States -> States]
           Def == [x \in [DirPaths -> V] \X DirPaths |-> SyncStep(x[1], x[2])]
<1>1. \A g \in [DirPaths -> V], p \in DirPaths : SyncStep(g, p) \in V
  <2> SUFFICES ASSUME NEW g \in [DirPaths -> V], NEW p \in DirPaths
               PROVE  SyncStep(g, p) \in V
    OBVIOUS
  <2>1. \A s \in States : SyncStep(g, p)[s] \in States
    BY SyncStepIs
  <2>2. SyncStep(g, p) = [s \in States |-> SyncStep(g, p)[s]]
    BY DEF SyncStep
  <2> QED
    BY <2>1, <2>2
<1>2. /\ Def \in [[DirPaths -> V] \X DirPaths -> V]
      /\ \A g \in [DirPaths -> V], p \in DirPaths : Def[<<g, p>>] = SyncStep(g, p)
  BY <1>1
<1>3. V # {}
  <2>1. [s \in States |-> s] \in V
    OBVIOUS
  <2> QED
    BY <2>1
<1>4. Descends(V, Def)
  <2>1. \A g, h \in [DirPaths -> V] : \A p \in DirPaths :
           (\A n \in DirNames : Len(p) < MaxDepth => g[Append(p, n)] = h[Append(p, n)])
              => Def[<<g, p>>] = Def[<<h, p>>]
    <3> HIDE DEF V, Def
    <3> SUFFICES ASSUME NEW g \in [DirPaths -> V], NEW h \in [DirPaths -> V],
                        NEW p \in DirPaths,
                        \A n \in DirNames : Len(p) < MaxDepth
                           => g[Append(p, n)] = h[Append(p, n)]
                 PROVE  Def[<<g, p>>] = Def[<<h, p>>]
      OBVIOUS
    <3>1. SyncStep(g, p) = SyncStep(h, p)
      BY SyncLooksDown
    <3> QED
      BY <1>2, <3>1
  <2> HIDE DEF V, Def
  <2> QED
    BY <1>2, <1>3, <2>1 DEF Descends
<1>5. PICK f \in [DirPaths -> V] : \A p \in DirPaths : f[p] = SyncStep(f, p)
  <2> HIDE DEF V, Def
  <2>1. HasSolution(DirPaths, V, Def)
    BY <1>4, WalksAre
  <2> QED
    BY <1>2, <2>1 DEF HasSolution
<1>6. f = [p \in DirPaths |-> SyncStep(f, p)]
  <2> HIDE DEF V
  <2> QED
    BY <1>5
<1>7. syncDirectory = [p \in DirPaths |-> SyncStep(syncDirectory, p)]
  BY <1>6, Zenon DEF syncDirectory, SyncStep, Synced
<1>8. \A p \in DirPaths : syncDirectory[p] = SyncStep(syncDirectory, p)
  BY <1>7, Zenon
<1>9. DirPaths \subseteq {p \in DirPaths : syncDirectory[p] = f[p]}
  <2> DEFINE T == {p \in DirPaths : syncDirectory[p] = f[p]}
  <2>1. \A p \in DirPaths :
           (\A n \in DirNames : Len(p) < MaxDepth => Append(p, n) \in T) => p \in T
    BY <1>5, <1>8, SyncLooksDown
  <2> HIDE DEF T
  <2>2. DirPaths \subseteq T
    BY <2>1, DownInduction
  <2> QED
    BY <2>2 DEF T
<1>10. syncDirectory = f
  <2> HIDE DEF V
  <2>1. syncDirectory = [p \in DirPaths |-> syncDirectory[p]]
    BY <1>7
  <2>2. f = [p \in DirPaths |-> f[p]]
    OBVIOUS
  <2> QED
    BY <1>9, <2>1, <2>2
<1> QED
  BY <1>8, <1>10

\* What the reading of an inode and of a file's meta keeps, a sync keeps.
SyncKeeps(J) ==
    /\ J \subseteq States
    /\ \A s \in J, p \in DirPaths : GetInode(s, p).out # "error" => GetInode(s, p) \in J
    /\ \A s \in J, p \in FilePaths : loadFileMeta(s, p) \in J

LEMMA SyncIs ==
    ASSUME NEW J, SyncKeeps(J), NEW p \in DirPaths, NEW s \in J
    PROVE  SyncDirectory(s, p) \in J
<1>0. /\ J \subseteq States
      /\ \A z \in J, q \in DirPaths : GetInode(z, q).out # "error" => GetInode(z, q) \in J
      /\ \A z \in J, q \in FilePaths : loadFileMeta(z, q) \in J
  BY DEF SyncKeeps
<1> DEFINE T == {q \in DirPaths : \A z \in J : syncDirectory[q][z] \in J}
<1>1. ASSUME NEW q \in DirPaths,
             \A n \in DirNames : Len(q) < MaxDepth => Append(q, n) \in T,
             NEW z \in J
      PROVE  syncDirectory[q][z] \in J
  <2> DEFINE t == GetInode(z, q)
             h == syncEntries(syncDirectory, q)
             u == Each(h, t, t.dir[q])
  <2>1. z \in States /\ syncDirectory[q][z] = SyncStep(syncDirectory, q)[z]
    BY <1>0, SyncUnfolds
  <2>2. /\ t.out = "error" => syncDirectory[q][z] = z
        /\ t.out = "panic" => syncDirectory[q][z] = t
        /\ t.out = "ok" => Loop(EntriesAt(q), States, h, t, t.dir[q])
                           /\ syncDirectory[q][z] = u
    BY <2>1, SyncStepIs, SyncUnfolds
  <2>3. t \in States /\ t.dir = z.dir /\ t.out \in {"ok", "error", "panic"}
        /\ (t.out = "ok" => z.dir[q] # NoDir)
    BY <2>1, GetInodeIs, StateIs
  <2>4. t.out # "error" => t \in J
    BY <1>0
  <2>5. ASSUME t.out = "ok"
        PROVE  u \in J
    <3>1. ASSUME NEW e \in EntriesAt(q), NEW x \in J \cap States
          PROVE  h[e][x] \in J
      <4>1. h[e][x] = IF x.out # "ok" THEN x
                      ELSE IF e[1] = "F" THEN loadFileMeta(x, Append(q, e[2]))
                      ELSE syncDirectory[Append(q, e[2])][x]
        BY SyncEntriesAre, SyncUnfolds
      <4> HIDE DEF h
      <4>2. CASE e[1] = "F"
        BY <1>0, <4>1, <4>2, EntriesAre
      <4>3. CASE e[1] # "F"
        <5>1. e[2] \in DirNames /\ Len(q) < MaxDepth
          BY <4>3, EntriesAre
        <5>2. Append(q, e[2]) \in T
          BY <1>1, <5>1
        <5> QED
          BY <4>1, <4>3, <5>2
      <4> QED
        BY <4>2, <4>3
    <3>2. Loop(EntriesAt(q), States, h, t, t.dir[q]) /\ t \in J
      BY <2>2, <2>4, <2>5
    <3>3. \A i \in 1..Len(t.dir[q]) : t.dir[q][i] \in EntriesAt(q)
      <4>1. t.dir[q] \in Seq(EntriesAt(q))
        BY <3>2 DEF Loop
      <4> QED
        BY <4>1, ElementOfSeq
    <3> HIDE DEF t, h
    <3>4. \A i \in 1..Len(t.dir[q]) : \A x \in J \cap States : h[t.dir[q][i]][x] \in J
      BY <3>1, <3>3
    <3>5. Each(h, t, t.dir[q]) \in J \cap States
      BY <3>2, <3>4, LoopKeeps
    <3> QED
      BY <3>5
  <2> HIDE DEF t, u, h
  <2> QED
    BY <2>2, <2>3, <2>4, <2>5
<1>2. DirPaths \subseteq T
  <2>1. \A q \in DirPaths :
           (\A n \in DirNames : Len(q) < MaxDepth => Append(q, n) \in T) => q \in T
    BY <1>1
  <2> HIDE DEF T
  <2> QED
    BY <2>1, DownInduction
<1> QED
  BY <1>2 DEF SyncDirectory

-----------------------------------------------------------------------------
\* What each handler does.

\* Nothing is stored.
Unchanged(s, t) == t.dir = s.dir /\ t.meta = s.meta /\ t.live = s.live

\* A directory that is not there is made in one that is.
Made(s, t, p) ==
    /\ t.out = "ok" /\ s.dir[Parent(p)] # NoDir /\ s.dir[p] = NoDir
    /\ \A q \in DirPaths :
          t.dir[q] = IF q = Parent(p) THEN Append(s.dir[q], DirEntry(Last(p)))
                     ELSE IF q = p THEN <<>> ELSE s.dir[q]

LEMMA MkDirIs ==
    ASSUME NEW s \in States, NEW p \in DirPaths, s.out = "ok", p # <<>>
    PROVE  LET t == MkDir(s, p)
           IN  /\ t \in States /\ SameFiles(s, t)
               /\ (t.out # "ok" /\ Unchanged(s, t)) \/ Made(s, t, p)
<1> DEFINE u == Parent(p)
           e == DirEntry(Last(p))
           at == GetInode(s, u)
           present == GetInode(at, p)
           made == SetInode(at, p, <<>>)
           added == AddEntryToDir(made, u, e)
           t == MkDir(s, p)
<1>1. /\ u \in DirPaths /\ u # p /\ e \in EntriesAt(u)
  <2>1. /\ u \in DirPaths /\ Last(p) \in DirNames /\ Len(u) = Len(p) - 1
        /\ Len(u) < MaxDepth /\ Len(p) \in Nat
    BY DirPathsEnd, PathsAre, LenProperties
  <2>2. u # p
    BY <2>1
  <2> QED
    BY <2>1, <2>2, EntriesFit
<1>2. /\ at \in States /\ SameFiles(s, at) /\ at.dir = s.dir
      /\ s.dir[u] # NoDir => at.out = "ok"
      /\ s.dir[u] = NoDir => at.out # "ok"
  BY <1>1, GetInodeIs
<1>3. t = IF at.out # "ok" THEN at
          ELSE IF present.out = "ok" THEN Fail(present)
          ELSE IF present.out = "panic" THEN present
          ELSE added
  BY DEF MkDir
<1> HIDE DEF at, t
<1>4. /\ present \in States /\ SameFiles(at, present) /\ present.dir = at.dir
      /\ s.dir[p] # NoDir => present.out = at.out
      /\ s.dir[p] = NoDir => present.out # "ok"
  BY <1>2, GetInodeIs
<1> HIDE DEF present
<1>5. /\ Fail(present) \in States /\ SameFiles(present, Fail(present))
      /\ SameDirs(present, Fail(present)) /\ Fail(present).out = "error"
  BY <1>4, FailIs
<1>6. /\ made \in States /\ SameFiles(at, made) /\ made.out = at.out
      /\ made.dir = [at.dir EXCEPT ![p] = <<>>]
  <2> DEFINE none == <<>>
  <2>1. none \in Seq(EntriesAt(p))
    BY EmptySeq
  <2>2. made = SetInode(at, p, none)
    OBVIOUS
  <2> HIDE DEF none, made
  <2>3. /\ made \in States /\ SameFiles(at, made) /\ made.out = at.out
        /\ made.dir = [at.dir EXCEPT ![p] = none]
    BY <1>2, <2>1, <2>2, SetInodeIs
  <2> QED
    BY <2>3 DEF none
<1>7. s.dir \in [DirPaths -> {NoDir} \cup Seq(Entries)]
  BY StateIs
<1>8. made.dir[u] = s.dir[u]
  BY <1>1, <1>2, <1>6, <1>7
<1> HIDE DEF made
<1>9. ASSUME at.out = "ok"
      PROVE  /\ added \in States /\ SameFiles(made, added) /\ added.out = "ok"
             /\ added.dir = [made.dir EXCEPT ![u] = Append(made.dir[u], e)]
  <2> HIDE DEF u, e
  <2>1. made \in States /\ made.out = "ok" /\ made.dir[u] # NoDir
    BY <1>2, <1>6, <1>8, <1>9
  <2>2. u \in DirPaths /\ e \in EntriesAt(u)
    BY <1>1
  <2>3. added \in States /\ SameFiles(made, added) /\ EntryAdded(made, added, u, e)
    BY <2>1, <2>2, AddEntryIs
  <2> QED
    BY <2>1, <2>3 DEF EntryAdded
<1> HIDE DEF added
<1>10. CASE at.out # "ok"
  BY <1>2, <1>3, <1>10 DEF t, SameFiles, Unchanged
<1>11. CASE at.out = "ok" /\ present.out = "ok"
  BY <1>2, <1>3, <1>4, <1>5, <1>11 DEF t, SameFiles, SameDirs, Unchanged
<1>12. CASE at.out = "ok" /\ present.out = "panic"
  BY <1>2, <1>3, <1>4, <1>12 DEF t, SameFiles, Unchanged
<1>13. CASE at.out = "ok" /\ present.out \notin {"ok", "panic"}
  <2>1. t = added /\ s.dir[p] = NoDir /\ s.dir[u] # NoDir
    BY <1>2, <1>3, <1>4, <1>13
  <2>2. SameFiles(s, added)
    BY <1>2, <1>6, <1>9, <1>13 DEF SameFiles
  <2>3. \A q \in DirPaths : added.dir[q] = IF q = u THEN Append(s.dir[q], e)
                                           ELSE IF q = p THEN <<>> ELSE s.dir[q]
    BY <1>1, <1>2, <1>6, <1>7, <1>8, <1>9, <1>13
  <2> QED
    BY <1>9, <1>13, <2>1, <2>2, <2>3 DEF t, Made
<1> QED
  BY <1>10, <1>11, <1>12, <1>13

\* A file is marked deleted and its entry taken out.
Gone(s, t, d, n) ==
    /\ t.meta = [s.meta EXCEPT ![Append(d, n)] = Deleted]
    /\ s \in Kept => s.meta[Append(d, n)] \in Blobs
    /\ s.dir[d] = NoDir => t.dir = s.dir
    /\ s.dir[d] # NoDir =>
          t.out = "ok" /\ t.dir = [s.dir EXCEPT ![d] = Without(s.dir[d], FileEntry(n))]

LEMMA DeleteFileIs ==
    ASSUME NEW s \in States, NEW d \in DirPaths, NEW n \in AllFileNames, s.out = "ok"
    PROVE  LET t == DeleteFile(s, d, n)
           IN  /\ t \in States /\ (s \in Kept => t \in Kept)
               /\ \/ t.out = "error" /\ Unchanged(s, t)
                  \/ Gone(s, t, d, n)
               /\ s \in Kept /\ s.meta[Append(d, n)] \in Blobs => Gone(s, t, d, n)
<1> DEFINE p == Append(d, n)
           r == RmFile(s, p)
           u == RemoveEntryFromDir(r, d, FileEntry(n))
           t == DeleteFile(s, d, n)
<1>1. p \in FilePaths
  BY FilePathsAre
<1>2. /\ r \in States /\ SameDirs(s, r)
      /\ \/ r.out = "ok" /\ r.meta = [s.meta EXCEPT ![p] = Deleted]
         \/ r.out = "error" /\ r.meta = s.meta /\ r.live = s.live
      /\ s \in Kept => r \in Kept
      /\ s \in Kept /\ s.meta[p] \in Blobs => r.out = "ok"
  BY <1>1, RmFileIs
<1>3. s \in Kept /\ r.out = "ok" => s.meta[p] \in Blobs
  <2>1. s \in Kept /\ s.meta[p] \notin Blobs => Seen(s, p) = NotCached
    BY <1>1, SeenIs
  <2>2. Seen(s, p) = NotCached => r = Fail(s)
    BY DEF RmFile
  <2>3. Fail(s).out = "error"
    BY FailIs
  <2> HIDE DEF r
  <2> QED
    BY <2>1, <2>2, <2>3
<1>4. t = IF r.out = "ok" THEN u ELSE r
  BY DEF DeleteFile, Then
<1> HIDE DEF r, t
<1>5. CASE r.out # "ok"
  BY <1>2, <1>4, <1>5 DEF SameDirs, t, Unchanged
<1>6. CASE r.out = "ok"
  <2>1. /\ u \in States /\ SameFiles(r, u)
        /\ r.dir[d] # NoDir => u.out = "ok" /\ u.dir = [r.dir EXCEPT ![d] = Without(r.dir[d], FileEntry(n))]
        /\ r.dir[d] = NoDir => u.out # "ok" /\ SameDirs(r, u)
    <3>1. u \in States /\ SameFiles(r, u) /\ EntryRemoved(r, u, d, FileEntry(n))
      BY <1>2, <1>6, RemoveEntryIs
    <3> HIDE DEF u
    <3> QED
      BY <3>1 DEF EntryRemoved
  <2>2. s \in Kept => u \in Kept
    BY <1>2, <2>1, SameFilesKeep
  <2> HIDE DEF u, p
  <2> QED
    BY <1>2, <1>3, <1>4, <1>6, <2>1, <2>2 DEF SameDirs, SameFiles, t, p, Gone
<1> QED
  BY <1>5, <1>6

\* A content gets another name and is listed there.
Renamed(s, t, d, n, e, m) ==
    LET p == Append(d, n)
        q == Append(e, m)
        listed == [s.dir EXCEPT ![e] = Append(s.dir[e], FileEntry(m))]
    IN  /\ p # q /\ s.meta[q] \notin Blobs /\ (s \in Kept => s.meta[p] \in Blobs)
        /\ \E b \in Blobs : \A r \in FilePaths :
              t.meta[r] = IF r = q THEN b ELSE IF r = p THEN Deleted ELSE s.meta[r]
        /\ s.dir[e] # NoDir /\ s.dir[d] = NoDir => t.dir = listed
        /\ s.dir[e] # NoDir /\ s.dir[d] # NoDir =>
              t.out = "ok" /\ t.dir = [listed EXCEPT ![d] = Without(listed[d], FileEntry(n))]

LEMMA RenameFileIs ==
    ASSUME NEW s \in States, NEW d \in DirPaths, NEW n \in AllFileNames,
           NEW e \in DirPaths, NEW m \in AllFileNames, s.out = "ok"
    PROVE  LET t == RenameFile(s, d, n, e, m)
           IN  /\ t \in States /\ (s \in Kept => t \in Kept)
               /\ (t.out = "error" /\ Unchanged(s, t)) \/ Renamed(s, t, d, n, e, m)
<1> DEFINE p == Append(d, n)
           q == Append(e, m)
           t == RenameFile(s, d, n, e, m)
           listed == [s.dir EXCEPT ![e] = Append(s.dir[e], FileEntry(m))]
<1>1. p \in FilePaths /\ q \in FilePaths /\ FileEntry(m) \in EntriesAt(e)
  BY FilePathsAre, EntriesFit
<1>2. CASE Seen(s, p) = NotCached \/ Seen(s, q) # NotCached
  <2> DEFINE c == Cache(s, p)
             v == Cache(c, q)
  <2>1. t = Fail(v)
    BY <1>2 DEF RenameFile
  <2>2. /\ c \in States /\ SameDirs(s, c) /\ c.meta = s.meta /\ c.live = s.live
        /\ s \in Kept => c \in Kept
    BY <1>1, CacheIs
  <2> HIDE DEF c
  <2>3. /\ v \in States /\ SameDirs(c, v) /\ v.meta = c.meta /\ v.live = c.live
        /\ c \in Kept => v \in Kept
    BY <1>1, <2>2, CacheIs
  <2> HIDE DEF v
  <2>4. /\ Fail(v) \in States /\ SameFiles(v, Fail(v)) /\ SameDirs(v, Fail(v))
        /\ Fail(v).out = "error"
    BY <2>3, FailIs
  <2>5. s \in Kept => Fail(v) \in Kept
    BY <2>2, <2>3, <2>4, SameFilesKeep
  <2> QED
    BY <2>1, <2>2, <2>3, <2>4, <2>5 DEF SameFiles, SameDirs, Unchanged
<1>3. CASE Seen(s, p) # NotCached /\ Seen(s, q) = NotCached
  <2> DEFINE r == RenameFromFileName(s, p, q)
             a == AddEntryToDir(r, e, FileEntry(m))
             u == RemoveEntryFromDir(a, d, FileEntry(n))
  <2>1. t = IF a.out = "ok" THEN u ELSE a
    BY <1>3 DEF RenameFile, Then
  <2>2. /\ p # q /\ Seen(s, p) \in Blobs /\ s.meta[q] \notin Blobs
        /\ s \in Kept => s.meta[p] \in Blobs
    BY <1>1, <1>3, SeenIs
  <2>3. /\ r \in States /\ SameDirs(s, r) /\ r.out = "ok" /\ r.live = s.live
        /\ \A f \in FilePaths : r.meta[f] = IF f = q THEN Seen(s, p)
                                            ELSE IF f = p THEN Deleted ELSE s.meta[f]
        /\ s \in Kept => r \in Kept
    <3> HIDE DEF p, q
    <3> QED
      BY <1>1, <1>3, <2>2, RenameFromIs
  <2> HIDE DEF t, r
  <2>4. /\ a \in States /\ SameFiles(r, a)
        /\ s.dir[e] # NoDir => a.out = "ok" /\ a.dir = listed
        /\ s.dir[e] = NoDir => a.out # "ok"
    <3> DEFINE f == FileEntry(m)
    <3>1. f \in EntriesAt(e) /\ a = AddEntryToDir(r, e, f)
      BY <1>1
    <3> HIDE DEF a, f
    <3>2. /\ a \in States /\ SameFiles(r, a)
          /\ r.dir[e] # NoDir => a.out = "ok" /\ a.dir = [r.dir EXCEPT ![e] = Append(r.dir[e], f)]
          /\ r.dir[e] = NoDir => a.out # "ok" /\ SameDirs(r, a)
      <4>1. r \in States /\ r.out = "ok"
        BY <2>3
      <4>2. a \in States /\ SameFiles(r, a) /\ EntryAdded(r, a, e, f)
        BY <3>1, <4>1, AddEntryIs
      <4> QED
        BY <4>2 DEF EntryAdded
    <3> QED
      BY <2>3, <3>2 DEF SameDirs, f
  <2> HIDE DEF a
  <2>5. ASSUME a.out = "ok"
        PROVE  /\ u \in States /\ SameFiles(a, u)
               /\ a.dir[d] # NoDir => u.out = "ok" /\ u.dir = [a.dir EXCEPT ![d] = Without(a.dir[d], FileEntry(n))]
               /\ a.dir[d] = NoDir => u.out # "ok" /\ u.dir = a.dir
    <3>1. u \in States /\ SameFiles(a, u) /\ EntryRemoved(a, u, d, FileEntry(n))
      BY <2>4, <2>5, RemoveEntryIs
    <3> HIDE DEF u
    <3> QED
      BY <3>1 DEF EntryRemoved, SameDirs
  <2> HIDE DEF u
  <2>6. t \in States /\ SameFiles(r, t)
    BY <2>1, <2>3, <2>4, <2>5 DEF SameFiles
  <2>7. s \in Kept => t \in Kept
    BY <2>3, <2>6, SameFilesKeep
  <2>8. \A f \in FilePaths : t.meta[f] = IF f = q THEN Seen(s, p)
                                         ELSE IF f = p THEN Deleted ELSE s.meta[f]
    BY <2>3, <2>6 DEF SameFiles
  <2>9. ASSUME s.dir[e] # NoDir
        PROVE  /\ s.dir[d] = NoDir => t.dir = listed
               /\ s.dir[d] # NoDir =>
                     t.out = "ok" /\ t.dir = [listed EXCEPT ![d] = Without(listed[d], FileEntry(n))]
    <3>1. s.dir \in [DirPaths -> {NoDir} \cup Seq(Entries)] /\ s.dir[e] \in Seq(Entries)
      BY <2>9, StateIs
    <3>2. Append(s.dir[e], FileEntry(m)) # NoDir
      <4>1. FileEntry(m) \in Entries
        BY <1>1, EntriesFit
      <4>2. Append(s.dir[e], FileEntry(m)) \in Seq(Entries)
        BY <3>1, <4>1, AppendProperties
      <4> QED
        BY <4>2, MarksAreNoValues
    <3>3. listed[d] = NoDir <=> s.dir[d] = NoDir
      BY <2>9, <3>1, <3>2
    <3> HIDE DEF listed
    <3>4. a.out = "ok" /\ a.dir = listed /\ t = u
      BY <2>1, <2>3, <2>4, <2>9
    <3> QED
      BY <2>5, <2>9, <3>3, <3>4
  <2> HIDE DEF listed, p, q
  <2> QED
    BY <2>2, <2>6, <2>7, <2>8, <2>9 DEF t, p, q, listed, Renamed
<1> QED
  BY <1>2, <1>3

\* Upload, and then the entry that lists it.
PutInto(s, p, b, d, e) == AddEntryToDir(Upload(s, p, b, FALSE), d, e)

LEMMA PutIs ==
    ASSUME NEW s \in States, NEW d \in DirPaths,
           NEW p \in FilePaths, NEW e \in EntriesAt(d), NEW b \in Blobs,
           s.out = "ok", s.dir[d] # NoDir
    PROVE  LET t == PutInto(s, p, b, d, e)
           IN  /\ t \in States /\ t.out = "ok"
               /\ t.dir = [s.dir EXCEPT ![d] = Append(s.dir[d], e)]
               /\ t.meta = [s.meta EXCEPT ![p] = b]
               /\ t.fileMap = [s.fileMap EXCEPT ![p] = b]
               /\ t.live = s.live \cup {b}
<1> DEFINE u == Upload(s, p, b, FALSE)
           t == AddEntryToDir(u, d, e)
<1>1. /\ u \in States /\ SameDirs(s, u) /\ u.out = s.out
      /\ u.meta = [s.meta EXCEPT ![p] = b]
      /\ u.fileMap = [s.fileMap EXCEPT ![p] = b]
      /\ u.live = s.live \cup {b}
  BY UploadIs
<1> HIDE DEF u
<1>2. u \in States /\ u.out = "ok" /\ u.dir = s.dir /\ u.dir[d] # NoDir
  BY <1>1 DEF SameDirs
<1>3. /\ t \in States /\ SameFiles(u, t) /\ t.out = "ok"
      /\ t.dir = [u.dir EXCEPT ![d] = Append(u.dir[d], e)]
  <2>1. u \in States /\ u.out = "ok" /\ u.dir[d] # NoDir
    BY <1>2
  <2>2. t \in States /\ SameFiles(u, t) /\ EntryAdded(u, t, d, e)
    BY <2>1, AddEntryIs
  <2> HIDE DEF t
  <2> QED
    BY <2>1, <2>2 DEF EntryAdded
<1> HIDE DEF t
<1>4. /\ t \in States /\ t.out = "ok"
      /\ t.dir = [s.dir EXCEPT ![d] = Append(s.dir[d], e)]
      /\ t.meta = [s.meta EXCEPT ![p] = b]
      /\ t.fileMap = [s.fileMap EXCEPT ![p] = b]
      /\ t.live = s.live \cup {b}
  BY <1>1, <1>2, <1>3 DEF SameFiles
<1> QED
  BY <1>4 DEF t, u, PutInto

\* A content is stored as the latest of its name: over what was there, or
\* beside it, under a backup's name.
Uploaded(s, t, d, n, b, overwrite, time) ==
    LET p == Append(d, n)
        backup == <<time, n>>
        q == Append(d, backup)
        there == Seen(s, p) # NotCached
        keep == there /\ ~overwrite
        listed == IF keep THEN Append(s.dir[d], FileEntry(backup)) ELSE s.dir[d]
        left == IF there THEN Without(listed, FileEntry(n)) ELSE listed
    IN  /\ t.out = "ok" /\ t.live = s.live \cup {b}
        /\ keep => s.meta[p] \in Blobs /\ s.meta[q] = Absent
        /\ \A r \in DirPaths :
              t.dir[r] = IF r = d THEN Append(left, FileEntry(n)) ELSE s.dir[r]
        /\ \A r \in FilePaths :
              /\ t.meta[r] = IF r = p THEN b
                             ELSE IF keep /\ r = q THEN s.meta[p] ELSE s.meta[r]
              /\ t.fileMap[r] = IF r = p THEN b
                                ELSE IF keep /\ r = q THEN s.meta[p] ELSE s.fileMap[r]

\* Upload refuses: what was there is out of its directory already, or is a
\* backup by now.
Stopped(s, t, d, n, overwrite, time) ==
    LET p == Append(d, n)
        backup == <<time, n>>
        q == Append(d, backup)
        there == Seen(s, p) # NotCached
        keep == there /\ ~overwrite
        listed == IF keep THEN Append(s.dir[d], FileEntry(backup)) ELSE s.dir[d]
        left == IF there THEN Without(listed, FileEntry(n)) ELSE listed
    IN  /\ t.out = "error" /\ t.live = s.live
        /\ keep => s.meta[p] \in Blobs /\ s.meta[q] = Absent
        /\ \A r \in DirPaths : t.dir[r] = IF r = d THEN left ELSE s.dir[r]
        /\ \A r \in FilePaths :
              /\ t.meta[r] = IF ~keep THEN s.meta[r]
                             ELSE IF r = q THEN s.meta[p]
                             ELSE IF r = p THEN Deleted ELSE s.meta[r]
              /\ t.fileMap[r] = IF keep /\ r = q THEN s.meta[p]
                                ELSE IF r = p THEN Seen(s, p) ELSE s.fileMap[r]

\* Upload of a content, when a backup's name never was, stores it or is refused
\* or, in a pod whose directories moved, does nothing.
LEMMA UploadFileIs ==
    ASSUME NEW s \in States, NEW d \in DirPaths,
           NEW n \in FileNames, NEW b \in Blobs, NEW overwrite \in BOOLEAN,
           NEW time \in BackupTimes, NEW refused \in BOOLEAN,
           s.out = "ok", s.dir[d] # NoDir, overwrite \/ s.meta[Append(d, <<time, n>>)] = Absent
    PROVE  LET t == UploadFile(s, d, n, b, overwrite, time, refused)
           IN  /\ t \in States
               /\ \/ t.out = "error" /\ Unchanged(s, t) /\ s \notin Kept
                  \/ ~refused /\ Uploaded(s, t, d, n, b, overwrite, time)
                  \/ refused /\ Stopped(s, t, d, n, overwrite, time)
<1> DEFINE p == Append(d, n)
           backup == <<time, n>>
           q == Append(d, backup)
           e == FileEntry(n)
           f == FileEntry(backup)
           there == Seen(s, p) # NotCached
           keep == there /\ ~overwrite
           listed == IF keep THEN Append(s.dir[d], f) ELSE s.dir[d]
           left == IF there THEN Without(listed, e) ELSE listed
           t == UploadFile(s, d, n, b, overwrite, time, refused)
           Put(v) == IF refused THEN Fail(v)
                     ELSE AddEntryToDir(Upload(v, p, b, FALSE), d, e)
           Stored(z) == /\ z.out = "ok" /\ z.live = s.live \cup {b}
                        /\ \A r \in DirPaths :
                              z.dir[r] = IF r = d THEN Append(left, e) ELSE s.dir[r]
                        /\ \A r \in FilePaths :
                              /\ z.meta[r] = IF r = p THEN b
                                             ELSE IF keep /\ r = q THEN s.meta[p] ELSE s.meta[r]
                              /\ z.fileMap[r] = IF r = p THEN b
                                                ELSE IF keep /\ r = q THEN s.meta[p]
                                                ELSE s.fileMap[r]
           Halted(z) == /\ z.out = "error" /\ z.live = s.live
                        /\ \A r \in DirPaths :
                              z.dir[r] = IF r = d THEN left ELSE s.dir[r]
                        /\ \A r \in FilePaths :
                              /\ z.meta[r] = IF ~keep THEN s.meta[r]
                                             ELSE IF r = q THEN s.meta[p]
                                             ELSE IF r = p THEN Deleted ELSE s.meta[r]
                              /\ z.fileMap[r] = IF keep /\ r = q THEN s.meta[p]
                                                ELSE IF r = p THEN Seen(s, p) ELSE s.fileMap[r]
           Ends(z) == (~refused /\ Stored(z)) \/ (refused /\ Halted(z))
<1>1. /\ n \in AllFileNames /\ backup \in AllFileNames
      /\ p \in FilePaths /\ q \in FilePaths
      /\ e \in EntriesAt(d) /\ f \in EntriesAt(d)
  <2>1. n \in AllFileNames /\ backup \in AllFileNames
    BY DEF AllFileNames
  <2> HIDE DEF backup
  <2> QED
    BY <2>1, FilePathsAre, EntriesFit
<1>2. /\ s.dir \in [DirPaths -> {NoDir} \cup Seq(Entries)] /\ s.dir[d] \in Seq(EntriesAt(d))
      /\ s.meta \in [FilePaths -> Blobs \cup {Absent, Deleted}]
      /\ s.fileMap \in [FilePaths -> Blobs \cup {NotCached}]
  BY StateIs
\* A state in which the entries are left that the new one is put after.
<1>3. ASSUME NEW v \in States, v.out = "ok", v.live = s.live,
             \A r \in DirPaths : v.dir[r] = IF r = d THEN left ELSE s.dir[r],
             \A r \in FilePaths :
                /\ v.meta[r] = IF ~keep THEN s.meta[r]
                               ELSE IF r = q THEN s.meta[p]
                               ELSE IF r = p THEN Deleted ELSE s.meta[r]
                /\ v.fileMap[r] = IF keep /\ r = q THEN s.meta[p]
                                  ELSE IF r = p THEN Seen(s, p) ELSE s.fileMap[r],
             left # NoDir, t = Put(v)
      PROVE  t \in States /\ Ends(t)
  <2> HIDE DEF left, keep, t, e, q
  <2>0. CASE refused
    <3>1. t = Fail(v)
      BY <1>3, <2>0
    <3>2. /\ Fail(v) \in States /\ SameFiles(v, Fail(v)) /\ SameDirs(v, Fail(v))
          /\ Fail(v).out = "error"
      BY <1>3, FailIs
    <3> HIDE DEF p, Put
    <3>3. Halted(t)
      BY <1>3, <3>1, <3>2 DEF SameFiles, SameDirs
    <3> QED
      BY <2>0, <3>1, <3>2, <3>3
  <2> SUFFICES ASSUME ~refused
               PROVE  t \in States /\ Stored(t)
    BY <2>0
  <2>1. v.dir[d] = left /\ v.dir[d] # NoDir
    BY <1>3
  <2>2. /\ v.dir \in [DirPaths -> {NoDir} \cup Seq(Entries)]
        /\ v.meta \in [FilePaths -> Blobs \cup {Absent, Deleted}]
        /\ v.fileMap \in [FilePaths -> Blobs \cup {NotCached}]
    BY <1>3, StateIs
  <2>3. /\ t \in States /\ t.out = "ok"
        /\ t.dir = [v.dir EXCEPT ![d] = Append(v.dir[d], e)]
        /\ t.meta = [v.meta EXCEPT ![p] = b]
        /\ t.fileMap = [v.fileMap EXCEPT ![p] = b]
        /\ t.live = v.live \cup {b}
    <3> DEFINE z == PutInto(v, p, b, d, e)
    <3>1. /\ p \in FilePaths /\ e \in EntriesAt(d) /\ v \in States /\ v.out = "ok"
          /\ v.dir[d] # NoDir /\ t = z
      BY <1>1, <1>3, <2>1 DEF PutInto
    <3> HIDE DEF p
    <3>2. /\ z \in States /\ z.out = "ok"
          /\ z.dir = [v.dir EXCEPT ![d] = Append(v.dir[d], e)]
          /\ z.meta = [v.meta EXCEPT ![p] = b]
          /\ z.fileMap = [v.fileMap EXCEPT ![p] = b]
          /\ z.live = v.live \cup {b}
      BY <3>1, PutIs
    <3> HIDE DEF z
    <3> QED
      BY <3>1, <3>2
  <2> HIDE DEF p
  <2> QED
    BY <1>3, <2>1, <2>2, <2>3
\* Upload and the entry after it, of a state without an error.
<1> DEFINE Rest(v) == Then(Then(v, LAMBDA x : Upload(x, p, b, refused)),
                           LAMBDA x : AddEntryToDir(x, d, e))
<1>P. \A v \in States : Rest(v) = IF v.out = "ok" THEN Put(v) ELSE v
  <2> SUFFICES ASSUME NEW v \in States
               PROVE  Rest(v) = IF v.out = "ok" THEN Put(v) ELSE v
    OBVIOUS
  <2> HIDE DEF p, e
  <2>1. CASE v.out # "ok"
    BY <2>1 DEF Then
  <2>2. CASE v.out = "ok" /\ refused
    <3>1. Fail(v).out = "error"
      BY FailIs
    <3>2. Then(v, LAMBDA x : Upload(x, p, b, refused)) = Fail(v)
      BY <2>2 DEF Then, Upload
    <3> QED
      BY <2>2, <3>1, <3>2 DEF Then
  <2>3. CASE v.out = "ok" /\ ~refused
    <3>1. Then(v, LAMBDA x : Upload(x, p, b, refused)) = Upload(v, p, b, FALSE)
      BY <2>3 DEF Then, Upload
    <3>2. Upload(v, p, b, FALSE).out = "ok"
      BY <1>1, <2>3, UploadIs DEF p
    <3> QED
      BY <2>3, <3>1, <3>2 DEF Then
  <2> QED
    BY <2>1, <2>2, <2>3
<1>4. CASE ~there
  <2>1. t = Put(s)
    <3>1. t = Rest(s)
      BY <1>4 DEF UploadFile
    <3> HIDE DEF Rest, t, Put
    <3> QED
      BY <1>P, <3>1
  <2>2. left = s.dir[d] /\ ~keep /\ left # NoDir /\ Seen(s, p) = s.fileMap[p]
    BY <1>4 DEF Seen
  <2> HIDE DEF left, keep, t, e, p, q, Stored, Halted, Ends, there, Put
  <2>3. t \in States /\ Ends(t)
    BY <1>3, <2>1, <2>2
  <2> QED
    BY <1>4, <2>2, <2>3 DEF left, keep, t, e, p, q, Stored, Halted, Ends, there, f, backup,
                            listed, Uploaded, Stopped
<1> DEFINE c == Cache(s, p)
<1>5. /\ c \in States /\ c.out = "ok" /\ c.dir = s.dir /\ c.meta = s.meta /\ c.live = s.live
      /\ c.fileMap = [s.fileMap EXCEPT ![p] = Seen(s, p)]
  <2> HIDE DEF p
  <2> QED
    BY <1>1, CacheIs DEF SameDirs
<1>6. CASE there /\ overwrite
  <2> DEFINE v == RemoveEntryFromDir(c, d, e)
  <2>1. t = Rest(v)
    BY <1>5, <1>6 DEF UploadFile, Then
  <2> HIDE DEF c, t, Rest
  <2>2. /\ v \in States /\ SameFiles(c, v) /\ v.out = "ok"
        /\ v.dir = [c.dir EXCEPT ![d] = Without(c.dir[d], e)]
    <3> HIDE DEF e
    <3>1. v \in States /\ SameFiles(c, v) /\ EntryRemoved(c, v, d, e)
      BY <1>5, RemoveEntryIs
    <3> HIDE DEF v
    <3> QED
      BY <1>5, <3>1 DEF EntryRemoved
  <2> HIDE DEF v, e
  <2>3. ~keep /\ left = Without(s.dir[d], e)
    BY <1>6
  <2>4. left # NoDir
    <3>1. Without(s.dir[d], e) \in Seq(Entries)
      <4>1. EntriesAt(d) \subseteq Entries /\ s.dir[d] \in Seq(Entries)
        BY <1>2, EntriesFit
      <4> QED
        BY <4>1, WithoutIs
    <3> QED
      BY <2>3, <3>1, MarksAreNoValues
  <2> HIDE DEF left, keep, p, q, Stored, Halted, Ends, there, Put
  <2>5. /\ v.live = s.live
        /\ \A r \in DirPaths : v.dir[r] = IF r = d THEN left ELSE s.dir[r]
        /\ \A r \in FilePaths :
              /\ v.meta[r] = s.meta[r]
              /\ v.fileMap[r] = IF r = p THEN Seen(s, p) ELSE s.fileMap[r]
    BY <1>1, <1>2, <1>5, <2>2, <2>3 DEF SameFiles
  <2>6. t \in States /\ Ends(t)
    <3>1. t = Put(v)
      BY <1>P, <2>1, <2>2
    <3> QED
      BY <1>3, <2>2, <2>3, <2>4, <2>5, <3>1
  <2> QED
    BY <1>6, <2>3, <2>6 DEF left, keep, t, e, p, q, Stored, Halted, Ends, there, f, backup,
                            listed, Uploaded, Stopped
<1>7. CASE keep
  <2> DEFINE k == BackupFromFileName(c, p, q)
             a == AddEntryToDir(k, d, f)
             v == RemoveEntryFromDir(a, d, e)
             kept == IF k.out = "ok" THEN a ELSE k
  <2>1. t = Rest(IF kept.out = "ok" THEN v ELSE kept)
    <3> DEFINE ready == Then(kept, LAMBDA x : RemoveEntryFromDir(x, d, e))
    <3>1. t = Rest(ready)
      BY <1>5, <1>7 DEF UploadFile, Then
    <3>2. ready = IF kept.out = "ok" THEN v ELSE kept
      BY DEF Then
    <3> HIDE DEF Rest, t, ready, v, kept
    <3> QED
      BY <3>1, <3>2
  <2> HIDE DEF c, t, Rest
  <2>2. p # q => c.meta[q] = s.meta[q]
    BY <1>5
  <2>3. s.meta[q] = Absent
    BY <1>7
  <2>4. /\ k \in States /\ SameDirs(c, k) /\ k.live = c.live
        /\ k.out \in {"ok", "error"}
        /\ c.meta[p] \in Blobs /\ c.meta[q] = Absent =>
             /\ k.out = "ok"
             /\ \A r \in FilePaths :
                  /\ k.meta[r] = IF r = q THEN c.meta[p]
                                 ELSE IF r = p THEN Deleted ELSE c.meta[r]
                  /\ k.fileMap[r] = IF r = q THEN c.meta[p] ELSE c.fileMap[r]
        /\ c.meta[p] \notin Blobs => k = Fail(c)
    <3> HIDE DEF p, q
    <3> QED
      BY <1>1, <1>5, BackupIs
  <2> HIDE DEF k
  <2>5. CASE s.meta[p] \notin Blobs
    <3>1. k = Fail(c)
      BY <1>5, <2>4, <2>5
    <3>2. /\ Fail(c) \in States /\ SameFiles(c, Fail(c)) /\ SameDirs(c, Fail(c))
          /\ Fail(c).out = "error"
      BY <1>5, FailIs
    <3>3. t = k
      <4>1. kept = k
        BY <3>1, <3>2
      <4> HIDE DEF a, v, Put
      <4> QED
        BY <1>P, <2>1, <3>1, <3>2, <4>1
    <3>4. s \notin Kept
      <4> HIDE DEF p
      <4> QED
        BY <1>1, <1>7, <2>5, SeenIs
    <3>5. /\ t \in States /\ t.out = "error" /\ t.dir = s.dir /\ t.meta = s.meta
          /\ t.live = s.live
      BY <1>5, <3>1, <3>2, <3>3 DEF SameFiles, SameDirs
    <3> QED
      BY <3>4, <3>5 DEF t, Unchanged
  <2>6. CASE s.meta[p] \in Blobs
    <3>1. /\ k.out = "ok" /\ k.dir = s.dir
          /\ \A r \in FilePaths :
                /\ k.meta[r] = IF r = q THEN s.meta[p]
                               ELSE IF r = p THEN Deleted ELSE s.meta[r]
                /\ k.fileMap[r] = IF r = q THEN s.meta[p]
                                  ELSE IF r = p THEN Seen(s, p) ELSE s.fileMap[r]
      <4> HIDE DEF p, q
      <4> QED
        BY <1>1, <1>2, <1>5, <2>3, <2>4, <2>6 DEF SameDirs
    <3>2. /\ a \in States /\ SameFiles(k, a) /\ a.out = "ok"
          /\ a.dir = [k.dir EXCEPT ![d] = Append(k.dir[d], f)]
      <4>1. f \in EntriesAt(d) /\ k \in States /\ k.out = "ok" /\ k.dir[d] # NoDir
        BY <1>1, <2>4, <3>1
      <4> HIDE DEF f
      <4>2. a \in States /\ SameFiles(k, a) /\ EntryAdded(k, a, d, f)
        BY <4>1, AddEntryIs
      <4> HIDE DEF a
      <4> QED
        BY <4>1, <4>2 DEF EntryAdded
    <3>3. t = Rest(v)
      <4>1. kept = a
        BY <3>1
      <4> HIDE DEF a, v
      <4> QED
        BY <2>1, <3>2, <4>1
    <3> HIDE DEF a
    <3>4. a.dir[d] = listed /\ listed \in Seq(Entries) /\ listed # NoDir
      <4>1. f \in Entries /\ s.dir[d] \in Seq(Entries)
        BY <1>1, <1>2, EntriesFit
      <4>2. Append(s.dir[d], f) \in Seq(Entries)
        <5> HIDE DEF f
        <5> QED
          BY <4>1, AppendProperties
      <4>3. listed = Append(s.dir[d], f)
        BY <1>7
      <4> HIDE DEF listed, f
      <4> QED
        BY <1>2, <3>1, <3>2, <4>2, <4>3, MarksAreNoValues
    <3>5. /\ v \in States /\ SameFiles(a, v) /\ v.out = "ok"
          /\ v.dir = [a.dir EXCEPT ![d] = Without(a.dir[d], e)]
      <4>1. a \in States /\ a.out = "ok" /\ a.dir[d] # NoDir
        BY <3>2, <3>4
      <4> HIDE DEF e, listed
      <4>2. v \in States /\ SameFiles(a, v) /\ EntryRemoved(a, v, d, e)
        BY <4>1, RemoveEntryIs
      <4> HIDE DEF v
      <4> QED
        BY <4>1, <4>2 DEF EntryRemoved
    <3> HIDE DEF v
    <3>6. left = Without(listed, e) /\ keep
      BY <1>7
    <3> HIDE DEF listed, e, keep, left, p, q, f, Stored, Halted, Ends, Put
    <3>7. left # NoDir
      <4>1. Without(listed, e) \in Seq(Entries)
        BY <3>4, WithoutIs
      <4> QED
        BY <3>6, <4>1, MarksAreNoValues
    <3>8. /\ v.live = s.live
          /\ \A r \in DirPaths : v.dir[r] = IF r = d THEN left ELSE s.dir[r]
          /\ \A r \in FilePaths :
                /\ v.meta[r] = IF r = q THEN s.meta[p]
                               ELSE IF r = p THEN Deleted ELSE s.meta[r]
                /\ v.fileMap[r] = IF r = q THEN s.meta[p]
                                  ELSE IF r = p THEN Seen(s, p) ELSE s.fileMap[r]
      BY <1>2, <1>5, <2>4, <3>1, <3>2, <3>4, <3>5, <3>6 DEF SameFiles
    <3>9. t \in States /\ Ends(t)
      <4>1. t = Put(v)
        BY <1>P, <3>3, <3>5
      <4> QED
        BY <1>3, <3>5, <3>6, <3>7, <3>8, <4>1
    <3> QED
      BY <2>3, <2>6, <3>6, <3>9 DEF left, keep, t, e, p, q, Stored, Halted, Ends, there, f,
                                    backup, listed, Uploaded, Stopped
  <2> QED
    BY <2>5, <2>6
<1> QED
  BY <1>4, <1>6, <1>7

\* RmDir deletes only files, each with its own content.
LEMMA RmDirKeeps ==
    ASSUME NEW p \in DirPaths, NEW s \in Kept
    PROVE  RmDir(s, p) \in Kept
<1> DEFINE T == {q \in DirPaths : \A z \in Kept : rmDir[q][z] \in Kept}
<1>0. Kept \subseteq States
  BY DEF Kept
<1>1. ASSUME NEW q \in DirPaths,
             \A n \in DirNames : Len(q) < MaxDepth => Append(q, n) \in T,
             NEW z \in Kept
      PROVE  rmDir[q][z] \in Kept
  <2> DEFINE t == GetInode(z, q)
             h == rmEntries(rmDir, q)
             u == Each(h, t, t.dir[q])
  <2>1. z \in States /\ rmDir[q][z] = RmDirStep(rmDir, q)[z]
    BY <1>0, RmDirUnfolds
  <2>2. /\ t.out # "ok" => rmDir[q][z] = t
        /\ t.out = "ok" =>
              /\ Loop(EntriesAt(q), States, h, t, t.dir[q])
              /\ u \in States
              /\ rmDir[q][z] = IF u.out = "ok" THEN RemoveInode(u, q) ELSE u
    BY <2>1, RmDirStepIs, RmDirUnfolds
  <2>3. t \in Kept
    <3>1. t \in States /\ SameFiles(z, t)
      BY <2>1, GetInodeIs
    <3> HIDE DEF t
    <3> QED
      BY <3>1, SameFilesKeep
  <2>4. ASSUME t.out = "ok"
        PROVE  u \in Kept
    <3>1. ASSUME NEW e \in EntriesAt(q), NEW x \in Kept \cap States
          PROVE  h[e][x] \in Kept
      <4>1. h[e][x] = IF x.out # "ok" THEN x
                      ELSE IF e[1] = "F" THEN rmFile(x, q, e)
                      ELSE rmDir[Append(q, e[2])][x]
        BY RmEntriesAre, RmDirUnfolds
      <4> HIDE DEF h
      <4>2. CASE x.out = "ok" /\ e[1] = "F"
        <5> DEFINE f == Append(q, e[2])
                   r == RmFile(x, f)
                   v == RemoveEntryFromDir(r, q, e)
        <5>1. f \in FilePaths
          BY <4>2, EntriesAre
        <5>2. r \in Kept /\ r \in States
          <6> HIDE DEF f
          <6> QED
            BY <4>2, <5>1, RmFileIs
        <5>3. rmFile(x, q, e) = IF r.out = "ok" THEN v ELSE r
          BY DEF rmFile, Then
        <5> HIDE DEF r
        <5>4. r.out = "ok" => v \in States /\ SameFiles(r, v)
          BY <5>2, RemoveEntryIs
        <5> HIDE DEF v
        <5>5. r.out = "ok" => v \in Kept
          BY <5>2, <5>4, SameFilesKeep
        <5> QED
          BY <4>1, <4>2, <5>2, <5>3, <5>5
      <4>3. CASE e[1] # "F"
        <5>1. e[2] \in DirNames /\ Len(q) < MaxDepth
          BY <4>3, EntriesAre
        <5>2. Append(q, e[2]) \in T
          BY <1>1, <5>1
        <5> QED
          BY <4>1, <4>3, <5>2
      <4>4. CASE x.out # "ok"
        BY <4>1, <4>4
      <4> QED
        BY <4>2, <4>3, <4>4
    <3>2. Loop(EntriesAt(q), States, h, t, t.dir[q])
      BY <2>2, <2>4
    <3>3. \A i \in 1..Len(t.dir[q]) : t.dir[q][i] \in EntriesAt(q)
      <4>1. t.dir[q] \in Seq(EntriesAt(q))
        BY <3>2 DEF Loop
      <4> QED
        BY <4>1, ElementOfSeq
    <3> HIDE DEF t, h
    <3>4. \A i \in 1..Len(t.dir[q]) : \A x \in Kept \cap States : h[t.dir[q][i]][x] \in Kept
      BY <3>1, <3>3
    <3>5. Each(h, t, t.dir[q]) \in Kept \cap States
      BY <2>3, <3>2, <3>4, LoopKeeps
    <3> QED
      BY <3>5
  <2> HIDE DEF t, u, h
  <2>5. t.out = "ok" => RemoveInode(u, q) \in Kept
    <3>1. t.out = "ok" => RemoveInode(u, q) \in States /\ SameFiles(u, RemoveInode(u, q))
      BY <2>2, RemoveInodeKeeps
    <3> QED
      BY <2>4, <3>1, SameFilesKeep
  <2> QED
    BY <2>2, <2>3, <2>4, <2>5
<1>2. DirPaths \subseteq T
  <2>1. \A q \in DirPaths :
           (\A n \in DirNames : Len(q) < MaxDepth => Append(q, n) \in T) => q \in T
    BY <1>1
  <2> HIDE DEF T
  <2> QED
    BY <2>1, DownInduction
<1> QED
  BY <1>2 DEF RmDir

\* SyncDirectory caches what the feeds say.
LEMMA SyncDirectoryKeeps ==
    ASSUME NEW p \in DirPaths, NEW s \in Kept
    PROVE  SyncDirectory(s, p) \in Kept
<1>0. Kept \subseteq States
  BY DEF Kept
<1>1. ASSUME NEW z \in Kept, NEW q \in DirPaths
      PROVE  GetInode(z, q) \in Kept
  <2>1. GetInode(z, q) \in States /\ SameFiles(z, GetInode(z, q))
    BY <1>0, GetInodeIs
  <2> QED
    BY <2>1, SameFilesKeep
<1>2. ASSUME NEW z \in Kept, NEW q \in FilePaths
      PROVE  loadFileMeta(z, q) \in Kept
  BY <1>0, LoadFileMetaIs
<1>3. SyncKeeps(Kept)
  BY <1>0, <1>1, <1>2 DEF SyncKeeps
<1> QED
  BY <1>3, SyncIs

\* Upload of a content that nothing names keeps the others.
LEMMA UploadKeeps ==
    ASSUME NEW s \in Kept, NEW d \in DirPaths, NEW n \in FileNames, NEW b \in Blobs,
           NEW overwrite \in BOOLEAN, NEW time \in BackupTimes, NEW refused \in BOOLEAN,
           s.out = "ok", s.dir[d] # NoDir,
           overwrite \/ s.meta[Append(d, <<time, n>>)] = Absent,
           refused => overwrite \/ s.meta[Append(d, n)] \notin Blobs,
           \A r \in FilePaths : b # s.meta[r]
    PROVE  UploadFile(s, d, n, b, overwrite, time, refused) \in Kept
<1> DEFINE p == Append(d, n)
           q == Append(d, <<time, n>>)
           t == UploadFile(s, d, n, b, overwrite, time, refused)
           keep == Seen(s, p) # NotCached /\ ~overwrite
<1>0. s \in States /\ Fresh(s) /\ Owned(s)
  BY DEF Kept
<1>1. p \in FilePaths /\ q \in FilePaths
  <2>1. n \in AllFileNames /\ <<time, n>> \in AllFileNames
    BY DEF AllFileNames
  <2> DEFINE backup == <<time, n>>
  <2> HIDE DEF backup
  <2>2. backup \in AllFileNames
    BY <2>1 DEF backup
  <2>3. Append(d, backup) \in FilePaths /\ p \in FilePaths
    BY <2>1, <2>2, FilePathsAre
  <2> QED
    BY <2>3 DEF backup
<1>r. CASE refused
  <2>1. t \in States /\ Stopped(s, t, d, n, overwrite, time)
    BY <1>0, <1>r, UploadFileIs
  <2> HIDE DEF t
  <2>2. /\ t.live = s.live /\ ~keep
        /\ \A r \in FilePaths :
              /\ t.meta[r] = s.meta[r]
              /\ t.fileMap[r] = IF r = p THEN Seen(s, p) ELSE s.fileMap[r]
    <3>1. keep => s.meta[p] \in Blobs
      BY <2>1 DEF Stopped
    <3>2. ~keep
      BY <1>r, <3>1
    <3> QED
      BY <2>1, <3>2 DEF Stopped
  <2>3. Seen(s, p) = NotCached \/ Seen(s, p) = s.meta[p]
    BY <1>0, <1>1 DEF Seen, Fresh
  <2> HIDE DEF p, q, keep
  <2>4. Fresh(t) /\ Owned(t)
    BY <1>0, <1>1, <2>2, <2>3 DEF Fresh, Owned
  <2> QED
    BY <2>1, <2>4 DEF Kept, t
<1> SUFFICES ASSUME ~refused
             PROVE  t \in Kept
  BY <1>r
<1>2. /\ t \in States /\ t.out = "ok" /\ t.live = s.live \cup {b}
      /\ keep => s.meta[p] \in Blobs /\ s.meta[q] = Absent
      /\ \A r \in FilePaths :
            /\ t.meta[r] = IF r = p THEN b
                           ELSE IF keep /\ r = q THEN s.meta[p] ELSE s.meta[r]
            /\ t.fileMap[r] = IF r = p THEN b
                              ELSE IF keep /\ r = q THEN s.meta[p] ELSE s.fileMap[r]
  <2>1. t \in States /\ Uploaded(s, t, d, n, b, overwrite, time)
    BY <1>0, UploadFileIs DEF t
  <2> HIDE DEF t
  <2> QED
    BY <2>1 DEF Uploaded
<1> HIDE DEF t, keep, p, q
<1>3. Fresh(t)
  BY <1>0, <1>2 DEF Fresh
<1>4. Absent \notin Blobs
  BY MarksAreNoValues
<1> DEFINE from(r) == IF keep /\ r = q THEN p ELSE r
<1>5. ASSUME NEW r \in FilePaths, t.meta[r] \in Blobs
      PROVE  \/ r = p /\ t.meta[r] = b
             \/ /\ r # p /\ from(r) \in FilePaths /\ t.meta[r] = s.meta[from(r)]
                /\ t.meta[r] # b
  BY <1>1, <1>2, <1>5
<1>6. ASSUME NEW r \in FilePaths, NEW u \in FilePaths,
             t.meta[r] \in Blobs, t.meta[r] = t.meta[u]
      PROVE  r = u
  <2>1. CASE r = p \/ u = p
    BY <1>5, <1>6, <2>1
  <2>2. CASE r # p /\ u # p
    <3>1. /\ from(r) \in FilePaths /\ t.meta[r] = s.meta[from(r)]
          /\ from(u) \in FilePaths /\ t.meta[u] = s.meta[from(u)]
      BY <1>5, <1>6, <2>2
    <3>2. from(r) = from(u)
      <4> HIDE DEF from
      <4> QED
        BY <1>0, <1>6, <3>1 DEF Owned
    <3> QED
      BY <2>2, <3>2
  <2> QED
    BY <2>1, <2>2
<1>7. \A r \in FilePaths : t.meta[r] \in Blobs => t.meta[r] \in t.live
  BY <1>0, <1>1, <1>2, <1>5 DEF Owned
<1>8. Owned(t)
  BY <1>6, <1>7 DEF Owned
<1> QED
  BY <1>2, <1>3, <1>8 DEF Kept, t

-----------------------------------------------------------------------------
\* Until a directory is moved.

LEMMA BeginIs ==
    ASSUME fs \in States
    PROVE  /\ Begin \in States /\ Begin.out = "ok"
           /\ SameFiles(fs, Begin) /\ SameDirs(fs, Begin)
<1>1. Begin = [dir |-> fs.dir, meta |-> fs.meta, live |-> fs.live, dirMap |-> fs.dirMap,
               fileMap |-> fs.fileMap, out |-> "ok"]
  BY StateIs DEF Begin
<1>2. Begin \in States
  BY <1>1, StateIs, StateOf
<1> QED
  BY <1>1, <1>2 DEF SameFiles, SameDirs

\* A pod that is closed and opened again has empty caches to fill.
Emptied == [Begin EXCEPT !.dirMap = {}, !.fileMap = [p \in FilePaths |-> NotCached]]

LEMMA EmptiedIs ==
    ASSUME fs \in States
    PROVE  /\ Emptied \in States /\ Emptied.out = "ok" /\ Unchanged(fs, Emptied)
           /\ fs \in Kept => Emptied \in Kept
<1> DEFINE none == [p \in FilePaths |-> NotCached]
<1>1. Begin = [dir |-> fs.dir, meta |-> fs.meta, live |-> fs.live, dirMap |-> fs.dirMap,
               fileMap |-> fs.fileMap, out |-> "ok"]
  BY StateIs DEF Begin
<1>2. none \in [FilePaths -> Blobs \cup {NotCached}] /\ \A p \in FilePaths : none[p] = NotCached
  OBVIOUS
<1>3. Emptied = [dir |-> fs.dir, meta |-> fs.meta, live |-> fs.live, dirMap |-> {},
                 fileMap |-> none, out |-> "ok"]
  <2>1. Emptied = [Begin EXCEPT !.dirMap = {}, !.fileMap = none]
    BY DEF Emptied
  <2> HIDE DEF none
  <2> QED
    BY <1>1, <2>1
<1> HIDE DEF none
<1>4. Emptied \in States
  BY <1>2, <1>3, StateIs, StateOf
<1>5. /\ Emptied.dir = fs.dir /\ Emptied.meta = fs.meta /\ Emptied.live = fs.live
      /\ Emptied.fileMap = none /\ Emptied.out = "ok"
  BY <1>3
<1>6. fs \in Kept => Emptied \in Kept
  BY <1>2, <1>4, <1>5 DEF Kept, Fresh, Owned
<1> QED
  BY <1>4, <1>5, <1>6 DEF Unchanged

LEMMA InitKept ==
    ASSUME Init
    PROVE  fs \in Kept
<1> DEFINE d == [p \in DirPaths |-> IF p = <<>> THEN <<>> ELSE NoDir]
           m == [p \in FilePaths |-> Absent]
           f == [p \in FilePaths |-> NotCached]
<1>1. fs = [dir |-> d, meta |-> m, live |-> {}, dirMap |-> {<<>>}, fileMap |-> f, out |-> "ok"]
  BY DEF Init
<1>2. \A p \in DirPaths : d[p] = NoDir \/ (p = <<>> /\ d[p] = <<>>)
  OBVIOUS
<1>3. /\ d \in [DirPaths -> {NoDir} \cup Seq(Entries)]
      /\ \A p \in DirPaths : d[p] # NoDir => d[p] \in Seq(EntriesAt(p))
  <2>1. <<>> \in Seq(Entries) /\ \A p \in DirPaths : <<>> \in Seq(EntriesAt(p))
    BY EmptySeq
  <2> QED
    BY <1>2, <2>1
<1>4. <<>> \in DirPaths /\ d[<<>>] # NoDir
  <2>1. <<>> \in DirPaths /\ <<>> \in Seq(Entries)
    BY PathsAre, EmptySeq
  <2>2. d[<<>>] = <<>>
    BY <2>1
  <2> QED
    BY <2>1, <2>2, MarksAreNoValues
<1>5. /\ m \in [FilePaths -> Blobs \cup {Absent, Deleted}] /\ \A p \in FilePaths : m[p] = Absent
      /\ f \in [FilePaths -> Blobs \cup {NotCached}] /\ \A p \in FilePaths : f[p] = NotCached
  OBVIOUS
<1> HIDE DEF d, m, f
<1>6. fs \in States
  <2>1. {<<>>} \in SUBSET DirPaths /\ \A p \in {<<>>} : d[p] # NoDir
    BY <1>4
  <2> DEFINE c == {<<>>}
  <2> HIDE DEF c
  <2>2. c \in SUBSET DirPaths /\ \A p \in c : d[p] # NoDir
    BY <2>1 DEF c
  <2>3. fs = [dir |-> d, meta |-> m, live |-> {}, dirMap |-> c, fileMap |-> f, out |-> "ok"]
    BY <1>1 DEF c
  <2> QED
    BY <1>3, <1>5, <2>2, <2>3, StateOf
<1>7. fs.meta = m /\ fs.fileMap = f
  BY <1>1
<1>8. Fresh(fs) /\ Owned(fs)
  BY <1>5, <1>7, MarksAreNoValues DEF Fresh, Owned
<1> QED
  BY <1>6, <1>8 DEF Kept

\* What BlobsLive and FileMapFresh rest on.
KeptInv == past \cap {"moved", "backup"} = {} => fs \in Kept

LEMMA HistoryGrows ==
    ASSUME Next
    PROVE  past \subseteq past'
<1>1. ASSUME NEW causes, NEW strays, Leaves(causes, strays)
      PROVE  past \subseteq past'
  BY <1>1 DEF Leaves
<1>2. CASE MkDirAction
  BY <1>1, <1>2 DEF MkDirAction
<1>3. CASE RmDirAction
  BY <1>1, <1>3 DEF RmDirAction
<1>4. CASE UploadAction
  BY <1>1, <1>4 DEF UploadAction
<1>5. CASE DeleteAction
  BY <1>1, <1>5 DEF DeleteAction
<1>6. CASE RenameFileAction
  BY <1>1, <1>6 DEF RenameFileAction
<1>7. CASE RenameDirAction
  BY <1>1, <1>7 DEF RenameDirAction
<1>8. CASE Reopen
  BY <1>1, <1>8 DEF Reopen
<1> QED
  BY <1>2, <1>3, <1>4, <1>5, <1>6, <1>7, <1>8 DEF Next

LEMMA KeptStep ==
    ASSUME CarefulCallers, ~SameSecond, KeptInv, [Next]_vars
    PROVE  KeptInv'
<1> SUFFICES ASSUME past' \cap {"moved", "backup"} = {}
             PROVE  fs' \in Kept
  BY DEF KeptInv
<1>1. CASE UNCHANGED vars
  BY <1>1 DEF vars, KeptInv
<1>2. CASE Next /\ ~RenameDirAction
  <2>1. fs \in Kept /\ fs \in States
    <3>1. past \subseteq past'
      BY <1>2, HistoryGrows
    <3> QED
      BY <3>1 DEF KeptInv, Kept
  <2>2. Begin \in Kept /\ Begin \in States /\ Begin.out = "ok"
        /\ Begin.dir = fs.dir /\ Begin.meta = fs.meta
    <3>1. /\ Begin \in States /\ Begin.out = "ok"
          /\ SameFiles(fs, Begin) /\ SameDirs(fs, Begin)
      BY <2>1, BeginIs
    <3>2. Begin \in Kept
      BY <2>1, <3>1, SameFilesKeep
    <3> QED
      BY <3>1, <3>2 DEF SameFiles, SameDirs
  <2>3. CASE MkDirAction
    <3>1. PICK p \in DirPaths \ {<<>>} : fs' = MkDir(Begin, p)
      BY <2>3 DEF MkDirAction
    <3>2. p \in DirPaths /\ p # <<>>
      OBVIOUS
    <3>3. fs' \in States /\ SameFiles(Begin, fs')
      BY <2>2, <3>1, <3>2, MkDirIs
    <3> QED
      BY <2>2, <3>3, SameFilesKeep
  <2>4. CASE RmDirAction
    BY <2>2, <2>4, RmDirKeeps DEF RmDirAction
  <2>5. CASE UploadAction
    <3>1. PICK d \in DirPaths, n \in FileNames, b \in FreshBlobs,
               overwrite \in BOOLEAN, refused \in BOOLEAN, time \in BackupTimes :
             /\ CarefulCallers => IsDir(d)
             /\ SameSecond \/ overwrite \/ fs.meta[Append(d, <<time, n>>)] = Absent
             /\ fs' = UploadFile(Begin, d, n, b, overwrite, time, refused)
             /\ Leaves(When("backup", refused /\ ~overwrite /\ HasMeta(fs, Append(d, n))),
                       IF refused /\ overwrite THEN {<<d, FileEntry(n)>>} ELSE {})
      BY <2>5 DEF UploadAction
    <3>2. /\ Begin.dir[d] # NoDir
          /\ overwrite \/ Begin.meta[Append(d, <<time, n>>)] = Absent
      BY <2>2, <3>1 DEF IsDir
    <3>5. refused => overwrite \/ Begin.meta[Append(d, n)] \notin Blobs
      <4>1. Append(d, n) \in FilePaths
        BY FilePathsAre DEF AllFileNames
      <4>2. ~(refused /\ ~overwrite /\ HasMeta(fs, Append(d, n)))
        BY <3>1 DEF Leaves, When
      <4> QED
        BY <2>2, <4>1, <4>2 DEF HasMeta
    <3>3. b \in Blobs /\ \A r \in FilePaths : b # Begin.meta[r]
      BY <2>2 DEF FreshBlobs
    <3>4. UploadFile(Begin, d, n, b, overwrite, time, refused) \in Kept
      BY <2>2, <3>2, <3>3, <3>5, UploadKeeps
    <3> QED
      BY <3>1, <3>4
  <2>6. CASE DeleteAction
    <3>1. PICK d \in DirPaths, n \in AllFileNames : fs' = DeleteFile(Begin, d, n)
      BY <2>6 DEF DeleteAction
    <3> QED
      BY <2>2, <3>1, DeleteFileIs
  <2>7. CASE RenameFileAction
    <3>1. PICK d \in DirPaths, e \in DirPaths, n \in AllFileNames, m \in FileNames :
             fs' = RenameFile(Begin, d, n, e, m)
      BY <2>7 DEF RenameFileAction
    <3>2. m \in AllFileNames
      BY DEF AllFileNames
    <3> QED
      BY <2>2, <3>1, <3>2, RenameFileIs
  <2>8. CASE Reopen
    <3>1. fs' = SyncDirectory(Emptied, <<>>)
      BY <2>8 DEF Reopen, Emptied
    <3>2. Emptied \in Kept /\ <<>> \in DirPaths
      BY <2>1, EmptiedIs, PathsAre
    <3> QED
      BY <3>1, <3>2, SyncDirectoryKeeps
  <2> QED
    BY <1>2, <2>3, <2>4, <2>5, <2>6, <2>7, <2>8 DEF Next
<1>3. CASE RenameDirAction
  <2>1. "moved" \in past'
    BY <1>3 DEF RenameDirAction, Leaves
  <2> QED
    BY <2>1
<1> QED
  BY <1>1, <1>2, <1>3

LEMMA KeptIsKept ==
    ASSUME CarefulCallers, ~SameSecond
    PROVE  Spec => []KeptInv
<1>1. Init => KeptInv
  BY InitKept DEF KeptInv
<1>2. KeptInv /\ [Next]_vars => KeptInv'
  BY KeptStep
<1> QED
  BY <1>1, <1>2, PTL DEF Spec

\* A hit of the fileMap answers for the feed it saves reading: whatever the sizes
\* of the tree, when uploads and moves name directories that exist and no file
\* is backed up twice within a second.
THEOREM FileMapIsFresh ==
    ASSUME CarefulCallers, ~SameSecond
    PROVE  Spec => []FileMapFresh
<1>1. KeptInv => FileMapFresh
  BY DEF KeptInv, Kept, Fresh, FileMapFresh
<1>2. Spec => []KeptInv
  BY KeptIsKept
<1> QED
  BY <1>1, <1>2, PTL

\* Until a directory is moved or a backup left half-way, no delete, rename or
\* overwriting upload, refused ones included, loses the content of another file:
\* contents have one owner each, and are there.
THEOREM BlobsAreLive ==
    ASSUME CarefulCallers, ~SameSecond
    PROVE  Spec => []BlobsLive
<1>1. KeptInv => BlobsLive
  BY DEF KeptInv, Kept, Owned, BlobsLive, HasMeta
<1>2. Spec => []KeptInv
  BY KeptIsKept
<1> QED
  BY <1>1, <1>2, PTL

-----------------------------------------------------------------------------
\* A tree in which what is listed is what there is.

\* A list of a set: each member once.
Exact(entries, T) ==
    entries \in Seq(Entries) /\ Range(entries) = T /\ \A e : Once(entries, e)

LEMMA ExactIs ==
    /\ Exact(<<>>, {})
    /\ \A entries, T : \A e \in Entries :
          Exact(entries, T) /\ e \notin T => Exact(Append(entries, e), T \cup {e})
    /\ \A entries, T, e : Exact(entries, T) => Exact(Without(entries, e), T \ {e})
    /\ \A entries, T : Exact(entries, T) => entries # NoDir
<1>1. Exact(<<>>, {})
  BY NoEntries, EmptySeq DEF Exact
<1>2. ASSUME NEW entries, NEW T, NEW e \in Entries, Exact(entries, T), e \notin T
      PROVE  Exact(Append(entries, e), T \cup {e})
  <2>1. entries \in Seq(Entries) /\ Range(entries) = T /\ \A f : Once(entries, f)
    BY <1>2 DEF Exact
  <2>2. /\ Append(entries, e) \in Seq(Entries) /\ Range(Append(entries, e)) = Range(entries) \cup {e}
        /\ \A f : f # e /\ Once(entries, f) => Once(Append(entries, e), f)
        /\ e \notin Range(entries) => Once(Append(entries, e), e)
    BY <2>1, WithOneMore
  <2>3. \A f : Once(Append(entries, e), f)
    BY <1>2, <2>1, <2>2
  <2> QED
    BY <2>1, <2>2, <2>3 DEF Exact
<1>3. ASSUME NEW entries, NEW T, NEW e, Exact(entries, T)
      PROVE  Exact(Without(entries, e), T \ {e})
  <2>1. entries \in Seq(Entries) /\ Range(entries) = T /\ \A f : Once(entries, f)
    BY <1>3 DEF Exact
  <2>2. /\ Without(entries, e) \in Seq(Entries)
        /\ Range(Without(entries, e)) = Range(entries) \ {e}
        /\ \A f : Once(entries, f) => Once(Without(entries, e), f)
    BY <2>1, WithoutIs
  <2> QED
    BY <2>1, <2>2 DEF Exact
<1>4. \A entries, T : Exact(entries, T) => entries # NoDir
  BY MarksAreNoValues DEF Exact
<1> QED
  BY <1>1, <1>2, <1>3, <1>4

\* What there is below a directory, but for the files that some calls stopped
\* half-way have left unlisted.
Strays == {x \in DirPaths \X Entries : x[2] \in EntriesAt(x[1]) /\ x[2][1] # "D"}
Children(U, s, p) == {e \in EntriesAt(p) : There(s, p, e) /\ <<p, e>> \notin U}
ListsItsChildren(U, s, p) ==
    IF s.dir[p] = NoDir THEN Children(U, s, p) = {} ELSE Exact(s.dir[p], Children(U, s, p))

Whole(U) ==
    {s \in States : s.dir[<<>>] # NoDir /\ \A p \in DirPaths : ListsItsChildren(U, s, p)}

\* An entry of a directory names one path, and a path is named by one entry of
\* one directory.
LEMMA EntryOfDir ==
    ASSUME NEW p \in DirPaths, NEW e \in EntriesAt(p), e[1] = "D",
           NEW q \in DirPaths, q # <<>>
    PROVE  Append(p, e[2]) = q <=> p = Parent(q) /\ e = DirEntry(Last(q))
<1>1. e[2] \in DirNames /\ e = DirEntry(e[2])
  BY EntriesAre
<1>2. Parent(Append(p, e[2])) = p /\ Last(Append(p, e[2])) = e[2]
  BY <1>1, DirPathsGrow
<1>3. q = Append(Parent(q), Last(q))
  BY DirPathsEnd
<1>4. DirEntry(Last(q))[2] = Last(q)
  BY DEF DirEntry
<1> QED
  BY <1>1, <1>2, <1>3, <1>4

LEMMA EntryOfFile ==
    ASSUME NEW p \in DirPaths, NEW e \in EntriesAt(p), e[1] # "D",
           NEW d \in DirPaths, NEW n \in AllFileNames
    PROVE  Append(p, e[2]) = Append(d, n) <=> p = d /\ e = FileEntry(n)
<1>1. e[2] \in AllFileNames /\ e = FileEntry(e[2])
  BY EntriesAre
<1>2. /\ Parent(Append(p, e[2])) = p /\ Last(Append(p, e[2])) = e[2]
      /\ Parent(Append(d, n)) = d /\ Last(Append(d, n)) = n
  BY <1>1, FilePathsAre
<1>3. FileEntry(n)[2] = n
  BY DEF FileEntry
<1> QED
  BY <1>1, <1>2, <1>3

\* What is whole is what the properties ask of a tree.
LEMMA WholeIs ==
    ASSUME unlisted \in SUBSET Strays, fs \in Whole(unlisted)
    PROVE  EntriesResolve /\ NoOrphans
<1>1. fs \in States /\ \A p \in DirPaths : ListsItsChildren(unlisted, fs, p)
  BY DEF Whole
<1>2. \A p \in DirPaths : IsDir(p) => Exact(fs.dir[p], Children(unlisted, fs, p))
  BY <1>1 DEF ListsItsChildren, IsDir
<1>3. \A p \in DirPaths : \A e \in EntriesAt(p) :
         There(fs, p, e) /\ <<p, e>> \notin unlisted
            => fs.dir[p] # NoDir /\ e \in Range(fs.dir[p]) /\ Once(fs.dir[p], e)
  BY <1>1 DEF ListsItsChildren, Children, Exact
<1>4. EntriesResolve
  BY <1>2 DEF EntriesResolve, Exact, Children
<1>5. NoOrphans
  BY <1>3 DEF NoOrphans, Listed
<1> QED
  BY <1>4, <1>5

LEMMA WholeStates ==
    ASSUME NEW U \in SUBSET Strays, NEW s \in Whole(U)
    PROVE  /\ s \in States /\ s.dir[<<>>] # NoDir
           /\ \A p \in DirPaths :
                /\ ListsItsChildren(U, s, p)
                /\ s.dir[p] = NoDir => Children(U, s, p) = {}
                /\ s.dir[p] # NoDir => Exact(s.dir[p], Children(U, s, p))
  BY DEF Whole, ListsItsChildren

\* A state of which the same is stored.
LEMMA UnchangedIsWhole ==
    ASSUME NEW U \in SUBSET Strays,
           NEW s \in Whole(U), NEW t \in States, t.dir = s.dir, t.meta = s.meta
    PROVE  t \in Whole(U)
<1>1. \A p \in DirPaths : \A e \in EntriesAt(p) : There(t, p, e) <=> There(s, p, e)
  BY DEF There
<1>2. \A p \in DirPaths : Children(U, t, p) = Children(U, s, p)
  BY <1>1 DEF Children
<1>3. \A p \in DirPaths : ListsItsChildren(U, t, p)
  BY <1>2, WholeStates DEF ListsItsChildren
<1> QED
  BY <1>3, WholeStates DEF Whole

LEMMA MadeIsWhole ==
    ASSUME NEW U \in SUBSET Strays,
           NEW s \in Whole(U), NEW t \in States, NEW p \in DirPaths, p # <<>>,
           t.meta = s.meta, Made(s, t, p)
    PROVE  t \in Whole(U)
<1> DEFINE u == Parent(p)
           new == DirEntry(Last(p))
<1>1. /\ u \in DirPaths /\ u # p /\ new \in EntriesAt(u) /\ new[1] = "D"
      /\ new[2] = Last(p) /\ Append(u, new[2]) = p /\ new \in Entries
  <2>1. /\ u \in DirPaths /\ Last(p) \in DirNames /\ p = Append(u, Last(p))
        /\ Len(u) = Len(p) - 1 /\ Len(u) < MaxDepth /\ Len(p) \in Nat
    BY DirPathsEnd, PathsAre, LenProperties
  <2>2. u # p
    BY <2>1
  <2>3. new \in EntriesAt(u) /\ new \in Entries
    BY <2>1, EntriesFit
  <2> QED
    BY <2>1, <2>2, <2>3 DEF DirEntry
<1>2. /\ s.dir[u] # NoDir /\ s.dir[p] = NoDir
      /\ \A q \in DirPaths : t.dir[q] = IF q = u THEN Append(s.dir[q], new)
                                        ELSE IF q = p THEN <<>> ELSE s.dir[q]
  BY DEF Made
<1>3. \A q \in DirPaths : \A e \in EntriesAt(q) :
         e[1] = "D" => (Append(q, e[2]) = p <=> q = u /\ e = new)
  BY EntryOfDir
<1>4. \A q \in DirPaths : \A e \in EntriesAt(q) : e[1] = "D" => Append(q, e[2]) \in DirPaths
  BY EntriesAre
<1> HIDE DEF u, new
<1>5. <<>> # NoDir /\ \A q \in DirPaths : s.dir[q] # NoDir => t.dir[q] # NoDir
  <2>1. <<>> # NoDir
    BY ExactIs
  <2>2. Append(s.dir[u], new) # NoDir
    <3>1. s.dir[u] \in Seq(Entries)
      BY <1>1, <1>2, WholeStates DEF Exact
    <3>2. Append(s.dir[u], new) \in Seq(Entries)
      BY <1>1, <3>1, AppendProperties
    <3> QED
      BY <3>2, MarksAreNoValues
  <2> QED
    BY <1>2, <2>1, <2>2
<1>6. ASSUME NEW q \in DirPaths, NEW e \in EntriesAt(q)
      PROVE  There(t, q, e) <=> There(s, q, e) \/ (q = u /\ e = new)
  <2>1. CASE e[1] # "D"
    BY <1>1, <2>1 DEF There
  <2>2. CASE e[1] = "D"
    <3> DEFINE c == Append(q, e[2])
    <3>1. c \in DirPaths /\ (c = p <=> q = u /\ e = new)
      BY <1>3, <1>4, <2>2
    <3>2. There(t, q, e) <=> t.dir[c] # NoDir
      BY <2>2 DEF There
    <3>3. There(s, q, e) <=> s.dir[c] # NoDir
      BY <2>2 DEF There
    <3> HIDE DEF c
    <3>4. t.dir[c] # NoDir <=> s.dir[c] # NoDir \/ c = p
      BY <1>1, <1>2, <1>5, <3>1
    <3> QED
      BY <3>1, <3>2, <3>3, <3>4
  <2> QED
    BY <2>1, <2>2
<1>7. \A q \in DirPaths : q # u => Children(U, t, q) = Children(U, s, q)
  BY <1>6 DEF Children
<1>8. Children(U, t, u) = Children(U, s, u) \cup {new} /\ new \notin Children(U, s, u)
  <2>1. Children(U, t, u) = Children(U, s, u) \cup {new}
    <3>1. <<u, new>> \notin U
      BY <1>1 DEF Strays
    <3> QED
      BY <1>1, <1>6, <3>1 DEF Children
  <2>2. ~There(s, u, new)
    BY <1>1, <1>2 DEF There
  <2> QED
    BY <2>1, <2>2 DEF Children
<1>9. ASSUME NEW q \in DirPaths
      PROVE  ListsItsChildren(U, t, q)
  <2>1. CASE q = u
    <3>1. Exact(s.dir[u], Children(U, s, u))
      BY <1>1, <1>2, WholeStates
    <3>2. Exact(Append(s.dir[u], new), Children(U, t, u))
      BY <1>1, <1>8, <3>1, ExactIs
    <3>3. t.dir[q] = Append(s.dir[u], new) /\ t.dir[q] # NoDir
      BY <1>1, <1>2, <1>5, <2>1
    <3> QED
      BY <2>1, <3>2, <3>3 DEF ListsItsChildren
  <2>2. CASE q = p
    <3>1. t.dir[q] = <<>> /\ Children(U, t, q) = {}
      BY <1>1, <1>2, <1>7, <2>2, WholeStates
    <3> QED
      BY <3>1, ExactIs DEF ListsItsChildren
  <2>3. CASE q # u /\ q # p
    BY <1>2, <1>7, <2>3, WholeStates DEF ListsItsChildren
  <2> QED
    BY <2>1, <2>2, <2>3
<1>10. t.dir[<<>>] # NoDir
  BY <1>5, WholeStates, PathsAre
<1> QED
  BY <1>9, <1>10 DEF Whole

\* The files there are after some metas changed.
LEMMA FilesThere ==
    ASSUME NEW s, NEW t, NEW p \in DirPaths, NEW e \in EntriesAt(p),
           \A q \in DirPaths : t.dir[q] # NoDir <=> s.dir[q] # NoDir
    PROVE  /\ e[1] = "D" => (There(t, p, e) <=> There(s, p, e))
           /\ e[1] # "D" => /\ There(t, p, e) <=> t.meta[Append(p, e[2])] \in Blobs
                            /\ There(s, p, e) <=> s.meta[Append(p, e[2])] \in Blobs
                            /\ Append(p, e[2]) \in FilePaths
  BY EntriesAre DEF There

LEMMA GoneIsWhole ==
    ASSUME NEW U \in SUBSET Strays,
           NEW s \in Whole(U), NEW t \in States, NEW d \in DirPaths, NEW n \in AllFileNames,
           Gone(s, t, d, n)
    PROVE  t \in Whole(U)
<1> DEFINE p == Append(d, n)
           old == FileEntry(n)
<1>1. s \in States /\ s.meta \in [FilePaths -> Blobs \cup {Absent, Deleted}]
      /\ s.dir \in [DirPaths -> {NoDir} \cup Seq(Entries)]
  BY WholeStates, StateIs
<1>2. /\ t.meta = [s.meta EXCEPT ![p] = Deleted]
      /\ s.dir[d] = NoDir => t.dir = s.dir
      /\ s.dir[d] # NoDir => t.dir = [s.dir EXCEPT ![d] = Without(s.dir[d], old)]
  BY DEF Gone
<1>3. \A q \in DirPaths : \A e \in EntriesAt(q) :
         e[1] # "D" => (Append(q, e[2]) = p <=> q = d /\ e = old)
  BY EntryOfFile
<1>4. old[1] # "D"
  BY DEF FileEntry
<1> HIDE DEF p, old
<1>5. s.dir[d] # NoDir => Exact(Without(s.dir[d], old), Children(U, s, d) \ {old})
  BY WholeStates, ExactIs
<1>6. \A q \in DirPaths : t.dir[q] # NoDir <=> s.dir[q] # NoDir
  <2>1. s.dir[d] # NoDir => Without(s.dir[d], old) # NoDir
    BY <1>5, ExactIs
  <2> QED
    BY <1>1, <1>2, <2>1
<1>7. ASSUME NEW q \in DirPaths, NEW e \in EntriesAt(q)
      PROVE  There(t, q, e) <=> There(s, q, e) /\ ~(q = d /\ e = old)
  <2>1. CASE e[1] = "D"
    BY <1>4, <1>6, <2>1, FilesThere
  <2>2. CASE e[1] # "D"
    <3> DEFINE c == Append(q, e[2])
    <3>1. /\ There(t, q, e) <=> t.meta[c] \in Blobs
          /\ There(s, q, e) <=> s.meta[c] \in Blobs
          /\ c \in FilePaths
      BY <1>6, <2>2, FilesThere
    <3>2. c = p <=> q = d /\ e = old
      BY <1>3, <2>2
    <3> HIDE DEF c
    <3> QED
      BY <1>1, <1>2, <3>1, <3>2, MarksAreNoValues
  <2> QED
    BY <2>1, <2>2
<1>8. /\ \A q \in DirPaths : q # d => Children(U, t, q) = Children(U, s, q)
      /\ Children(U, t, d) = Children(U, s, d) \ {old}
  BY <1>7 DEF Children
<1>9. ASSUME NEW q \in DirPaths
      PROVE  ListsItsChildren(U, t, q)
  <2>1. CASE s.dir[q] = NoDir
    BY <1>6, <1>8, <2>1, WholeStates DEF ListsItsChildren
  <2>2. CASE s.dir[q] # NoDir /\ q = d
    BY <1>1, <1>2, <1>5, <1>6, <1>8, <2>2 DEF ListsItsChildren
  <2>3. CASE s.dir[q] # NoDir /\ q # d
    <3>1. t.dir[q] = s.dir[q]
      BY <1>1, <1>2, <2>3
    <3> QED
      BY <1>8, <2>3, <3>1, WholeStates DEF ListsItsChildren
  <2> QED
    BY <2>1, <2>2, <2>3
<1>10. t.dir[<<>>] # NoDir
  BY <1>6, WholeStates, PathsAre
<1> QED
  BY <1>9, <1>10 DEF Whole

\* A tree of the same directories each of which lists what is there.
LEMMA RelistedIsWhole ==
    ASSUME NEW U, NEW W, NEW s \in Whole(U), NEW t \in States,
           \A r \in DirPaths : s.dir[r] = NoDir => t.dir[r] = NoDir /\ Children(W, t, r) = {},
           \A r \in DirPaths : s.dir[r] # NoDir => Exact(t.dir[r], Children(W, t, r))
    PROVE  t \in Whole(W)
<1>1. \A r \in DirPaths : s.dir[r] # NoDir => t.dir[r] # NoDir
  BY ExactIs
<1>2. \A r \in DirPaths : ListsItsChildren(W, t, r)
  BY <1>1 DEF ListsItsChildren
<1>3. t.dir[<<>>] # NoDir
  BY <1>1, PathsAre DEF Whole
<1> QED
  BY <1>2, <1>3 DEF Whole

LEMMA RenamedIsWhole ==
    ASSUME NEW U \in SUBSET Strays,
           NEW s \in Whole(U), NEW t \in States, NEW d \in DirPaths, NEW n \in AllFileNames,
           NEW e \in DirPaths, NEW m \in AllFileNames,
           s.dir[e] # NoDir, Renamed(s, t, d, n, e, m), <<e, FileEntry(m)>> \notin U
    PROVE  t \in Whole(U)
<1> DEFINE p == Append(d, n)
           q == Append(e, m)
           old == FileEntry(n)
           new == FileEntry(m)
           listed == [s.dir EXCEPT ![e] = Append(s.dir[e], new)]
           With(r) == Children(U, s, r) \cup (IF r = e THEN {new} ELSE {})
<1>1. s \in States /\ s.dir \in [DirPaths -> {NoDir} \cup Seq(Entries)]
  BY WholeStates, StateIs
<1>2. PICK b \in Blobs : \A r \in FilePaths :
         t.meta[r] = IF r = q THEN b ELSE IF r = p THEN Deleted ELSE s.meta[r]
  BY DEF Renamed
<1>3. /\ p # q /\ s.meta[q] \notin Blobs
      /\ s.dir[d] = NoDir => t.dir = listed
      /\ s.dir[d] # NoDir => t.dir = [listed EXCEPT ![d] = Without(listed[d], old)]
  BY DEF Renamed
<1>4. /\ \A r \in DirPaths : \A x \in EntriesAt(r) :
            x[1] # "D" => /\ Append(r, x[2]) = p <=> r = d /\ x = old
                          /\ Append(r, x[2]) = q <=> r = e /\ x = new
      /\ old[1] # "D" /\ new[1] # "D" /\ (old # new \/ d # e)
      /\ new \in EntriesAt(e) /\ new \in Entries /\ new[2] = m
  <2>1. \A r \in DirPaths : \A x \in EntriesAt(r) :
            x[1] # "D" => /\ Append(r, x[2]) = p <=> r = d /\ x = old
                          /\ Append(r, x[2]) = q <=> r = e /\ x = new
    BY EntryOfFile
  <2>2. old[1] # "D" /\ new[1] # "D" /\ old[2] = n /\ new[2] = m
    BY DEF FileEntry
  <2>3. new \in EntriesAt(e) /\ new \in Entries
    BY EntriesFit
  <2>4. old # new \/ d # e
    BY <1>3, <2>2
  <2> QED
    BY <2>1, <2>2, <2>3, <2>4
<1>5. new \notin Children(U, s, e)
  BY <1>3, <1>4 DEF Children, There, FileEntry
<1> HIDE DEF p, q, old, new
<1>6. /\ \A r \in DirPaths : s.dir[r] # NoDir => Exact(listed[r], With(r))
      /\ \A r \in DirPaths : s.dir[r] = NoDir => listed[r] = NoDir
  <2>1. \A r \in DirPaths : s.dir[r] # NoDir => Exact(s.dir[r], Children(U, s, r))
    BY WholeStates
  <2>2. Exact(Append(s.dir[e], new), With(e))
    BY <1>4, <1>5, <2>1, ExactIs
  <2>3. \A r \in DirPaths : listed[r] = IF r = e THEN Append(s.dir[e], new) ELSE s.dir[r]
    BY <1>1
  <2> HIDE DEF listed
  <2> QED
    BY <2>1, <2>2, <2>3
<1>7. \A r \in DirPaths : t.dir[r] = IF s.dir[d] # NoDir /\ r = d THEN Without(listed[r], old)
                                     ELSE listed[r]
  BY <1>1, <1>3
<1> HIDE DEF listed
<1>8. \A r \in DirPaths : Exact(listed[r], With(r)) => Exact(Without(listed[r], old), With(r) \ {old})
  <2> HIDE DEF With
  <2> QED
    BY ExactIs
<1>9. \A r \in DirPaths : t.dir[r] # NoDir <=> s.dir[r] # NoDir
  <2> HIDE DEF With
  <2> QED
    BY <1>6, <1>7, <1>8, ExactIs
<1>10. ASSUME NEW r \in DirPaths, NEW x \in EntriesAt(r)
       PROVE  There(t, r, x) <=> \/ r = e /\ x = new
                                 \/ There(s, r, x) /\ ~(r = d /\ x = old)
  <2>1. CASE x[1] = "D"
    BY <1>4, <1>9, <2>1, FilesThere
  <2>2. CASE x[1] # "D"
    <3> DEFINE c == Append(r, x[2])
    <3>1. /\ There(t, r, x) <=> t.meta[c] \in Blobs
          /\ There(s, r, x) <=> s.meta[c] \in Blobs
          /\ c \in FilePaths
      BY <1>9, <2>2, FilesThere
    <3>2. /\ c = p <=> r = d /\ x = old
          /\ c = q <=> r = e /\ x = new
      BY <1>4, <2>2
    <3> HIDE DEF c
    <3> QED
      BY <1>2, <1>3, <3>1, <3>2, MarksAreNoValues
  <2> QED
    BY <2>1, <2>2
<1>11. \A r \in DirPaths : Children(U, t, r) = IF r = d THEN With(r) \ {old} ELSE With(r)
  <2>1. <<e, new>> \notin U
    BY DEF new
  <2> QED
    BY <1>4, <1>10, <2>1 DEF Children
<1>12. \A r \in DirPaths : s.dir[r] = NoDir => t.dir[r] = NoDir /\ Children(U, t, r) = {}
  BY <1>9, <1>11, WholeStates
<1>13. \A r \in DirPaths : s.dir[r] # NoDir => Exact(t.dir[r], Children(U, t, r))
  <2> HIDE DEF With
  <2> QED
    BY <1>6, <1>7, <1>8, <1>11
<1> QED
  BY <1>12, <1>13, RelistedIsWhole

LEMMA UploadedIsWhole ==
    ASSUME NEW U \in SUBSET Strays,
           NEW s \in Whole(U), NEW t \in States, NEW d \in DirPaths, NEW n \in FileNames,
           NEW b \in Blobs, NEW overwrite \in BOOLEAN, NEW time \in BackupTimes,
           s.dir[d] # NoDir, Uploaded(s, t, d, n, b, overwrite, time),
           \A x \in U : There(s, x[1], x[2])
    PROVE  t \in Whole(U \ {<<d, FileEntry(n)>>})
<1> DEFINE p == Append(d, n)
           backup == <<time, n>>
           q == Append(d, backup)
           e == FileEntry(n)
           f == FileEntry(backup)
           there == Seen(s, p) # NotCached
           keep == there /\ ~overwrite
           listed == IF keep THEN Append(s.dir[d], f) ELSE s.dir[d]
           left == IF there THEN Without(listed, e) ELSE listed
           kept == Children(U, s, d) \cup (IF keep THEN {f} ELSE {})
           W == U \ {<<d, e>>}
<1>1. /\ keep => s.meta[p] \in Blobs /\ s.meta[q] = Absent
      /\ \A r \in DirPaths : t.dir[r] = IF r = d THEN Append(left, e) ELSE s.dir[r]
      /\ \A r \in FilePaths :
            t.meta[r] = IF r = p THEN b ELSE IF keep /\ r = q THEN s.meta[p] ELSE s.meta[r]
  BY DEF Uploaded
<1>2. /\ n \in AllFileNames /\ backup \in AllFileNames
  BY DEF AllFileNames
<1>3. /\ p \in FilePaths
      /\ e \in EntriesAt(d) /\ e \in Entries /\ e[1] # "D" /\ Append(d, e[2]) = p
      /\ f \in EntriesAt(d) /\ f \in Entries /\ f[1] # "D" /\ Append(d, f[2]) = q
      /\ \A r \in DirPaths : \A x \in EntriesAt(r) :
            x[1] # "D" => /\ Append(r, x[2]) = p <=> r = d /\ x = e
                          /\ Append(r, x[2]) = q <=> r = d /\ x = f
  <2> HIDE DEF backup
  <2>1. p \in FilePaths
    BY <1>2, FilePathsAre
  <2>2. e[1] # "D" /\ f[1] # "D" /\ e[2] = n /\ f[2] = backup
    BY DEF FileEntry
  <2>3. e \in EntriesAt(d) /\ e \in Entries /\ f \in EntriesAt(d) /\ f \in Entries
    BY <1>2, EntriesFit
  <2>4. \A r \in DirPaths : \A x \in EntriesAt(r) :
            x[1] # "D" => /\ Append(r, x[2]) = p <=> r = d /\ x = e
                          /\ Append(r, x[2]) = q <=> r = d /\ x = f
    BY <1>2, EntryOfFile
  <2> QED
    BY <2>1, <2>2, <2>3, <2>4
<1>4. s \in States
  BY WholeStates
<1>5. /\ keep => f \notin Children(U, s, d) /\ <<d, f>> \notin U
      /\ ~there => e \notin kept
  <2>1. keep => f \notin Children(U, s, d) /\ <<d, f>> \notin U
    <3>1. keep => s.meta[Append(d, f[2])] \notin Blobs
      BY SMTT(40), <1>1, <1>3, MarksAreNoValues
    <3> HIDE DEF keep, f
    <3>2. keep => ~There(s, d, f)
      BY <1>3, <3>1 DEF There
    <3> QED
      BY <3>2 DEF Children
  <2>2. ~there => s.meta[Append(d, e[2])] \notin Blobs
    <3> HIDE DEF p, e
    <3> QED
      BY <1>3, <1>4, SeenIs
  <2>3. ~there => e \notin Children(U, s, d)
    <3> HIDE DEF there, e
    <3> QED
      BY <1>3, <2>2 DEF Children, There
  <2> QED
    BY <2>1, <2>3
<1> HIDE DEF p, q, e, f, there, backup
<1>6. Exact(listed, kept)
  <2>1. Exact(s.dir[d], Children(U, s, d))
    BY WholeStates
  <2> QED
    BY <1>3, <1>5, <2>1, ExactIs
<1> HIDE DEF listed, kept
<1>7. Exact(left, kept \ {e})
  <2>1. there => Exact(left, kept \ {e})
    BY <1>6, ExactIs
  <2>2. ~there => kept = kept \ {e}
    BY <1>5
  <2> QED
    BY <1>6, <2>1, <2>2
<1> HIDE DEF left
<1>8. Exact(Append(left, e), kept \cup {e})
  <2>1. Exact(Append(left, e), (kept \ {e}) \cup {e})
    BY <1>3, <1>7, ExactIs
  <2>2. (kept \ {e}) \cup {e} = kept \cup {e}
    OBVIOUS
  <2> QED
    BY <2>1, <2>2
<1>9. \A r \in DirPaths : t.dir[r] # NoDir <=> s.dir[r] # NoDir
  BY <1>1, <1>8, ExactIs
<1>10. ASSUME NEW r \in DirPaths, NEW x \in EntriesAt(r)
       PROVE  There(t, r, x) <=> \/ There(s, r, x)
                                 \/ r = d /\ x = e
                                 \/ keep /\ r = d /\ x = f
  <2>1. CASE x[1] = "D"
    BY <1>3, <1>9, <2>1, FilesThere
  <2>2. CASE x[1] # "D"
    <3> DEFINE c == Append(r, x[2])
    <3>1. /\ There(t, r, x) <=> t.meta[c] \in Blobs
          /\ There(s, r, x) <=> s.meta[c] \in Blobs
          /\ c \in FilePaths
      BY <1>9, <2>2, FilesThere
    <3>2. /\ c = p <=> r = d /\ x = e
          /\ c = q <=> r = d /\ x = f
      BY <1>3, <2>2
    <3> HIDE DEF c, keep
    <3> QED
      BY <1>1, <3>1, <3>2
  <2> QED
    BY <2>1, <2>2
<1>11. \A r \in DirPaths : Children(W, t, r) = IF r = d THEN kept \cup {e} ELSE Children(U, s, r)
  <2> SUFFICES ASSUME NEW r \in DirPaths, NEW x \in EntriesAt(r)
               PROVE  x \in Children(W, t, r)
                         <=> \/ x \in Children(U, s, r)
                             \/ r = d /\ x = e
                             \/ keep /\ r = d /\ x = f
    BY <1>3 DEF Children, kept
  <2>1. <<r, x>> \in W <=> <<r, x>> \in U /\ ~(r = d /\ x = e)
    OBVIOUS
  <2> HIDE DEF W, keep
  <2> QED
    BY <1>5, <1>10, <2>1 DEF Children
<1> HIDE DEF W
<1>12. \A r \in DirPaths : s.dir[r] = NoDir => t.dir[r] = NoDir /\ Children(W, t, r) = {}
  BY <1>9, <1>11, WholeStates
<1>13. \A r \in DirPaths : s.dir[r] # NoDir => Exact(t.dir[r], Children(W, t, r))
  BY <1>1, <1>8, <1>11, WholeStates
<1>14. t \in Whole(W)
  BY <1>12, <1>13, RelistedIsWhole
<1> QED
  BY <1>14 DEF W, e

LEMMA StoppedIsWhole ==
    ASSUME NEW U \in SUBSET Strays, NEW s \in Whole(U), NEW t \in States,
           NEW d \in DirPaths, NEW n \in FileNames,
           NEW overwrite \in BOOLEAN, NEW time \in BackupTimes,
           s.dir[d] # NoDir, Stopped(s, t, d, n, overwrite, time),
           \A x \in U : There(s, x[1], x[2])
    PROVE  /\ overwrite => t \in Whole(U \cup {<<d, FileEntry(n)>>})
           /\ ~overwrite => t \in Whole(U)
<1> DEFINE p == Append(d, n)
           backup == <<time, n>>
           q == Append(d, backup)
           e == FileEntry(n)
           f == FileEntry(backup)
           there == Seen(s, p) # NotCached
           keep == there /\ ~overwrite
           listed == IF keep THEN Append(s.dir[d], f) ELSE s.dir[d]
           left == IF there THEN Without(listed, e) ELSE listed
           kept == Children(U, s, d) \cup (IF keep THEN {f} ELSE {})
           W == IF overwrite THEN U \cup {<<d, e>>} ELSE U
<1>1. /\ keep => s.meta[p] \in Blobs /\ s.meta[q] = Absent
      /\ \A r \in DirPaths : t.dir[r] = IF r = d THEN left ELSE s.dir[r]
      /\ \A r \in FilePaths : t.meta[r] = IF ~keep THEN s.meta[r]
                                           ELSE IF r = q THEN s.meta[p]
                                           ELSE IF r = p THEN Deleted ELSE s.meta[r]
  BY DEF Stopped
<1>2. /\ n \in AllFileNames /\ backup \in AllFileNames
  BY DEF AllFileNames
<1>3. /\ p \in FilePaths
      /\ e \in EntriesAt(d) /\ e \in Entries /\ e[1] # "D" /\ Append(d, e[2]) = p
      /\ f \in EntriesAt(d) /\ f \in Entries /\ f[1] # "D" /\ Append(d, f[2]) = q
      /\ \A r \in DirPaths : \A x \in EntriesAt(r) :
            x[1] # "D" => /\ Append(r, x[2]) = p <=> r = d /\ x = e
                          /\ Append(r, x[2]) = q <=> r = d /\ x = f
  <2> HIDE DEF backup
  <2>1. p \in FilePaths
    BY <1>2, FilePathsAre
  <2>2. e[1] # "D" /\ f[1] # "D" /\ e[2] = n /\ f[2] = backup
    BY DEF FileEntry
  <2>3. e \in EntriesAt(d) /\ e \in Entries /\ f \in EntriesAt(d) /\ f \in Entries
    BY <1>2, EntriesFit
  <2>4. \A r \in DirPaths : \A x \in EntriesAt(r) :
            x[1] # "D" => /\ Append(r, x[2]) = p <=> r = d /\ x = e
                          /\ Append(r, x[2]) = q <=> r = d /\ x = f
    BY <1>2, EntryOfFile
  <2> QED
    BY <2>1, <2>2, <2>3, <2>4
<1>4. s \in States
  BY WholeStates
<1>5. /\ keep => f \notin Children(U, s, d) /\ <<d, f>> \notin U /\ p # q
      /\ ~there => ~There(s, d, e)
  <2>1. keep => f \notin Children(U, s, d) /\ <<d, f>> \notin U /\ p # q
    <3>1. keep => s.meta[Append(d, f[2])] \notin Blobs /\ p # q
      BY SMTT(40), <1>1, <1>3, MarksAreNoValues
    <3> HIDE DEF keep, f, p, q
    <3>2. keep => ~There(s, d, f)
      BY <1>3, <3>1 DEF There
    <3> QED
      BY <3>1, <3>2 DEF Children
  <2>2. ~there => s.meta[Append(d, e[2])] \notin Blobs
    <3> HIDE DEF p, e
    <3> QED
      BY <1>3, <1>4, SeenIs
  <2>3. ~there => ~There(s, d, e)
    <3> HIDE DEF there, e
    <3> QED
      BY <1>3, <2>2 DEF There
  <2> QED
    BY <2>1, <2>3
<1> HIDE DEF p, q, e, f, there, backup
<1>6. Exact(listed, kept)
  <2>1. Exact(s.dir[d], Children(U, s, d))
    BY WholeStates
  <2> QED
    BY <1>3, <1>5, <2>1, ExactIs
<1> HIDE DEF listed, kept
<1>7. Exact(left, kept \ {e})
  <2>1. there => Exact(left, kept \ {e})
    BY <1>6, ExactIs
  <2>2. ~there => kept = kept \ {e}
    BY <1>5 DEF kept, Children
  <2> QED
    BY <1>6, <2>1, <2>2
<1> HIDE DEF left
<1>8. \A r \in DirPaths : t.dir[r] # NoDir <=> s.dir[r] # NoDir
  BY <1>1, <1>7, ExactIs
<1>9. ASSUME NEW r \in DirPaths, NEW x \in EntriesAt(r)
      PROVE  There(t, r, x) <=> \/ There(s, r, x) /\ ~(keep /\ r = d /\ x = e)
                                \/ keep /\ r = d /\ x = f
  <2>1. CASE x[1] = "D"
    BY <1>3, <1>8, <2>1, FilesThere
  <2>2. CASE x[1] # "D"
    <3> DEFINE c == Append(r, x[2])
    <3>1. /\ There(t, r, x) <=> t.meta[c] \in Blobs
          /\ There(s, r, x) <=> s.meta[c] \in Blobs
          /\ c \in FilePaths
      BY <1>8, <2>2, FilesThere
    <3>2. /\ c = p <=> r = d /\ x = e
          /\ c = q <=> r = d /\ x = f
      BY <1>3, <2>2
    <3> HIDE DEF c, keep
    <3> QED
      BY <1>1, <1>5, <3>1, <3>2, MarksAreNoValues
  <2> QED
    BY <2>1, <2>2
<1>10. \A r \in DirPaths : Children(W, t, r) = IF r = d THEN kept \ {e} ELSE Children(U, s, r)
  <2> SUFFICES ASSUME NEW r \in DirPaths, NEW x \in EntriesAt(r)
               PROVE  x \in Children(W, t, r)
                         <=> /\ x \in Children(U, s, r) \/ (keep /\ r = d /\ x = f)
                             /\ ~(r = d /\ x = e)
    BY <1>3 DEF Children, kept
  <2>1. <<r, x>> \in W <=> <<r, x>> \in U \/ (overwrite /\ r = d /\ x = e)
    OBVIOUS
  <2>2. keep <=> there /\ ~overwrite
    OBVIOUS
  <2> HIDE DEF W, keep
  <2>3. keep => f # e
    BY <1>3, <1>5
  <2> QED
    BY <1>5, <1>9, <2>1, <2>2, <2>3 DEF Children
<1> HIDE DEF W
<1>11. \A r \in DirPaths : s.dir[r] = NoDir => t.dir[r] = NoDir /\ Children(W, t, r) = {}
  BY <1>8, <1>10, WholeStates
<1>12. \A r \in DirPaths : s.dir[r] # NoDir => Exact(t.dir[r], Children(W, t, r))
  BY <1>1, <1>7, <1>10, WholeStates
<1>13. t \in Whole(W)
  BY <1>11, <1>12, RelistedIsWhole
<1> QED
  BY <1>13 DEF W, e

-----------------------------------------------------------------------------
\* A tree of one level: the directories there are below the root hold files only,
\* and RemoveInode corrects the directory they are in.

LEMMA FlatIs ==
    ASSUME MaxDepth = 1, NEW p \in DirPaths, p # <<>>
    PROVE  /\ Len(p) = 1 /\ Parent(p) = <<>> /\ Corrected(p) = <<>> /\ Last(p) \in DirNames
           /\ p = Append(<<>>, Last(p)) /\ <<>> \in DirPaths
           /\ \A e \in EntriesAt(p) : e[1] = "F" /\ e[2] \in AllFileNames /\ e = FileEntry(e[2])
           /\ DirEntry(Last(p)) \in EntriesAt(<<>>)
<1>1. /\ Parent(p) \in DirPaths /\ Last(p) \in DirNames /\ p = Append(Parent(p), Last(p))
      /\ Len(Parent(p)) = Len(p) - 1 /\ Len(p) \in 0..1
  BY DirPathsEnd, PathsAre
<1>2. Parent(p) \in Seq(DirNames) /\ p \in Seq(DirNames)
  BY <1>1, PathsAre
<1>3. Len(p) = 1 /\ Len(Parent(p)) = 0
  BY <1>1, <1>2, EmptySeq, LenProperties
<1>4. Parent(p) = <<>>
  BY <1>2, <1>3, EmptySeq
<1>5. Corrected(p) = <<>>
  BY <1>4 DEF Corrected, Parent
<1>6. \A e \in EntriesAt(p) : e[1] = "F" /\ e[2] \in AllFileNames /\ e = FileEntry(e[2])
  <2>1. ~(Len(p) < MaxDepth)
    BY <1>3
  <2> QED
    BY <2>1, EntriesAre
<1>7. DirEntry(Last(p)) \in EntriesAt(<<>>)
  BY <1>1, <1>4, DirPathsEnd, EntriesFit
<1> QED
  BY <1>1, <1>3, <1>4, <1>5, <1>6, <1>7

\* The tree without an empty directory that no other directory is in.
DirGone(s, t, p) ==
    /\ t.meta = s.meta
    /\ \A q \in DirPaths :
          t.dir[q] = IF q = p THEN NoDir
                     ELSE IF q = Parent(p) THEN Without(s.dir[q], DirEntry(Last(p)))
                     ELSE s.dir[q]

LEMMA DirGoneIsWhole ==
    ASSUME NEW U \in SUBSET Strays,
           NEW s \in Whole(U), NEW t \in States, NEW p \in DirPaths, p # <<>>,
           s.dir[p] # NoDir, Children(U, s, p) = {}, DirGone(s, t, p)
    PROVE  t \in Whole(U)
<1> DEFINE u == Parent(p)
           old == DirEntry(Last(p))
<1>1. /\ u \in DirPaths /\ u # p /\ old \in EntriesAt(u) /\ old[1] = "D"
      /\ Append(u, old[2]) = p
  <2>1. /\ u \in DirPaths /\ Last(p) \in DirNames /\ p = Append(u, Last(p))
        /\ Len(u) = Len(p) - 1 /\ Len(u) < MaxDepth /\ Len(p) \in Nat
    BY DirPathsEnd, PathsAre, LenProperties
  <2>2. u # p
    BY <2>1
  <2>3. old \in EntriesAt(u)
    BY <2>1, EntriesFit
  <2> QED
    BY <2>1, <2>2, <2>3 DEF DirEntry
<1>2. /\ t.meta = s.meta
      /\ \A q \in DirPaths : t.dir[q] = IF q = p THEN NoDir
                                        ELSE IF q = u THEN Without(s.dir[q], old) ELSE s.dir[q]
  BY DEF DirGone
<1>3. \A q \in DirPaths : \A e \in EntriesAt(q) :
         e[1] = "D" => (Append(q, e[2]) = p <=> q = u /\ e = old)
  BY EntryOfDir
<1>4. \A q \in DirPaths : \A e \in EntriesAt(q) : e[1] = "D" => Append(q, e[2]) \in DirPaths
  BY EntriesAre
<1> HIDE DEF u, old
<1>5. s.dir[u] # NoDir
  <2>1. There(s, u, old)
    BY <1>1 DEF There
  <2>0. <<u, old>> \notin U
    BY <1>1 DEF Strays
  <2>2. old \in Children(U, s, u)
    BY <1>1, <2>0, <2>1 DEF Children
  <2> QED
    BY <1>1, <2>2, WholeStates
<1>6. Exact(Without(s.dir[u], old), Children(U, s, u) \ {old})
  BY <1>1, <1>5, WholeStates, ExactIs
<1>7. Without(s.dir[u], old) # NoDir
  BY <1>6, ExactIs
<1>8. ASSUME NEW q \in DirPaths, NEW e \in EntriesAt(q)
      PROVE  There(t, q, e) <=> There(s, q, e) /\ ~(q = u /\ e = old)
  <2>1. CASE e[1] # "D"
    BY <1>1, <1>2, <2>1 DEF There
  <2>2. CASE e[1] = "D"
    <3> DEFINE c == Append(q, e[2])
    <3>1. c \in DirPaths /\ (c = p <=> q = u /\ e = old)
      BY <1>3, <1>4, <2>2
    <3>2. There(t, q, e) <=> t.dir[c] # NoDir
      BY <2>2 DEF There
    <3>3. There(s, q, e) <=> s.dir[c] # NoDir
      BY <2>2 DEF There
    <3> HIDE DEF c
    <3>4. t.dir[c] # NoDir <=> s.dir[c] # NoDir /\ c # p
      BY <1>1, <1>2, <1>5, <1>7, <3>1
    <3> QED
      BY <3>1, <3>2, <3>3, <3>4
  <2> QED
    BY <2>1, <2>2
<1>9. /\ \A q \in DirPaths : q # u => Children(U, t, q) = Children(U, s, q)
      /\ Children(U, t, u) = Children(U, s, u) \ {old}
  BY <1>1, <1>8 DEF Children
<1>10. ASSUME NEW q \in DirPaths
       PROVE  ListsItsChildren(U, t, q)
  <2>1. CASE q = u
    BY <1>1, <1>2, <1>6, <1>7, <1>9, <2>1 DEF ListsItsChildren
  <2>2. CASE q = p
    BY <1>1, <1>2, <1>9, <2>2 DEF ListsItsChildren
  <2>3. CASE q # u /\ q # p
    BY <1>2, <1>9, <2>3, WholeStates DEF ListsItsChildren
  <2> QED
    BY <2>1, <2>2, <2>3
<1>11. t.dir[<<>>] # NoDir
  BY <1>2, <1>7, WholeStates, PathsAre
<1> QED
  BY <1>10, <1>11 DEF Whole

\* RemoveInode of an empty directory of such a tree leaves a whole tree.
LEMMA EmptyDirGoes ==
    ASSUME NEW U \in SUBSET Strays,
           MaxDepth = 1, NEW s \in Whole(U), NEW p \in DirPaths, p # <<>>,
           s.out = "ok", s.dir[p] # NoDir, Range(s.dir[p]) = {}
    PROVE  RemoveInode(s, p) \in Whole(U) /\ RemoveInode(s, p).out = "ok"
<1> DEFINE d == DropInode(s, p)
           old == DirEntry(Last(p))
           root == Corrected(p)
           t == RemoveEntryFromDir(d, root, old)
<1>1. /\ s \in States /\ s.dir \in [DirPaths -> {NoDir} \cup Seq(Entries)]
      /\ s.dir[<<>>] # NoDir
  BY WholeStates, StateIs
<1>2. Parent(p) = root /\ root = <<>> /\ root \in DirPaths /\ root # p
  <2>1. Parent(p) = <<>> /\ Corrected(p) = <<>> /\ <<>> \in DirPaths
    BY FlatIs
  <2> QED
    BY <2>1
<1> HIDE DEF root
<1>3. /\ d \in States /\ SameFiles(s, d) /\ d.out = "ok"
      /\ d.dir = [s.dir EXCEPT ![p] = NoDir]
  BY <1>1, DropInodeIs
<1>4. RemoveInode(s, p) = t
  BY <1>3 DEF RemoveInode, Then, root
<1> HIDE DEF d
<1>5. d.dir[root] # NoDir /\ d.dir[root] = s.dir[root]
  BY <1>1, <1>2, <1>3
<1>6. t \in States /\ SameFiles(d, t) /\ EntryRemoved(d, t, root, old)
  BY <1>2, <1>3, RemoveEntryIs
<1> HIDE DEF t
<1>7. t.out = "ok" /\ t.dir = [d.dir EXCEPT ![root] = Without(d.dir[root], old)]
  BY <1>5, <1>6 DEF EntryRemoved
<1>8. DirGone(s, t, p)
  <2>1. \A q \in DirPaths : t.dir[q] = IF q = p THEN NoDir
                                       ELSE IF q = root THEN Without(s.dir[q], old)
                                       ELSE s.dir[q]
    BY <1>1, <1>2, <1>3, <1>5, <1>7
  <2> QED
    BY <1>2, <1>3, <1>6, <2>1 DEF DirGone, SameFiles, old
<1>9. Children(U, s, p) = {}
  BY WholeStates DEF Exact
<1>10. t \in Whole(U)
  BY <1>6, <1>8, <1>9, DirGoneIsWhole
<1> QED
  BY <1>4, <1>7, <1>10

\* What RmDir has left of a directory after so many of its entries.
Emptying(U, s, p, n) ==
    {x \in Whole(U) :
        /\ x.dir[p] # NoDir
        /\ x.out = "ok" => Range(x.dir[p]) = Range(s.dir[p]) \ {s.dir[p][i] : i \in 1..n}
        /\ s \in Kept => x \in Kept /\ x.out = "ok"}

\* rmFile deletes a file of the directory.
LEMMA RmFileEmpties ==
    ASSUME NEW U \in SUBSET Strays,
           MaxDepth = 1, NEW p \in DirPaths, p # <<>>, NEW s \in Whole(U), s.dir[p] # NoDir,
           NEW k \in 1..Len(s.dir[p]), NEW x \in Emptying(U, s, p, k - 1), x.out = "ok"
    PROVE  rmFile(x, p, s.dir[p][k]) \in Emptying(U, s, p, k)
<1> DEFINE L == s.dir[p]
           e == L[k]
           f == Append(p, e[2])
           t == rmFile(x, p, e)
<1>1. Exact(L, Children(U, s, p))
  BY WholeStates
<1>2. /\ L \in Seq(Entries) /\ Len(L) \in Nat /\ e \in EntriesAt(p)
      /\ \A i \in 1..Len(L) : L[i] = e => i = k
      /\ e \in Range(L)
  <2>1. L \in Seq(Entries) /\ Range(L) = Children(U, s, p) /\ Once(L, e)
    BY <1>1 DEF Exact
  <2>2. Len(L) \in Nat /\ DOMAIN L = 1..Len(L) /\ e \in Range(L)
    BY <2>1, ListIs
  <2>3. e \in EntriesAt(p)
    BY <2>1, <2>2 DEF Children
  <2> QED
    BY <2>1, <2>2, <2>3 DEF Once
<1>3. /\ x \in Whole(U) /\ x \in States /\ x.dir[p] # NoDir
      /\ Range(x.dir[p]) = Range(L) \ {L[i] : i \in 1..(k - 1)}
      /\ s \in Kept => x \in Kept
  BY WholeStates DEF Emptying
<1>4. e \in Range(x.dir[p])
  <2>1. \A i \in 1..(k - 1) : i \in 1..Len(L) /\ i # k
    BY <1>2
  <2>2. e \notin {L[i] : i \in 1..(k - 1)}
    BY <1>2, <2>1
  <2> QED
    BY <1>2, <1>3, <2>2
<1>5. e[1] = "F" /\ e[2] \in AllFileNames /\ e = FileEntry(e[2])
  BY <1>2, FlatIs
<1>6. x.meta[f] \in Blobs
  <2>1. e \in Children(U, x, p)
    BY <1>3, <1>4, WholeStates DEF Exact
  <2> QED
    BY <1>5, <2>1 DEF Children, There
<1>7. t = DeleteFile(x, p, e[2])
  <2> HIDE DEF e
  <2> QED
    BY <1>5 DEF rmFile, DeleteFile, Then
<1> HIDE DEF t, e, f
<1>8. /\ t \in States /\ (x \in Kept => t \in Kept)
      /\ (t.out = "error" /\ Unchanged(x, t)) \/ Gone(x, t, p, e[2])
      /\ x \in Kept => Gone(x, t, p, e[2])
  BY <1>3, <1>5, <1>6, <1>7, DeleteFileIs DEF f
<1>9. CASE Gone(x, t, p, e[2])
  <2>1. t \in Whole(U)
    BY <1>3, <1>5, <1>8, <1>9, GoneIsWhole
  <2>2. t.out = "ok" /\ t.dir[p] = Without(x.dir[p], e)
    <3>1. t.out = "ok" /\ t.dir = [x.dir EXCEPT ![p] = Without(x.dir[p], FileEntry(e[2]))]
      BY <1>3, <1>9 DEF Gone
    <3>2. x.dir \in [DirPaths -> {NoDir} \cup Seq(Entries)]
      BY <1>3, StateIs
    <3> QED
      BY <1>5, <3>1, <3>2
  <2>3. Exact(t.dir[p], Children(U, x, p) \ {e}) /\ Range(x.dir[p]) = Children(U, x, p)
    <3>1. Exact(x.dir[p], Children(U, x, p))
      BY <1>3, WholeStates
    <3> QED
      BY <2>2, <3>1, ExactIs DEF Exact
  <2>4. t.dir[p] # NoDir /\ Range(t.dir[p]) = Range(x.dir[p]) \ {e}
    BY <2>3, ExactIs DEF Exact
  <2>5. {L[i] : i \in 1..k} = {L[i] : i \in 1..(k - 1)} \cup {e}
    <3>1. 1..k = (1..(k - 1)) \cup {k}
      BY <1>2
    <3> QED
      BY <3>1 DEF e
  <2>6. Range(t.dir[p]) = Range(L) \ {L[i] : i \in 1..k}
    BY <1>3, <2>4, <2>5
  <2> QED
    BY <1>3, <1>8, <2>1, <2>2, <2>4, <2>6 DEF Emptying, t, e
<1>10. CASE t.out = "error" /\ Unchanged(x, t) /\ s \notin Kept
  <2>1. t.dir = x.dir /\ t.meta = x.meta
    BY <1>10 DEF Unchanged
  <2>2. t \in Whole(U)
    BY <1>3, <1>8, <2>1, UnchangedIsWhole
  <2> QED
    BY <1>3, <1>10, <2>1, <2>2 DEF Emptying, t, e
<1> QED
  BY <1>3, <1>8, <1>9, <1>10

\* RmDir of such a tree takes a directory out with the files in it; in a pod none
\* of whose directories was moved it deletes all of them, or has changed nothing.
LEMMA RmDirIs ==
    ASSUME NEW U \in SUBSET Strays,
           MaxDepth = 1, NEW p \in DirPaths, p # <<>>, NEW s \in Whole(U), s.out = "ok"
    PROVE  LET t == RmDir(s, p)
           IN  /\ t \in Whole(U)
               /\ s \in Kept => t.out = "ok" \/ Unchanged(s, t)
<1> DEFINE g == GetInode(s, p)
           L == g.dir[p]
           h == rmEntries(rmDir, p)
           u == Each(h, g, L)
           t == RmDir(s, p)
<1>0. s \in States
  BY WholeStates
<1>1. /\ g.out # "ok" => t = g
      /\ g.out = "ok" =>
            /\ Loop(EntriesAt(p), States, h, g, L)
            /\ t = IF u.out = "ok" THEN RemoveInode(u, p) ELSE u
  <2>1. t = RmDirStep(rmDir, p)[s]
    BY <1>0, RmDirUnfolds DEF RmDir
  <2> HIDE DEF t
  <2> QED
    BY <1>0, <2>1, RmDirStepIs, RmDirUnfolds
<1>2. /\ g \in States /\ SameFiles(s, g) /\ g.dir = s.dir
      /\ s.dir[p] # NoDir => g.out = "ok"
      /\ s.dir[p] = NoDir => g.out # "ok"
  BY <1>0, GetInodeIs
<1>3. \A e \in EntriesAt(p), x \in States :
         h[e][x] = IF x.out # "ok" THEN x
                   ELSE IF e[1] = "F" THEN rmFile(x, p, e)
                   ELSE rmDir[Append(p, e[2])][x]
  BY RmEntriesAre, RmDirUnfolds
<1> HIDE DEF g, h, u, t
<1>4. g \in Whole(U) /\ (s \in Kept => g \in Kept)
  <2>1. s \in Kept => g \in Kept
    BY <1>2, SameFilesKeep
  <2> QED
    BY <1>2, <2>1, UnchangedIsWhole DEF SameFiles
<1>5. CASE s.dir[p] = NoDir
  <2>1. Unchanged(s, g)
    BY <1>2 DEF Unchanged, SameFiles
  <2> QED
    BY <1>1, <1>2, <1>4, <1>5, <2>1 DEF t
<1>6. CASE s.dir[p] # NoDir
  <2> DEFINE J == [k \in 0..Len(L) |-> Emptying(U, g, p, k)]
  <2>1. /\ L \in Seq(EntriesAt(p)) /\ Len(L) \in Nat
        /\ \A i \in 1..Len(L) : L[i] \in EntriesAt(p)
        /\ Range(L) = {L[i] : i \in 1..Len(L)}
    <3>1. L \in Seq(EntriesAt(p))
      BY <1>0, <1>2, <1>6, StateIs
    <3> HIDE DEF L
    <3>2. /\ Len(L) \in Nat /\ DOMAIN L = 1..Len(L)
          /\ \A i \in 1..Len(L) : L[i] \in EntriesAt(p)
      BY <3>1, LenProperties, ElementOfSeq
    <3>3. Range(L) = {L[i] : i \in 1..Len(L)}
      BY <3>2 DEF Range
    <3> QED
      BY <3>1, <3>2, <3>3
  <2>2. g \in Emptying(U, g, p, 0)
    <3>1. {L[i] : i \in 1..0} = {}
      OBVIOUS
    <3>2. Range(L) = Range(L) \ {L[i] : i \in 1..0}
      BY <3>1
    <3> QED
      BY <1>2, <1>4, <1>6, <3>2 DEF Emptying
  <2>3. ASSUME NEW k \in 1..Len(L), NEW x \in Emptying(U, g, p, k - 1)
        PROVE  h[L[k]][x] \in Emptying(U, g, p, k)
    <3>1. x \in Whole(U) /\ x \in States /\ L[k] \in EntriesAt(p)
      BY <2>1, WholeStates DEF Emptying
    <3>2. CASE x.out = "ok"
      <4>1. h[L[k]][x] = rmFile(x, p, L[k])
        BY <1>3, <3>1, <3>2, FlatIs
      <4>2. rmFile(x, p, L[k]) \in Emptying(U, g, p, k)
        BY <1>2, <1>4, <1>6, <3>2, RmFileEmpties
      <4> QED
        BY <4>1, <4>2
    <3>3. CASE x.out # "ok"
      BY <1>3, <3>1, <3>3 DEF Emptying
    <3> QED
      BY <3>2, <3>3
  <2>4. /\ J[0] = Emptying(U, g, p, 0) /\ J[Len(L)] = Emptying(U, g, p, Len(L))
        /\ \A k \in 1..Len(L) : J[k] = Emptying(U, g, p, k) /\ J[k - 1] = Emptying(U, g, p, k - 1)
    BY <2>1
  <2>5. Loop(EntriesAt(p), States, h, g, L)
    BY <1>1, <1>2, <1>6
  <2> HIDE DEF J
  <2>6. Each(h, g, L) \in J[Len(L)] \cap States
    <3> HIDE DEF L
    <3>1. \A k \in 1..Len(L) : \A x \in J[k - 1] \cap States : h[L[k]][x] \in J[k]
      BY <2>3, <2>4
    <3>2. g \in J[0]
      BY <2>2, <2>4
    <3> QED
      BY <2>5, <3>1, <3>2, LoopCounts
  <2>7. /\ u \in Whole(U) /\ u \in States /\ u.dir[p] # NoDir
        /\ u.out = "ok" => Range(u.dir[p]) = {}
        /\ s \in Kept => u.out = "ok"
    <3>1. u \in Emptying(U, g, p, Len(L))
      BY <2>4, <2>6 DEF u
    <3>2. Range(L) \ {L[i] : i \in 1..Len(L)} = {}
      BY <2>1
    <3> QED
      BY <1>4, <3>1, <3>2, WholeStates DEF Emptying
  <2>8. u.out = "ok" => RemoveInode(u, p) \in Whole(U) /\ RemoveInode(u, p).out = "ok"
    BY <2>7, EmptyDirGoes
  <2> QED
    BY <1>1, <1>2, <1>6, <2>7, <2>8 DEF t
<1> QED
  BY <1>5, <1>6

\* moveFile moves the meta of a file that is there.
LEMMA MoveFileIs ==
    ASSUME NEW s \in States, NEW p \in FilePaths, NEW q \in FilePaths
    PROVE  LET t == moveFile(s, p, q)
           IN  /\ t \in States
               /\ s.meta[p] \in Blobs =>
                     /\ SameDirs(s, t) /\ t.live = s.live /\ t.out = s.out
                     /\ \A f \in FilePaths : t.meta[f] = IF f = p THEN Deleted
                                                         ELSE IF f = q THEN s.meta[p]
                                                         ELSE s.meta[f]
<1> DEFINE t == moveFile(s, p, q)
           m == [[s.meta EXCEPT ![q] = s.meta[p]] EXCEPT ![p] = Deleted]
<1>1. CASE s.meta[p] = Absent
  BY <1>1, FailIs, MarksAreNoValues DEF moveFile
<1>2. CASE s.meta[p] = Deleted
  BY <1>2, MarksAreNoValues DEF moveFile
<1>3. CASE s.meta[p] # Absent /\ s.meta[p] # Deleted
  <2>1. t = [dir |-> s.dir, meta |-> m, live |-> s.live, dirMap |-> s.dirMap,
             fileMap |-> s.fileMap, out |-> s.out]
    <3>1. t = [s EXCEPT !.meta = m]
      BY <1>3, StateIs DEF moveFile
    <3> HIDE DEF m, t
    <3> QED
      BY <3>1, StateIs
  <2>2. /\ m \in [FilePaths -> Blobs \cup {Absent, Deleted}]
        /\ \A f \in FilePaths : m[f] = IF f = p THEN Deleted
                                       ELSE IF f = q THEN s.meta[p] ELSE s.meta[f]
    BY StateIs
  <2> HIDE DEF m, t
  <2>3. t \in States
    BY <2>1, <2>2, StateIs, StateOf
  <2>4. t.dir = s.dir /\ t.dirMap = s.dirMap /\ t.live = s.live /\ t.meta = m /\ t.out = s.out
    BY <2>1
  <2> QED
    BY <2>2, <2>3, <2>4 DEF SameDirs, t
<1> QED
  BY <1>1, <1>2, <1>3

MapStep(g, old) ==
    [new \in DirPaths |-> [s \in States |->
        IF old \in s.dirMap THEN Each(mapEntries(g, old, new), s, s.dir[old]) ELSE Panic(s)]]

\* mapChildrenToNewPath of a directory of files does not depend on that of others.
LEMMA MapLooksDown ==
    ASSUME MaxDepth = 1, NEW g, NEW h, NEW old \in DirPaths,
           old = <<>> => \A p \in DirPaths : p # <<>> => g[p] = h[p]
    PROVE  MapStep(g, old) = MapStep(h, old)
<1>1. \A e \in EntriesAt(old) : e[1] # "F" => g[Append(old, e[2])] = h[Append(old, e[2])]
  <2>1. CASE old = <<>>
    BY <2>1, EntriesAre, DirPathsGrow
  <2>2. CASE old # <<>>
    BY <2>2, FlatIs
  <2> QED
    BY <2>1, <2>2
<1>2. \A new \in DirPaths : mapEntries(g, old, new) = mapEntries(h, old, new)
  BY <1>1 DEF mapEntries, Then
<1> QED
  BY <1>2 DEF MapStep

\* Its recursion is what its equation says.
LEMMA MapUnfolds ==
    ASSUME MaxDepth = 1, NEW old \in DirPaths
    PROVE  mapChildren[old] = MapStep(mapChildren, old)
<1> DEFINE f1 == [p \in DirPaths |-> MapStep(0, p)]
           f == [p \in DirPaths |-> MapStep(f1, p)]
<1>1. \A p \in DirPaths : p # <<>> => f[p] = f1[p]
  <2>1. ASSUME NEW p \in DirPaths, p # <<>>
        PROVE  f[p] = f1[p]
    <3>1. f[p] = MapStep(f1, p) /\ f1[p] = MapStep(0, p)
      OBVIOUS
    <3> HIDE DEF f, f1
    <3>2. MapStep(f1, p) = MapStep(0, p)
      BY <2>1, MapLooksDown
    <3> QED
      BY <3>1, <3>2
  <2> QED
    BY <2>1
<1>2. \A p \in DirPaths : MapStep(f1, p) = MapStep(f, p)
  <2> HIDE DEF f, f1
  <2> QED
    BY <1>1, MapLooksDown
<1>3. f = [p \in DirPaths |-> MapStep(f, p)]
  <2> HIDE DEF f1
  <2>1. \A p \in DirPaths : f[p] = MapStep(f1, p)
    OBVIOUS
  <2>2. f = [p \in DirPaths |-> f[p]]
    OBVIOUS
  <2> HIDE DEF f
  <2> QED
    BY <1>2, <2>1, <2>2
<1> HIDE DEF f
<1>4. mapChildren = [p \in DirPaths |-> MapStep(mapChildren, p)]
  BY <1>3, Zenon DEF mapChildren, MapStep
<1> QED
  BY <1>4, Zenon

\* The metas of some of the files of a directory are those of another.
MetasMoved(s, t, old, new, moved) ==
    \A f \in FilePaths :
        t.meta[f] = IF FileEntry(Last(f)) \in moved /\ Parent(f) = old THEN Deleted
                    ELSE IF FileEntry(Last(f)) \in moved /\ Parent(f) = new
                         THEN s.meta[Append(old, Last(f))]
                    ELSE s.meta[f]

Moving(s, old, new, n) ==
    {x \in States :
        /\ x.out = "ok" /\ SameDirs(s, x) /\ x.live = s.live
        /\ MetasMoved(s, x, old, new, {s.dir[old][i] : i \in 1..n})}

LEMMA MoveOneMore ==
    ASSUME NEW U \in SUBSET Strays,
           MaxDepth = 1, NEW old \in DirPaths, old # <<>>, NEW new \in DirPaths, old # new,
           NEW s \in Whole(U), s.dir[old] # NoDir,
           NEW k \in 1..Len(s.dir[old]), NEW x \in Moving(s, old, new, k - 1)
    PROVE  LET e == s.dir[old][k]
           IN  moveFile(x, Append(old, e[2]), Append(new, e[2])) \in Moving(s, old, new, k)
<1> DEFINE L == s.dir[old]
           e == L[k]
           p == Append(old, e[2])
           q == Append(new, e[2])
           t == moveFile(x, p, q)
           before == {L[i] : i \in 1..(k - 1)}
           after == {L[i] : i \in 1..k}
<1>1. Exact(L, Children(U, s, old))
  BY WholeStates
<1>2. /\ L \in Seq(Entries) /\ Len(L) \in Nat /\ e \in EntriesAt(old)
      /\ \A i \in 1..Len(L) : L[i] = e => i = k
      /\ e \in Children(U, s, old)
  <2>1. L \in Seq(Entries) /\ Range(L) = Children(U, s, old) /\ Once(L, e)
    BY <1>1 DEF Exact
  <2>2. Len(L) \in Nat /\ DOMAIN L = 1..Len(L) /\ e \in Range(L)
    BY <2>1, ListIs
  <2>3. e \in EntriesAt(old)
    BY <2>1, <2>2 DEF Children
  <2> QED
    BY <2>1, <2>2, <2>3 DEF Once
<1>3. after = before \cup {e} /\ e \notin before
  <2>1. 1..k = (1..(k - 1)) \cup {k} /\ \A i \in 1..(k - 1) : i \in 1..Len(L) /\ i # k
    BY <1>2
  <2> QED
    BY <1>2, <2>1
<1>4. e[1] = "F" /\ e[2] \in AllFileNames /\ e = FileEntry(e[2])
  BY <1>2, FlatIs
<1>5. s.meta[p] \in Blobs
  BY <1>2, <1>4 DEF Children, There
<1> HIDE DEF e, before, after
<1>6. /\ p \in FilePaths /\ Parent(p) = old /\ Last(p) = e[2]
      /\ q \in FilePaths /\ Parent(q) = new /\ Last(q) = e[2]
      /\ \A f \in FilePaths : /\ f = p <=> Parent(f) = old /\ FileEntry(Last(f)) = e
                              /\ f = q <=> Parent(f) = new /\ FileEntry(Last(f)) = e
  <2>1. /\ p \in FilePaths /\ Parent(p) = old /\ Last(p) = e[2]
        /\ q \in FilePaths /\ Parent(q) = new /\ Last(q) = e[2]
    BY <1>4, FilePathsAre
  <2>2. \A f \in FilePaths : FileEntry(Last(f)) = e => Last(f) = e[2]
    BY <1>4 DEF FileEntry
  <2>3. \A f \in FilePaths : f = Append(Parent(f), Last(f))
    BY FilePathsEnd
  <2> QED
    BY <1>4, <2>1, <2>2, <2>3
<1> HIDE DEF p, q, t
<1>7. /\ x \in States /\ x.out = "ok" /\ SameDirs(s, x) /\ x.live = s.live
      /\ MetasMoved(s, x, old, new, before)
  BY DEF Moving, before
<1>8. x.meta[p] = s.meta[p]
  <2>1. FileEntry(Last(p)) \notin before
    BY <1>3, <1>4, <1>6
  <2> QED
    BY <1>6, <1>7, <2>1 DEF MetasMoved
<1>9. /\ t \in States /\ SameDirs(x, t) /\ t.live = x.live /\ t.out = x.out
      /\ \A f \in FilePaths : t.meta[f] = IF f = p THEN Deleted
                                          ELSE IF f = q THEN s.meta[p] ELSE x.meta[f]
  BY <1>5, <1>6, <1>7, <1>8, MoveFileIs DEF t
<1>10. ASSUME NEW f \in FilePaths
       PROVE  t.meta[f] = IF FileEntry(Last(f)) \in after /\ Parent(f) = old THEN Deleted
                          ELSE IF FileEntry(Last(f)) \in after /\ Parent(f) = new
                               THEN s.meta[Append(old, Last(f))]
                          ELSE s.meta[f]
  <2>1. x.meta[f] = IF FileEntry(Last(f)) \in before /\ Parent(f) = old THEN Deleted
                    ELSE IF FileEntry(Last(f)) \in before /\ Parent(f) = new
                         THEN s.meta[Append(old, Last(f))]
                    ELSE s.meta[f]
    BY <1>7 DEF MetasMoved
  <2>2. CASE f = p
    BY <1>3, <1>6, <1>9, <2>2
  <2>3. CASE f = q
    <3>1. Append(old, Last(f)) = p
      BY <1>6, <2>3 DEF p
    <3> QED
      BY <1>3, <1>6, <1>9, <2>3, <3>1
  <2>4. CASE f # p /\ f # q
    <3>1. /\ FileEntry(Last(f)) \in after /\ Parent(f) = old
              <=> FileEntry(Last(f)) \in before /\ Parent(f) = old
          /\ FileEntry(Last(f)) \in after /\ Parent(f) = new
              <=> FileEntry(Last(f)) \in before /\ Parent(f) = new
      BY <1>3, <1>6, <2>4
    <3> QED
      BY <1>9, <2>1, <2>4, <3>1
  <2> QED
    BY <2>2, <2>3, <2>4
<1>11. MetasMoved(s, t, old, new, after)
  BY <1>10 DEF MetasMoved
<1>12. SameDirs(s, t) /\ t.out = "ok" /\ t.live = s.live
  BY <1>7, <1>9 DEF SameDirs
<1> QED
  BY <1>9, <1>11, <1>12 DEF Moving, after, t, p, q, e

\* mapChildrenToNewPath moves the metas of all the files of a directory.
LEMMA ChildrenAreMoved ==
    ASSUME NEW U \in SUBSET Strays,
           MaxDepth = 1, NEW old \in DirPaths, old # <<>>, NEW new \in DirPaths, old # new,
           NEW s \in Whole(U), s.out = "ok", s.dir[old] # NoDir, old \in s.dirMap
    PROVE  LET t == mapChildrenToNewPath(s, old, new)
           IN  /\ t \in States /\ t.out = "ok" /\ SameDirs(s, t) /\ t.live = s.live
               /\ MetasMoved(s, t, old, new, Range(s.dir[old]))
<1> DEFINE L == s.dir[old]
           h == mapEntries(mapChildren, old, new)
           t == mapChildrenToNewPath(s, old, new)
           J == [k \in 0..Len(L) |-> Moving(s, old, new, k)]
<1>0. s \in States
  BY WholeStates
<1>1. t = Each(h, s, L)
  <2>1. t = MapStep(mapChildren, old)[new][s]
    BY MapUnfolds DEF mapChildrenToNewPath
  <2> HIDE DEF t
  <2> QED
    BY <1>0, <2>1 DEF MapStep
<1>2. /\ L \in Seq(EntriesAt(old)) /\ Len(L) \in Nat
      /\ \A i \in 1..Len(L) : L[i] \in EntriesAt(old)
      /\ Range(L) = {L[i] : i \in 1..Len(L)}
  <2>1. L \in Seq(EntriesAt(old))
    BY <1>0, StateIs
  <2> HIDE DEF L
  <2>2. /\ Len(L) \in Nat /\ DOMAIN L = 1..Len(L)
        /\ \A i \in 1..Len(L) : L[i] \in EntriesAt(old)
    BY <2>1, LenProperties, ElementOfSeq
  <2>3. Range(L) = {L[i] : i \in 1..Len(L)}
    BY <2>2 DEF Range
  <2> QED
    BY <2>1, <2>2, <2>3
<1>3. ASSUME NEW e \in EntriesAt(old), NEW x \in States
      PROVE  /\ h[e][x] = IF x.out # "ok" THEN x
                          ELSE moveFile(x, Append(old, e[2]), Append(new, e[2]))
             /\ h[e][x] \in States
  <2>1. e[1] = "F" /\ e[2] \in AllFileNames
    BY FlatIs
  <2>2. h[e][x] = IF x.out # "ok" THEN x
                  ELSE moveFile(x, Append(old, e[2]), Append(new, e[2]))
    BY <2>1 DEF mapEntries, Then
  <2>3. moveFile(x, Append(old, e[2]), Append(new, e[2])) \in States
    BY <2>1, FilePathsAre, MoveFileIs
  <2> HIDE DEF h
  <2> QED
    BY <2>2, <2>3
<1>4. Loop(EntriesAt(old), States, h, s, L)
  <2>1. h = [e \in EntriesAt(old) |-> [x \in States |-> h[e][x]]]
    BY DEF mapEntries
  <2> HIDE DEF h
  <2>2. h \in [EntriesAt(old) -> [States -> States]]
    BY <1>3, <2>1
  <2> QED
    BY <1>0, <1>2, <2>2 DEF Loop
<1> HIDE DEF h, t
<1>5. s \in Moving(s, old, new, 0)
  <2> DEFINE none == {L[i] : i \in 1..0}
  <2>1. none = {}
    OBVIOUS
  <2> HIDE DEF none
  <2>2. MetasMoved(s, s, old, new, none)
    BY <2>1 DEF MetasMoved
  <2> QED
    BY <1>0, <2>2 DEF Moving, SameDirs, none
<1>6. ASSUME NEW k \in 1..Len(L), NEW x \in Moving(s, old, new, k - 1)
      PROVE  h[L[k]][x] \in Moving(s, old, new, k)
  <2>1. x \in States /\ x.out = "ok" /\ L[k] \in EntriesAt(old)
    BY <1>2 DEF Moving
  <2>2. h[L[k]][x] = moveFile(x, Append(old, L[k][2]), Append(new, L[k][2]))
    BY <1>3, <2>1
  <2> QED
    BY <2>2, MoveOneMore
<1>7. /\ J[0] = Moving(s, old, new, 0) /\ J[Len(L)] = Moving(s, old, new, Len(L))
      /\ \A k \in 1..Len(L) : J[k] = Moving(s, old, new, k) /\ J[k - 1] = Moving(s, old, new, k - 1)
  BY <1>2
<1> HIDE DEF J
<1>8. Each(h, s, L) \in J[Len(L)] \cap States
  <2> HIDE DEF L
  <2>1. \A k \in 1..Len(L) : \A x \in J[k - 1] \cap States : h[L[k]][x] \in J[k]
    BY <1>6, <1>7
  <2>2. s \in J[0]
    BY <1>5, <1>7
  <2> QED
    BY <1>4, <2>1, <2>2, LoopCounts
<1>9. t \in Moving(s, old, new, Len(L))
  BY <1>1, <1>7, <1>8
<1> QED
  BY <1>2, <1>9 DEF Moving, t

\* A directory of files has another name.
DirRenamed(s, t, old, new) ==
    /\ MetasMoved(s, t, old, new, Range(s.dir[old]))
    /\ \A q \in DirPaths :
          t.dir[q] = IF q = old THEN NoDir
                     ELSE IF q = new THEN s.dir[old]
                     ELSE IF q = <<>> THEN Append(Without(s.dir[q], DirEntry(Last(old))),
                                                  DirEntry(Last(new)))
                     ELSE s.dir[q]

\* A file that comes to where an unlisted one is takes its place.
Remaining(U, s, old, new) == {x \in U : ~(x[1] = new /\ x[2] \in Range(s.dir[old]))}

LEMMA DirRenamedIsWhole ==
    ASSUME NEW U \in SUBSET Strays,
           MaxDepth = 1, NEW old \in DirPaths, old # <<>>, NEW new \in DirPaths, new # <<>>,
           NEW s \in Whole(U), NEW t \in States, s.dir[old] # NoDir, s.dir[new] = NoDir,
           DirRenamed(s, t, old, new)
    PROVE  t \in Whole(Remaining(U, s, old, new))
<1> DEFINE W == Remaining(U, s, old, new)
           L == s.dir[old]
           from == DirEntry(Last(old))
           to == DirEntry(Last(new))
           root == <<>>
           left == Append(Without(s.dir[root], from), to)
<1>1. /\ root \in DirPaths /\ root # old /\ root # new /\ old # new
      /\ from \in EntriesAt(root) /\ to \in EntriesAt(root) /\ to \in Entries
      /\ from[1] = "D" /\ to[1] = "D" /\ from # to
      /\ Append(root, from[2]) = old /\ Append(root, to[2]) = new
  <2>1. /\ root \in DirPaths /\ from \in EntriesAt(root) /\ to \in EntriesAt(root)
        /\ old = Append(root, Last(old)) /\ new = Append(root, Last(new))
    BY FlatIs
  <2>2. from[1] = "D" /\ to[1] = "D" /\ from[2] = Last(old) /\ to[2] = Last(new)
    BY DEF DirEntry
  <2>3. to \in Entries
    BY <2>1, EntriesFit
  <2> QED
    BY <2>1, <2>2, <2>3
<1>2. /\ \A f \in FilePaths :
            t.meta[f] = IF FileEntry(Last(f)) \in Range(L) /\ Parent(f) = old THEN Deleted
                        ELSE IF FileEntry(Last(f)) \in Range(L) /\ Parent(f) = new
                             THEN s.meta[Append(old, Last(f))]
                        ELSE s.meta[f]
      /\ \A q \in DirPaths : t.dir[q] = IF q = old THEN NoDir
                                        ELSE IF q = new THEN L
                                        ELSE IF q = root THEN left
                                        ELSE s.dir[q]
  BY DEF DirRenamed, MetasMoved
<1>3. \A q \in DirPaths : \A e \in EntriesAt(q) :
         e[1] = "D" => /\ Append(q, e[2]) = old <=> q = root /\ e = from
                       /\ Append(q, e[2]) = new <=> q = root /\ e = to
                       /\ Append(q, e[2]) # root /\ Append(q, e[2]) \in DirPaths
  <2>1. Parent(old) = root /\ Parent(new) = root
    BY FlatIs
  <2>2. \A q \in DirPaths : \A e \in EntriesAt(q) :
           e[1] = "D" => e[2] \in DirNames /\ Append(q, e[2]) \in DirPaths
    BY EntriesAre
  <2>3. \A q \in DirPaths : \A n \in DirNames : Append(q, n) # root
    BY DirPathsGrow
  <2> QED
    BY <2>1, <2>2, <2>3, EntryOfDir
<1>4. \A q \in DirPaths : \A e \in EntriesAt(q) :
         e[1] # "D" => /\ Append(q, e[2]) \in FilePaths /\ Parent(Append(q, e[2])) = q
                       /\ Last(Append(q, e[2])) = e[2] /\ FileEntry(e[2]) = e
  <2> SUFFICES ASSUME NEW q \in DirPaths, NEW e \in EntriesAt(q), e[1] # "D"
               PROVE  /\ Append(q, e[2]) \in FilePaths /\ Parent(Append(q, e[2])) = q
                      /\ Last(Append(q, e[2])) = e[2] /\ FileEntry(e[2]) = e
    OBVIOUS
  <2>1. e[2] \in AllFileNames /\ FileEntry(e[2]) = e
    BY EntriesAre
  <2> QED
    BY <2>1, FilePathsAre
<1>5. /\ Range(L) = Children(U, s, old) /\ Exact(L, Children(U, s, old))
      /\ s.dir[root] # NoDir /\ Exact(s.dir[root], Children(U, s, root))
      /\ Children(U, s, new) = {}
  BY <1>1, WholeStates DEF Exact
<1>6. \A e \in EntriesAt(old) \cup EntriesAt(new) : e[1] = "F" /\ e \in EntriesAt(old)
  <2>1. \A e \in EntriesAt(new) : e[2] \in AllFileNames /\ e = FileEntry(e[2]) /\ e[1] = "F"
    BY FlatIs
  <2>2. \A e \in EntriesAt(old) : e[1] = "F"
    BY FlatIs
  <2>3. \A n \in AllFileNames : FileEntry(n) \in EntriesAt(old)
    BY EntriesFit
  <2> QED
    BY <2>1, <2>2, <2>3
<1>7. \A e \in EntriesAt(old) : e \in EntriesAt(new)
  <2>1. \A e \in EntriesAt(old) : e[2] \in AllFileNames /\ e = FileEntry(e[2])
    BY FlatIs
  <2>2. \A n \in AllFileNames : FileEntry(n) \in EntriesAt(new)
    BY EntriesFit
  <2> QED
    BY <2>1, <2>2
<1> HIDE DEF root, from, to, L
<1>8. Exact(left, (Children(U, s, root) \ {from}) \cup {to})
  <2>1. Exact(Without(s.dir[root], from), Children(U, s, root) \ {from})
    BY <1>5, ExactIs
  <2>2. ~There(s, root, to)
    BY <1>1 DEF There
  <2>3. to \notin Children(U, s, root) \ {from}
    BY <2>2 DEF Children
  <2> QED
    BY <1>1, <2>1, <2>3, ExactIs
<1> HIDE DEF left
<1>9. /\ left # NoDir /\ L # NoDir
      /\ \A q \in DirPaths : t.dir[q] # NoDir <=> (s.dir[q] # NoDir \/ q = new) /\ q # old
  <2>1. left # NoDir /\ L # NoDir
    BY <1>5, <1>8, ExactIs
  <2> QED
    BY <1>1, <1>2, <1>5, <2>1
<1>10. ASSUME NEW q \in DirPaths, NEW e \in EntriesAt(q), e[1] = "D"
       PROVE  There(t, q, e) <=> \/ q = root /\ e = to
                                 \/ There(s, q, e) /\ ~(q = root /\ e = from)
  <2> DEFINE c == Append(q, e[2])
  <2>1. /\ c = old <=> q = root /\ e = from
        /\ c = new <=> q = root /\ e = to
        /\ c \in DirPaths
    BY <1>3, <1>10
  <2>2. /\ There(t, q, e) <=> t.dir[c] # NoDir
        /\ There(s, q, e) <=> s.dir[c] # NoDir
    BY <1>10 DEF There
  <2> HIDE DEF c
  <2> QED
    BY <1>1, <1>9, <2>1, <2>2
<1>11. \A q \in DirPaths : \A e \in EntriesAt(q) :
          /\ <<q, e>> \in W <=> <<q, e>> \in U /\ ~(q = new /\ e \in Range(L))
          /\ e[1] = "D" => <<q, e>> \notin U /\ <<q, e>> \notin W
  BY DEF W, L, Remaining, Strays
<1> HIDE DEF W
<1>12. ASSUME NEW q \in DirPaths, NEW e \in EntriesAt(q), e[1] # "D"
       PROVE  e \in Children(W, t, q) <=> IF q = old THEN FALSE
                                          ELSE IF q = new THEN e \in Children(U, s, old)
                                          ELSE e \in Children(U, s, q)
  <2> DEFINE c == Append(q, e[2])
  <2>1. c \in FilePaths /\ Parent(c) = q /\ Last(c) = e[2] /\ FileEntry(e[2]) = e
    BY <1>4, <1>12
  <2>2. /\ There(t, q, e) <=> t.meta[c] \in Blobs
        /\ There(s, q, e) <=> s.meta[c] \in Blobs
    BY <1>12 DEF There
  <2>3. There(s, old, e) <=> s.meta[Append(old, e[2])] \in Blobs
    BY <1>12 DEF There
  <2>4. /\ e \in Children(W, t, q) <=> There(t, q, e) /\ <<q, e>> \notin W
        /\ e \in Children(U, s, q) <=> There(s, q, e) /\ <<q, e>> \notin U
    BY DEF Children
  <2> HIDE DEF c
  <2>5. CASE e \in Range(L)
    <3>1. There(s, old, e) /\ e \in Children(U, s, old)
      BY <1>5, <2>5 DEF Children
    <3> QED
      BY <1>1, <1>2, <1>5, <1>11, <2>1, <2>2, <2>3, <2>4, <2>5, <3>1, MarksAreNoValues
  <2>6. CASE e \notin Range(L)
    <3>1. t.meta[c] = s.meta[c]
      BY <1>2, <2>1, <2>6
    <3>2. e \in Children(W, t, q) <=> e \in Children(U, s, q)
      BY <1>11, <2>2, <2>4, <2>6, <3>1
    <3> QED
      BY <1>5, <2>6, <3>2
  <2> QED
    BY <2>5, <2>6
<1>13. ASSUME NEW q \in DirPaths, NEW e \in EntriesAt(q), e[1] = "D"
       PROVE  /\ e \in Children(W, t, q) <=> There(t, q, e)
              /\ e \in Children(U, s, q) <=> There(s, q, e)
  BY <1>11, <1>13 DEF Children
<1>14. /\ Children(W, t, old) = {} /\ Children(W, t, new) = Children(U, s, old)
       /\ Children(W, t, root) = (Children(U, s, root) \ {from}) \cup {to}
       /\ \A q \in DirPaths : q \notin {old, new, root} => Children(W, t, q) = Children(U, s, q)
  <2>0. \A q \in DirPaths : \A V, x : Children(V, x, q) \subseteq EntriesAt(q)
    BY DEF Children
  <2>1. Children(W, t, old) = {}
    BY <1>6, <1>12, <2>0
  <2>2. Children(W, t, new) = Children(U, s, old)
    BY <1>1, <1>6, <1>7, <1>12, <2>0
  <2>3. Children(W, t, root) = (Children(U, s, root) \ {from}) \cup {to}
    BY <1>1, <1>10, <1>12, <1>13, <2>0
  <2>4. ASSUME NEW q \in DirPaths, q \notin {old, new, root}
        PROVE  Children(W, t, q) = Children(U, s, q)
    BY <1>10, <1>12, <1>13, <2>0, <2>4
  <2> QED
    BY <2>1, <2>2, <2>3, <2>4
<1>15. ASSUME NEW q \in DirPaths
       PROVE  ListsItsChildren(W, t, q)
  <2>1. CASE q = old
    BY <1>2, <1>14, <2>1 DEF ListsItsChildren
  <2>2. CASE q = new
    BY <1>1, <1>2, <1>5, <1>9, <1>14, <2>2 DEF ListsItsChildren
  <2>3. CASE q = root
    BY <1>1, <1>2, <1>8, <1>9, <1>14, <2>3 DEF ListsItsChildren
  <2>4. CASE q \notin {old, new, root}
    BY <1>2, <1>14, <2>4, WholeStates DEF ListsItsChildren
  <2> QED
    BY <2>1, <2>2, <2>3, <2>4
<1>16. t.dir[<<>>] # NoDir
  <2>1. t.dir[root] # NoDir
    BY <1>1, <1>2, <1>9
  <2> QED
    BY <2>1 DEF root
<1> QED
  BY <1>15, <1>16 DEF Whole, W

\* A sync caches, and stores nothing.
LEMMA SyncChangesNothing ==
    ASSUME NEW s \in States, s.out # "error", NEW p \in DirPaths
    PROVE  LET t == SyncDirectory(s, p)
           IN  t \in States /\ Unchanged(s, t) /\ t.out # "error"
<1> DEFINE J == {x \in States : Unchanged(s, x) /\ x.out # "error"}
<1>1. ASSUME NEW x \in J, NEW q \in DirPaths, GetInode(x, q).out # "error"
      PROVE  GetInode(x, q) \in J
  <2> DEFINE t == GetInode(x, q)
  <2>1. t \in States /\ SameFiles(x, t) /\ t.dir = x.dir
    BY GetInodeIs
  <2> HIDE DEF t
  <2> QED
    BY <1>1, <2>1 DEF Unchanged, SameFiles, t
<1>2. ASSUME NEW x \in J, NEW q \in FilePaths
      PROVE  loadFileMeta(x, q) \in J
  <2> DEFINE t == loadFileMeta(x, q)
  <2>1. t \in States /\ SameDirs(x, t) /\ t.out = x.out /\ t.meta = x.meta /\ t.live = x.live
    BY LoadFileMetaIs
  <2> HIDE DEF t
  <2> QED
    BY <2>1 DEF Unchanged, SameDirs, t
<1>3. SyncKeeps(J) /\ s \in J
  BY <1>1, <1>2 DEF SyncKeeps, Unchanged
<1>4. SyncDirectory(s, p) \in J
  <2> HIDE DEF J
  <2> QED
    BY <1>3, SyncIs
<1> QED
  BY <1>4

\* The inode of one directory becomes another's, in the directory both are in.
LEMMA RelistedIs ==
    ASSUME MaxDepth = 1, NEW old \in DirPaths, old # <<>>, NEW new \in DirPaths, new # <<>>,
           NEW s \in States, s.out = "ok",
           s.dir[old] # NoDir, s.dir[new] = NoDir, s.dir[<<>>] # NoDir
    PROVE  LET t == DropInode([s EXCEPT !.dir[new] = s.dir[old]], old)
               u == RemoveEntryFromDir(t, Parent(old), DirEntry(Last(old)))
               v == AddEntryToDir(u, Parent(new), DirEntry(Last(new)))
           IN  /\ t.out = "ok" /\ u.out = "ok"
               /\ v \in States /\ v.out = "ok" /\ SameFiles(s, v)
               /\ \A q \in DirPaths :
                     v.dir[q] = IF q = old THEN NoDir
                                ELSE IF q = new THEN s.dir[old]
                                ELSE IF q = <<>> THEN Append(Without(s.dir[q], DirEntry(Last(old))),
                                                             DirEntry(Last(new)))
                                ELSE s.dir[q]
<1> DEFINE L == s.dir[old]
           from == DirEntry(Last(old))
           to == DirEntry(Last(new))
           root == <<>>
           d == [s.dir EXCEPT ![new] = L]
           c == [s EXCEPT !.dir[new] = s.dir[old]]
           t == DropInode(c, old)
           u == RemoveEntryFromDir(t, root, from)
           v == AddEntryToDir(u, root, to)
<1>1. /\ root \in DirPaths /\ root # old /\ root # new /\ old # new
      /\ to \in EntriesAt(root) /\ Parent(old) = root /\ Parent(new) = root
  BY FlatIs
<1> HIDE DEF root, from, to
<1>2. L \in Seq(EntriesAt(new)) /\ L \in Seq(Entries) /\ L # NoDir
  <2>1. L \in Seq(EntriesAt(old))
    BY StateIs
  <2>2. EntriesAt(old) \subseteq EntriesAt(new)
    <3>1. \A e \in EntriesAt(old) : e[2] \in AllFileNames /\ e = FileEntry(e[2])
      BY FlatIs
    <3>2. \A n \in AllFileNames : FileEntry(n) \in EntriesAt(new)
      BY EntriesFit
    <3> QED
      BY <3>1, <3>2
  <2>3. L \in Seq(EntriesAt(new))
    <3> HIDE DEF L
    <3> QED
      BY <2>1, <2>2, SeqMonotonic
  <2> QED
    BY <2>3, EntriesFit
<1>3. c = [dir |-> d, meta |-> s.meta, live |-> s.live, dirMap |-> s.dirMap,
           fileMap |-> s.fileMap, out |-> s.out]
  <2>1. c = [s EXCEPT !.dir = d]
    BY StateIs
  <2> HIDE DEF d, c
  <2> QED
    BY <2>1, StateIs
<1>4. /\ d \in [DirPaths -> {NoDir} \cup Seq(Entries)]
      /\ \A q \in DirPaths : d[q] = IF q = new THEN L ELSE s.dir[q]
  BY <1>2, StateIs
<1> HIDE DEF d, L
<1>5. c \in States /\ c.dir = d /\ SameFiles(s, c) /\ c.out = "ok"
  <2> HIDE DEF c
  <2>1. /\ \A q \in DirPaths : d[q] # NoDir => d[q] \in Seq(EntriesAt(q))
        /\ \A q \in s.dirMap : d[q] # NoDir
    BY <1>2, <1>4, StateIs
  <2>2. c \in States
    BY <1>3, <1>4, <2>1, StateIs, StateOf
  <2> QED
    BY <1>3, <2>2 DEF SameFiles
<1> HIDE DEF c
<1>6. t \in States /\ SameFiles(c, t) /\ t.out = "ok" /\ t.dir = [d EXCEPT ![old] = NoDir]
  <2>1. c.dir[old] # NoDir
    BY <1>1, <1>4, <1>5
  <2> QED
    BY <1>5, <2>1, DropInodeIs
<1> HIDE DEF t
<1>7. \A q \in DirPaths : t.dir[q] = IF q = old THEN NoDir ELSE IF q = new THEN L ELSE s.dir[q]
  BY <1>1, <1>4, <1>6
<1>8. /\ u \in States /\ SameFiles(t, u) /\ u.out = "ok"
      /\ u.dir = [t.dir EXCEPT ![root] = Without(t.dir[root], from)]
  <2>1. u \in States /\ SameFiles(t, u) /\ EntryRemoved(t, u, root, from)
    BY <1>1, <1>6, RemoveEntryIs
  <2>2. t.dir[root] # NoDir
    BY <1>1, <1>7 DEF root
  <2> HIDE DEF u
  <2> QED
    BY <2>1, <2>2 DEF EntryRemoved
<1> HIDE DEF u
<1>9. /\ t.dir \in [DirPaths -> {NoDir} \cup Seq(Entries)]
      /\ u.dir \in [DirPaths -> {NoDir} \cup Seq(Entries)]
  BY <1>6, <1>8, StateIs
<1>10. u.dir[root] # NoDir
  <2>1. s.dir[root] \in Seq(Entries)
    BY <1>1, EntriesFit, StateIs DEF root
  <2>2. Without(s.dir[root], from) \in Seq(Entries)
    BY <2>1, WithoutIs
  <2> QED
    BY <1>1, <1>7, <1>8, <1>9, <2>2, MarksAreNoValues
<1>11. /\ v \in States /\ SameFiles(u, v) /\ v.out = "ok"
       /\ v.dir = [u.dir EXCEPT ![root] = Append(u.dir[root], to)]
  <2>1. v \in States /\ SameFiles(u, v) /\ EntryAdded(u, v, root, to)
    BY <1>1, <1>8, AddEntryIs
  <2> HIDE DEF v
  <2> QED
    BY <1>10, <2>1 DEF EntryAdded
<1> HIDE DEF v
<1>12. \A q \in DirPaths : v.dir[q] = IF q = old THEN NoDir
                                      ELSE IF q = new THEN L
                                      ELSE IF q = root THEN Append(Without(s.dir[q], from), to)
                                      ELSE s.dir[q]
  BY <1>1, <1>7, <1>8, <1>9, <1>11
<1>13. SameFiles(s, v)
  BY <1>5, <1>6, <1>8, <1>11 DEF SameFiles
<1> QED
  BY <1>1, <1>6, <1>8, <1>11, <1>12, <1>13 DEF v, u, t, c, L, from, to, root

\* RenameDir of such a tree leaves a whole tree, and one that fails has changed
\* nothing.
LEMMA RenameDirIs ==
    ASSUME NEW U \in SUBSET Strays,
           MaxDepth = 1, NEW old \in DirPaths, old # <<>>, NEW new \in DirPaths, new # <<>>,
           NEW s \in Whole(U), s.out = "ok", s.dir[old] # NoDir
    PROVE  LET t == RenameDir(s, old, new)
           IN  (\E W \in SUBSET U : t \in Whole(W)) /\ (t.out = "error" => Unchanged(s, t))
<1> DEFINE g == GetInode(s, old)
           found == GetInode(g, Parent(old))
           taken == GetInode(found, new)
           there == mapChildrenToNewPath(found, old, new)
           again == GetInode(there, old)
           gone == DropInode([again EXCEPT !.dir[new] = again.dir[old]], old)
           less == RemoveEntryFromDir(gone, Parent(old), DirEntry(Last(old)))
           more == AddEntryToDir(less, Parent(new), DirEntry(Last(new)))
           sync1 == SyncDirectory(more, Parent(old))
           sync2 == SyncDirectory(sync1, Parent(new))
           t == RenameDir(s, old, new)
<1>1. /\ Parent(old) = <<>> /\ Parent(new) = <<>> /\ <<>> \in DirPaths
      /\ s \in States /\ s.dir[<<>>] # NoDir
  BY FlatIs, WholeStates
<1>2. g \in States /\ SameFiles(s, g) /\ g.dir = s.dir /\ g.out = "ok" /\ old \in g.dirMap
  <2>1. /\ g \in States /\ SameFiles(s, g) /\ g.dir = s.dir
        /\ g.dirMap = s.dirMap \cup {old} /\ g.out = s.out
    BY <1>1, GetInodeIs
  <2> HIDE DEF g
  <2> QED
    BY <2>1
<1>3. t = IF found.out # "ok" THEN found
          ELSE IF taken.out = "ok" THEN Fail(taken)
          ELSE IF taken.out = "panic" THEN taken
          ELSE IF there.out = "ok" /\ again.out = "ok" /\ gone.out = "ok" /\ less.out = "ok"
                  /\ more.out = "ok"
               THEN (IF sync1.out = "ok" THEN sync2 ELSE sync1)
               ELSE t
  <2>1. Then(GetInode(s, old), LAMBDA x : GetInode(x, Parent(old))) = found
    BY <1>2 DEF Then
  <2> DEFINE rel == Then(RemoveEntryFromDir(gone, Parent(old), DirEntry(Last(old))),
                         LAMBDA x : AddEntryToDir(x, Parent(new), DirEntry(Last(new))))
             moved == Then(Then(there, LAMBDA x : GetInode(x, old)),
                           LAMBDA x : DropInode([x EXCEPT !.dir[new] = x.dir[old]], old))
             all == Then(Then(moved,
                              LAMBDA x : Then(RemoveEntryFromDir(x, Parent(old), DirEntry(Last(old))),
                                              LAMBDA z : AddEntryToDir(z, Parent(new), DirEntry(Last(new))))),
                         LAMBDA x : Then(SyncDirectory(x, Parent(old)),
                                         LAMBDA z : SyncDirectory(z, Parent(new))))
  <2>2. t = IF found.out # "ok" THEN found
            ELSE IF taken.out = "ok" THEN Fail(taken)
            ELSE IF taken.out = "panic" THEN taken ELSE all
    <3> HIDE DEF found
    <3> QED
      BY <2>1 DEF RenameDir
  <2>3. there.out = "ok" /\ again.out = "ok" => moved = gone
    <3> HIDE DEF there
    <3>1. there.out = "ok" => Then(there, LAMBDA x : GetInode(x, old)) = again
      BY DEF Then
    <3>2. again.out = "ok"
             => Then(again, LAMBDA x : DropInode([x EXCEPT !.dir[new] = x.dir[old]], old)) = gone
      <4> HIDE DEF again
      <4> QED
        BY DEF Then
    <3> QED
      BY <3>1, <3>2
  <2> HIDE DEF t, found, taken, there, again, gone, moved
  <2>4. less.out = "ok" => rel = more
    BY DEF Then
  <2>5. moved = gone /\ gone.out = "ok" /\ less.out = "ok" /\ more.out = "ok"
           => all = IF sync1.out = "ok" THEN sync2 ELSE sync1
    BY <2>4 DEF Then
  <2> HIDE DEF all
  <2> QED
    BY <2>2, <2>3, <2>5
<1>4. /\ found \in States /\ SameFiles(s, found) /\ found.dir = s.dir /\ found.out = "ok"
      /\ old \in found.dirMap
  <2> HIDE DEF g
  <2>1. /\ found \in States /\ SameFiles(g, found) /\ found.dir = g.dir
        /\ found.dirMap = g.dirMap \cup {Parent(old)} /\ found.out = g.out
    BY SMTT(40), <1>1, <1>2, GetInodeIs
  <2> HIDE DEF found
  <2> QED
    BY <1>2, <2>1 DEF SameFiles
<1> HIDE DEF g, found, t
<1>5. found \in Whole(U) /\ Unchanged(s, found)
  BY <1>4, UnchangedIsWhole DEF SameFiles, Unchanged
<1>6. /\ taken \in States /\ SameFiles(found, taken) /\ taken.dir = found.dir
      /\ s.dir[new] # NoDir => taken.out = "ok"
      /\ s.dir[new] = NoDir => taken.out \in {"error", "panic"}
  <2>1. /\ taken \in States /\ SameFiles(found, taken) /\ taken.dir = found.dir
        /\ found.dir[new] # NoDir => taken.out = found.out
        /\ found.dir[new] = NoDir => taken.out \in {"error", "panic"}
    BY <1>4, GetInodeIs
  <2> HIDE DEF taken
  <2> QED
    BY <1>4, <2>1
<1> HIDE DEF taken
<1>7. taken \in Whole(U) /\ Unchanged(s, taken)
  BY <1>4, <1>5, <1>6, UnchangedIsWhole DEF SameFiles, Unchanged
<1>8. Fail(taken) \in Whole(U) /\ Unchanged(s, Fail(taken))
  <2>1. Fail(taken) \in States /\ SameFiles(taken, Fail(taken)) /\ SameDirs(taken, Fail(taken))
    BY <1>6, FailIs
  <2> QED
    BY <1>7, <2>1, UnchangedIsWhole DEF SameFiles, SameDirs, Unchanged
<1>9. CASE taken.out # "error"
  BY <1>3, <1>4, <1>6, <1>7, <1>8, <1>9 DEF t
<1>10. CASE taken.out = "error"
  <2>1. old # new /\ s.dir[new] = NoDir
    BY <1>6, <1>10
  <2>2. /\ there \in States /\ there.out = "ok" /\ SameDirs(found, there)
        /\ MetasMoved(found, there, old, new, Range(found.dir[old]))
    BY <1>4, <1>5, <2>1, ChildrenAreMoved
  <2> HIDE DEF there
  <2>3. /\ again \in States /\ again.out = "ok" /\ SameFiles(there, again) /\ again.dir = s.dir
    <3>1. there.dir = s.dir
      BY <1>4, <2>2 DEF SameDirs
    <3>2. /\ again \in States /\ SameFiles(there, again) /\ again.dir = there.dir
          /\ again.out = there.out
      BY <2>2, <3>1, GetInodeIs
    <3> HIDE DEF again
    <3> QED
      BY <2>2, <3>1, <3>2
  <2> HIDE DEF again
  <2>4. /\ gone.out = "ok" /\ less.out = "ok"
        /\ more \in States /\ more.out = "ok" /\ SameFiles(again, more)
        /\ \A q \in DirPaths :
              more.dir[q] = IF q = old THEN NoDir
                            ELSE IF q = new THEN s.dir[old]
                            ELSE IF q = <<>> THEN Append(Without(s.dir[q], DirEntry(Last(old))),
                                                         DirEntry(Last(new)))
                            ELSE s.dir[q]
    <3>1. again.dir[old] # NoDir /\ again.dir[new] = NoDir /\ again.dir[<<>>] # NoDir
      BY <1>1, <2>1, <2>3
    <3> QED
      BY <2>3, <3>1, RelistedIs
  <2> HIDE DEF gone, less, more
  <2> DEFINE W == Remaining(U, s, old, new)
  <2>5. W \in SUBSET U /\ W \in SUBSET Strays /\ more \in Whole(W)
    <3>1. MetasMoved(s, more, old, new, Range(s.dir[old]))
      BY <1>4, <2>2, <2>3, <2>4 DEF MetasMoved, SameFiles
    <3>2. DirRenamed(s, more, old, new)
      BY <2>4, <3>1 DEF DirRenamed
    <3>3. more \in Whole(W)
      BY <2>1, <2>4, <3>2, DirRenamedIsWhole
    <3> QED
      BY <3>3 DEF Remaining
  <2> HIDE DEF W
  <2>6. sync1 \in States /\ Unchanged(more, sync1) /\ sync1.out # "error"
    BY <1>1, <2>4, SyncChangesNothing
  <2> HIDE DEF sync1
  <2>7. sync2 \in States /\ Unchanged(sync1, sync2) /\ sync2.out # "error"
    BY <1>1, <2>6, SyncChangesNothing
  <2> HIDE DEF sync2
  <2>8. t \in States /\ t.dir = more.dir /\ t.meta = more.meta /\ t.out # "error"
    BY <1>3, <1>4, <1>10, <2>2, <2>3, <2>4, <2>6, <2>7 DEF Unchanged
  <2> QED
    BY <2>5, <2>8, UnchangedIsWhole DEF t
<1> QED
  BY <1>9, <1>10

LEMMA InitIsWhole ==
    ASSUME Init
    PROVE  fs \in Whole({})
<1> DEFINE d == [p \in DirPaths |-> IF p = <<>> THEN <<>> ELSE NoDir]
           m == [p \in FilePaths |-> Absent]
<1>1. fs \in States /\ fs.dir = d /\ fs.meta = m
  <2>1. fs.dir = d /\ fs.meta = m
    BY DEF Init
  <2> HIDE DEF d, m
  <2> QED
    BY <2>1, InitKept DEF Kept
<1> DEFINE root == <<>>
<1>2. root \in DirPaths /\ root # NoDir /\ Exact(root, {})
  BY PathsAre, ExactIs
<1>3. \A p \in DirPaths : fs.dir[p] = IF p = root THEN root ELSE NoDir
  BY <1>1
<1>4. \A p \in FilePaths : fs.meta[p] \notin Blobs
  BY <1>1, MarksAreNoValues
<1> HIDE DEF root
<1>5. ASSUME NEW p \in DirPaths, NEW e \in EntriesAt(p)
      PROVE  ~There(fs, p, e)
  <2>1. CASE e[1] = "D"
    <3>1. e[2] \in DirNames /\ Append(p, e[2]) \in DirPaths
      BY <2>1, EntriesAre
    <3>2. Append(p, e[2]) # root
      BY <3>1, DirPathsGrow DEF root
    <3> QED
      BY <1>3, <2>1, <3>1, <3>2 DEF There
  <2>2. CASE e[1] # "D"
    BY <1>4, <2>2, EntriesAre DEF There
  <2> QED
    BY <2>1, <2>2
<1>6. \A p \in DirPaths : Children({}, fs, p) = {}
  BY <1>5 DEF Children
<1>7. \A p \in DirPaths : ListsItsChildren({}, fs, p)
  BY <1>2, <1>3, <1>6 DEF ListsItsChildren
<1>8. fs.dir[<<>>] # NoDir
  <2>1. fs.dir[root] # NoDir
    BY <1>2, <1>3
  <2> QED
    BY <2>1 DEF root
<1> QED
  BY <1>1, <1>7, <1>8 DEF Whole

\* Where a file is, its directory is.
LEMMA FilesAreInDirs ==
    ASSUME NEW U \in SUBSET Strays,
           NEW s \in Whole(U), NEW d \in DirPaths, NEW n \in AllFileNames,
           s.meta[Append(d, n)] \in Blobs, <<d, FileEntry(n)>> \notin U
    PROVE  s.dir[d] # NoDir
<1>1. FileEntry(n) \in EntriesAt(d) /\ FileEntry(n)[1] # "D" /\ FileEntry(n)[2] = n
  BY EntriesFit DEF FileEntry
<1>2. FileEntry(n) \in Children(U, s, d)
  BY <1>1 DEF Children, There
<1> QED
  BY <1>2, WholeStates

\* Of what calls have left unlisted, what is still there and unlisted is recorded.
LEMMA Pruned ==
    ASSUME NEW A, NEW W \in SUBSET Strays, W \subseteq A, NEW t \in Whole(W),
           \A x \in A : \E p \in DirPaths : \E e \in EntriesAt(p) : x = <<p, e>>,
           NEW left, \A x : x \in left <=> x \in A /\ There(t, x[1], x[2]) /\ ~Listed(t, x[1], x[2])
    PROVE  left \in SUBSET Strays /\ t \in Whole(left)
<1>1. ASSUME NEW p \in DirPaths, NEW e \in EntriesAt(p), There(t, p, e)
      PROVE  Listed(t, p, e) <=> <<p, e>> \notin W
  <2>1. /\ t.dir[p] = NoDir => Children(W, t, p) = {}
        /\ t.dir[p] # NoDir => Range(t.dir[p]) = Children(W, t, p)
    BY WholeStates DEF Exact
  <2>2. e \in Children(W, t, p) <=> <<p, e>> \notin W
    BY <1>1 DEF Children
  <2> QED
    BY <2>1, <2>2 DEF Listed
<1>2. ASSUME NEW p \in DirPaths, NEW e \in EntriesAt(p), There(t, p, e)
      PROVE  <<p, e>> \in left <=> <<p, e>> \in W
  <2> DEFINE x == <<p, e>>
  <2>1. x[1] = p /\ x[2] = e
    OBVIOUS
  <2>2. x \in left <=> x \in A /\ There(t, p, e) /\ ~Listed(t, p, e)
    BY <2>1
  <2> QED
    BY <1>1, <1>2, <2>2
<1>3. left \subseteq W
  <2> SUFFICES ASSUME NEW x \in left
               PROVE  x \in W
    OBVIOUS
  <2>1. PICK p \in DirPaths : \E e \in EntriesAt(p) : x = <<p, e>>
    OBVIOUS
  <2>2. PICK e \in EntriesAt(p) : x = <<p, e>>
    BY <2>1
  <2>3. There(t, p, e)
    BY <2>2
  <2> QED
    BY <1>2, <2>2, <2>3
<1>4. \A p \in DirPaths : Children(left, t, p) = Children(W, t, p)
  BY <1>2 DEF Children
<1>5. t \in Whole(left)
  BY <1>4 DEF Whole, ListsItsChildren
<1> QED
  BY <1>3, <1>5

\* What NoOrphans and EntriesResolve rest on.
WholeInv ==
    /\ unlisted \in SUBSET Strays
    /\ \A x \in unlisted : There(fs, x[1], x[2])
    /\ fs \in Whole(unlisted)

\* What a call did to a whole tree: it is whole again.
Settled(strays) == \E W \in SUBSET Strays : W \subseteq unlisted \cup strays /\ fs' \in Whole(W)

LEMMA SettledIsWhole ==
    ASSUME NEW causes, NEW strays, WholeInv, Leaves(causes, strays), Settled(strays),
           \A x \in strays : \E p \in DirPaths : \E e \in EntriesAt(p) : x = <<p, e>>
    PROVE  WholeInv'
<1> DEFINE A == unlisted \cup strays
<1>1. PICK W \in SUBSET Strays : W \subseteq A /\ fs' \in Whole(W)
  BY DEF Settled
<1>2. \A x \in A : \E p \in DirPaths : \E e \in EntriesAt(p) : x = <<p, e>>
  <2>1. ASSUME NEW x \in unlisted
        PROVE  \E p \in DirPaths : \E e \in EntriesAt(p) : x = <<p, e>>
    <3>1. x \in DirPaths \X Entries /\ x[2] \in EntriesAt(x[1])
      BY DEF WholeInv, Strays
    <3> QED
      BY <3>1
  <2> QED
    BY <2>1
<1>3. unlisted' = {x \in A : There(fs', x[1], x[2]) /\ ~Listed(fs', x[1], x[2])}
  BY DEF Leaves
<1> HIDE DEF A
<1>4. unlisted' \in SUBSET Strays /\ fs' \in Whole(unlisted')
  <2>1. \A x : x \in unlisted'
               <=> x \in A /\ There(fs', x[1], x[2]) /\ ~Listed(fs', x[1], x[2])
    BY <1>3
  <2> QED
    BY <1>1, <1>2, <2>1, Pruned
<1>5. \A x \in unlisted' : There(fs', x[1], x[2])
  BY <1>3
<1> QED
  BY <1>4, <1>5 DEF WholeInv

\* A call that fails has changed nothing, or leaves its mark in the history.
FailsClean ==
    fs \in Kept /\ fs'.out = "error" /\ "backup" \notin past' /\ unlisted' = unlisted
        => Unchanged(fs, fs')

\* A file that is deleted or renamed without its directory was unlisted.
LEMMA StrayGoes ==
    ASSUME NEW causes, WholeInv, Leaves(causes, {}), fs \in Kept,
           NEW d \in DirPaths, NEW n \in AllFileNames,
           fs.meta[Append(d, n)] \in Blobs, fs'.meta[Append(d, n)] \notin Blobs,
           fs.dir[d] = NoDir
    PROVE  unlisted' # unlisted
<1> DEFINE x == <<d, FileEntry(n)>>
<1>1. x \in unlisted
  BY FilesAreInDirs DEF WholeInv
<1>2. x[1] = d /\ x[2][1] # "D" /\ x[2][2] = n
  BY DEF FileEntry
<1> HIDE DEF x
<1>3. ~There(fs', x[1], x[2])
  BY <1>2 DEF There
<1>4. x \notin unlisted'
  BY <1>3 DEF Leaves
<1> QED
  BY <1>1, <1>4

\* An upload that is refused changes nothing, but for the file it replaces.
LEMMA StoppedIsClean ==
    ASSUME NEW causes, NEW strays, WholeInv, Leaves(causes, strays), fs \in Kept,
           NEW s \in States, s.dir = fs.dir, s.meta = fs.meta, s.live = fs.live, s \in Kept,
           NEW d \in DirPaths, NEW n \in FileNames,
           NEW overwrite \in BOOLEAN, NEW time \in BackupTimes,
           s.dir[d] # NoDir, Stopped(s, fs', d, n, overwrite, time),
           overwrite => <<d, FileEntry(n)>> \in strays,
           overwrite \/ ~HasMeta(fs, Append(d, n)), fs' \in States,
           unlisted' = unlisted
    PROVE  Unchanged(fs, fs')
<1> DEFINE p == Append(d, n)
           e == FileEntry(n)
           there == Seen(s, p) # NotCached
           x == <<d, e>>
<1>1. n \in AllFileNames /\ p \in FilePaths /\ e \in EntriesAt(d)
  BY FilePathsAre, EntriesFit DEF AllFileNames
<1>2. there <=> fs.meta[p] \in Blobs
  <2> HIDE DEF p
  <2> QED
    BY <1>1, SeenIs
<1>3. ~(there /\ ~overwrite)
  BY <1>1, <1>2 DEF HasMeta
<1>4. /\ fs'.live = fs.live
      /\ \A r \in DirPaths :
            fs'.dir[r] = IF r = d /\ there THEN Without(fs.dir[d], e) ELSE fs.dir[r]
      /\ \A r \in FilePaths : fs'.meta[r] = fs.meta[r]
  <2> HIDE DEF p, e
  <2> QED
    BY <1>3 DEF Stopped, p, e
<1>5. /\ fs.dir \in [DirPaths -> {NoDir} \cup Seq(Entries)] /\ fs.dir[d] \in Seq(Entries)
      /\ fs.meta \in [FilePaths -> Blobs \cup {Absent, Deleted}]
      /\ fs'.dir \in [DirPaths -> {NoDir} \cup Seq(Entries)]
      /\ fs'.meta \in [FilePaths -> Blobs \cup {Absent, Deleted}]
  BY StateIs
<1>6. fs'.meta = fs.meta
  BY <1>4, <1>5
<1>7. there => Without(fs.dir[d], e) = fs.dir[d]
  <2> SUFFICES ASSUME there
               PROVE  Without(fs.dir[d], e) = fs.dir[d]
    OBVIOUS
  <2>1. x[1] = d /\ x[2] = e /\ e[1] # "D" /\ e[2] = n
    BY DEF FileEntry
  <2>2. There(fs', x[1], x[2])
    BY <1>2, <1>6, <2>1 DEF There
  <2>3. ~Listed(fs', x[1], x[2])
    <3>1. Range(Without(fs.dir[d], e)) = Range(fs.dir[d]) \ {e}
      <4> HIDE DEF e
      <4> QED
        BY <1>5, WithoutIs
    <3>2. e \notin Range(fs'.dir[d])
      <4> HIDE DEF e, there
      <4> QED
        BY <1>4, <3>1
    <3> HIDE DEF x
    <3> QED
      BY <2>1, <3>2 DEF Listed
  <2>4. x \in strays
    BY <1>3
  <2> HIDE DEF x, there
  <2>5. x \in unlisted
    BY <2>2, <2>3, <2>4 DEF Leaves
  <2>6. e \notin Range(fs.dir[d])
    <3>1. e \notin Children(unlisted, fs, d)
      BY <2>5 DEF Children, x
    <3> HIDE DEF e
    <3> QED
      BY <3>1, WholeStates DEF WholeInv, Exact
  <2> HIDE DEF e
  <2> QED
    BY <1>5, <2>6, WithoutNothing
<1> HIDE DEF there, e
<1>8. fs'.dir = fs.dir
  BY <1>4, <1>5, <1>7
<1> QED
  BY <1>4, <1>6, <1>8 DEF Unchanged

\* What every call does: the tree stays whole, and a call that fails in a pod none
\* of whose directories was moved changes nothing, or leaves its mark.
LEMMA WholeStep ==
    ASSUME MaxDepth = 1, CarefulCallers, ~SameSecond, WholeInv, Next
    PROVE  WholeInv' /\ FailsClean
<1> DEFINE U == unlisted
<1>0. U \in SUBSET Strays /\ fs \in Whole(U) /\ \A x \in U : There(fs, x[1], x[2])
  BY DEF WholeInv
<1> HIDE DEF U
<1>1. /\ Begin \in Whole(U) /\ Begin \in States /\ Begin.out = "ok"
      /\ fs \in Kept => Begin \in Kept
      /\ Begin.dir = fs.dir /\ Begin.meta = fs.meta /\ Begin.live = fs.live
      /\ \A x \in U : There(Begin, x[1], x[2])
  <2>1. /\ fs \in States /\ Begin \in States /\ Begin.out = "ok"
        /\ SameFiles(fs, Begin) /\ SameDirs(fs, Begin)
    BY <1>0, BeginIs, WholeStates
  <2>2. fs \in Kept => Begin \in Kept
    BY <2>1, SameFilesKeep
  <2>3. Begin \in Whole(U)
    BY <1>0, <2>1, UnchangedIsWhole DEF SameFiles, SameDirs
  <2>4. \A x \in U : There(Begin, x[1], x[2])
    BY <1>0, <2>1 DEF SameFiles, SameDirs, There
  <2> QED
    BY <2>1, <2>2, <2>3, <2>4 DEF SameFiles, SameDirs
\* The call leaves a whole tree of which no more is unlisted than before.
<1>2. ASSUME NEW causes, Leaves(causes, {}), NEW W \in SUBSET U, fs' \in Whole(W)
      PROVE  WholeInv'
  <2>1. Settled({})
    BY <1>0, <1>2 DEF Settled, U
  <2> QED
    BY <1>2, <2>1, SettledIsWhole
<1>3. ASSUME NEW causes, Leaves(causes, {}), fs' \in States, Unchanged(Begin, fs')
      PROVE  WholeInv' /\ FailsClean
  <2>1. fs' \in Whole(U)
    BY <1>0, <1>1, <1>3, UnchangedIsWhole DEF Unchanged
  <2>2. FailsClean
    BY <1>1, <1>3 DEF FailsClean, Unchanged
  <2> QED
    BY <1>2, <1>3, <2>1, <2>2
<1>4. CASE MkDirAction
  <2>1. PICK p \in DirPaths \ {<<>>} : fs' = MkDir(Begin, p)
    BY <1>4 DEF MkDirAction
  <2>2. p \in DirPaths /\ p # <<>> /\ Leaves({}, {})
    BY <1>4 DEF MkDirAction
  <2>3. /\ fs' \in States /\ SameFiles(Begin, fs')
        /\ (fs'.out # "ok" /\ Unchanged(Begin, fs')) \/ Made(Begin, fs', p)
    BY <1>1, <2>1, <2>2, MkDirIs
  <2>4. CASE Made(Begin, fs', p)
    <3>1. fs' \in Whole(U)
      BY <1>0, <1>1, <2>2, <2>3, <2>4, MadeIsWhole DEF SameFiles
    <3>2. FailsClean
      BY <2>4 DEF Made, FailsClean
    <3> QED
      BY <1>2, <2>2, <3>1, <3>2
  <2> QED
    BY <1>3, <2>2, <2>3, <2>4
<1>5. CASE RmDirAction
  <2>1. PICK p \in DirPaths \ {<<>>} :
           /\ fs' = RmDir(Begin, p)
           /\ Leaves(When("nested", IsDir(p) /\ (Len(p) > 1 \/ HasSubdirectory(p))), {})
    BY <1>5 DEF RmDirAction
  <2>2. p \in DirPaths /\ p # <<>>
    OBVIOUS
  <2>3. fs' \in Whole(U) /\ (Begin \in Kept => fs'.out = "ok" \/ Unchanged(Begin, fs'))
    BY <1>0, <1>1, <2>1, <2>2, RmDirIs
  <2>4. FailsClean
    BY <1>1, <2>3 DEF FailsClean, Unchanged
  <2> QED
    BY <1>2, <2>1, <2>3, <2>4
<1>6. CASE UploadAction
  <2>1. PICK d \in DirPaths, n \in FileNames, b \in FreshBlobs,
             overwrite \in BOOLEAN, refused \in BOOLEAN, time \in BackupTimes :
           /\ CarefulCallers => IsDir(d)
           /\ SameSecond \/ overwrite \/ fs.meta[Append(d, <<time, n>>)] = Absent
           /\ fs' = UploadFile(Begin, d, n, b, overwrite, time, refused)
           /\ Leaves(When("backup", refused /\ ~overwrite /\ HasMeta(fs, Append(d, n))),
                     IF refused /\ overwrite THEN {<<d, FileEntry(n)>>} ELSE {})
    BY <1>6 DEF UploadAction
  <2> DEFINE causes == When("backup", refused /\ ~overwrite /\ HasMeta(fs, Append(d, n)))
             strays == IF refused /\ overwrite THEN {<<d, FileEntry(n)>>} ELSE {}
  <2>2. /\ Begin.dir[d] # NoDir /\ b \in Blobs /\ Leaves(causes, strays)
        /\ overwrite \/ Begin.meta[Append(d, <<time, n>>)] = Absent
    BY <1>1, <2>1 DEF IsDir, FreshBlobs
  <2>3. /\ fs' \in States
        /\ \/ fs'.out = "error" /\ Unchanged(Begin, fs') /\ Begin \notin Kept
           \/ ~refused /\ Uploaded(Begin, fs', d, n, b, overwrite, time)
           \/ refused /\ Stopped(Begin, fs', d, n, overwrite, time)
    BY <1>1, <2>1, <2>2, UploadFileIs
  <2>4. /\ FileEntry(n) \in EntriesAt(d) /\ <<d, FileEntry(n)>> \in Strays
        /\ \A x \in strays : \E p \in DirPaths : \E e \in EntriesAt(p) : x = <<p, e>>
    <3>1. /\ FileEntry(n) \in EntriesAt(d) /\ FileEntry(n) \in Entries
          /\ FileEntry(n)[1] # "D"
      BY EntriesFit DEF AllFileNames, FileEntry
    <3> QED
      BY <3>1 DEF Strays
  <2>5. "backup" \notin past' => ~(refused /\ ~overwrite /\ HasMeta(fs, Append(d, n)))
    BY <2>2 DEF Leaves, When
  <2> HIDE DEF causes
  <2>6. ASSUME NEW W \in SUBSET Strays, W \subseteq U \cup strays, fs' \in Whole(W)
        PROVE  WholeInv'
    <3>1. Settled(strays)
      BY <2>6 DEF Settled, U
    <3> HIDE DEF strays
    <3> QED
      BY <2>2, <2>4, <3>1, SettledIsWhole
  <2>7. CASE fs'.out = "error" /\ Unchanged(Begin, fs') /\ Begin \notin Kept
    <3>1. fs' \in Whole(U)
      BY <1>0, <1>1, <2>3, <2>7, UnchangedIsWhole DEF Unchanged
    <3>2. FailsClean
      BY <1>1, <2>7 DEF FailsClean
    <3> QED
      BY <1>0, <2>6, <3>1, <3>2
  <2>8. CASE ~refused /\ Uploaded(Begin, fs', d, n, b, overwrite, time)
    <3>1. fs' \in Whole(U \ {<<d, FileEntry(n)>>})
      BY <1>0, <1>1, <2>2, <2>3, <2>8, UploadedIsWhole
    <3>2. FailsClean
      BY <2>8 DEF FailsClean, Uploaded
    <3>3. WholeInv'
      BY <1>0, <2>6, <3>1
    <3> QED
      BY <3>2, <3>3
  <2>9. CASE refused /\ Stopped(Begin, fs', d, n, overwrite, time)
    <3> DEFINE W == IF overwrite THEN U \cup {<<d, FileEntry(n)>>} ELSE U
    <3>1. fs' \in Whole(W)
      <4>1. Stopped(Begin, fs', d, n, overwrite, time) /\ Begin.dir[d] # NoDir
        BY <2>2, <2>9
      <4>2. /\ overwrite => fs' \in Whole(U \cup {<<d, FileEntry(n)>>})
            /\ ~overwrite => fs' \in Whole(U)
        BY <1>0, <1>1, <2>3, <4>1, StoppedIsWhole
      <4> QED
        BY <4>2
    <3>2. W \in SUBSET Strays /\ W \subseteq U \cup strays
      BY <1>0, <2>4, <2>9
    <3> HIDE DEF W
    <3>3. WholeInv'
      BY <2>6, <3>1, <3>2
    <3>4. overwrite => <<d, FileEntry(n)>> \in strays
      BY <2>9
    <3> HIDE DEF strays
    <3>5. FailsClean
      <4> SUFFICES ASSUME fs \in Kept, "backup" \notin past', unlisted' = unlisted
                   PROVE  Unchanged(fs, fs')
        BY DEF FailsClean
      <4>1. overwrite \/ ~HasMeta(fs, Append(d, n))
        BY <2>5, <2>9
      <4> QED
        BY <1>1, <2>2, <2>3, <2>9, <3>4, <4>1, StoppedIsClean
    <3> QED
      BY <3>3, <3>5
  <2> QED
    BY <2>3, <2>7, <2>8, <2>9
<1>7. CASE DeleteAction
  <2>1. PICK d \in DirPaths, n \in AllFileNames : fs' = DeleteFile(Begin, d, n)
    BY <1>7 DEF DeleteAction
  <2>0. Leaves({}, {})
    BY <1>7 DEF DeleteAction
  <2>2. /\ fs' \in States
        /\ (fs'.out = "error" /\ Unchanged(Begin, fs')) \/ Gone(Begin, fs', d, n)
    BY <1>1, <2>1, DeleteFileIs
  <2>3. CASE Gone(Begin, fs', d, n)
    <3>1. fs' \in Whole(U)
      BY <1>0, <1>1, <2>2, <2>3, GoneIsWhole
    <3>2. FailsClean
      <4> SUFFICES ASSUME fs \in Kept, fs'.out = "error"
                   PROVE  unlisted' # unlisted
        BY DEF FailsClean
      <4>1. fs.dir[d] = NoDir /\ fs.meta[Append(d, n)] \in Blobs
        BY <1>1, <2>3 DEF Gone
      <4>2. fs'.meta[Append(d, n)] \notin Blobs
        <5>1. Append(d, n) \in FilePaths /\ Begin.meta \in [FilePaths -> Blobs \cup {Absent, Deleted}]
          BY <1>1, FilePathsAre, StateIs
        <5> QED
          BY <2>3, <5>1, MarksAreNoValues DEF Gone
      <4> QED
        BY <2>0, <4>1, <4>2, StrayGoes
    <3> QED
      BY <1>2, <2>0, <3>1, <3>2
  <2> QED
    BY <1>3, <2>0, <2>2, <2>3
<1>8. CASE RenameFileAction
  <2>1. PICK d \in DirPaths, e \in DirPaths, n \in AllFileNames, m \in FileNames :
           /\ CarefulCallers => IsDir(e)
           /\ fs' = RenameFile(Begin, d, n, e, m)
    BY <1>8 DEF RenameFileAction
  <2>2. m \in AllFileNames /\ Begin.dir[e] # NoDir /\ Leaves({}, {})
    BY <1>1, <1>8, <2>1 DEF AllFileNames, IsDir, RenameFileAction
  <2>3. /\ fs' \in States
        /\ (fs'.out = "error" /\ Unchanged(Begin, fs')) \/ Renamed(Begin, fs', d, n, e, m)
    BY <1>1, <2>1, <2>2, RenameFileIs
  <2>4. CASE Renamed(Begin, fs', d, n, e, m)
    <3>0. <<e, FileEntry(m)>> \notin U
      <4> DEFINE x == <<e, FileEntry(m)>>
      <4>1. x[1] = e /\ x[2][1] # "D" /\ x[2][2] = m
        BY DEF FileEntry
      <4>2. Begin.meta[Append(e, m)] \notin Blobs
        BY <2>4 DEF Renamed
      <4> HIDE DEF x
      <4>3. x \notin U
        BY <1>1, <4>1, <4>2 DEF There
      <4> QED
        BY <4>3 DEF x
    <3>1. fs' \in Whole(U)
      BY <1>0, <1>1, <2>2, <2>3, <2>4, <3>0, RenamedIsWhole
    <3>2. FailsClean
      <4> SUFFICES ASSUME fs \in Kept, fs'.out = "error"
                   PROVE  unlisted' # unlisted
        BY DEF FailsClean
      <4>1. fs.dir[d] = NoDir /\ fs.meta[Append(d, n)] \in Blobs
        BY <1>1, <2>2, <2>4 DEF Renamed
      <4>2. fs'.meta[Append(d, n)] \notin Blobs
        <5>1. Append(d, n) \in FilePaths
          BY FilePathsAre
        <5> QED
          BY <2>4, <5>1, MarksAreNoValues DEF Renamed
      <4> QED
        BY <2>2, <4>1, <4>2, StrayGoes
    <3> QED
      BY <1>2, <2>2, <3>1, <3>2
  <2> QED
    BY <1>3, <2>2, <2>3, <2>4
<1>9. CASE RenameDirAction
  <2>1. PICK old \in DirPaths \ {<<>>}, new \in DirPaths \ {<<>>} :
           /\ IsDir(old) /\ fs' = RenameDir(Begin, old, new)
           /\ Leaves({"moved"} \cup When("nested", HasSubdirectory(old)),
                     IF IsDir(Parent(new)) /\ ~IsPrefix(old, new) THEN {}
                     ELSE {<<Parent(new), DirEntry(Last(new))>>})
    BY <1>9 DEF RenameDirAction
  <2> DEFINE causes == {"moved"} \cup When("nested", HasSubdirectory(old))
             strays == IF IsDir(Parent(new)) /\ ~IsPrefix(old, new) THEN {}
                       ELSE {<<Parent(new), DirEntry(Last(new))>>}
  <2>2. /\ old \in DirPaths /\ old # <<>> /\ new \in DirPaths /\ new # <<>>
        /\ Begin.dir[old] # NoDir /\ Leaves(causes, strays)
    BY <1>1, <2>1 DEF IsDir
  <2>3. /\ \E W \in SUBSET U : fs' \in Whole(W)
        /\ fs'.out = "error" => Unchanged(Begin, fs')
    BY <1>0, <1>1, <2>1, <2>2, RenameDirIs
  <2>4. \A x \in strays : \E p \in DirPaths : \E e \in EntriesAt(p) : x = <<p, e>>
    <3>1. Parent(new) \in DirPaths /\ DirEntry(Last(new)) \in EntriesAt(Parent(new))
      BY <2>2, DirPathsEnd, EntriesFit
    <3> QED
      BY <3>1
  <2> HIDE DEF causes, strays
  <2>5. Settled(strays)
    BY <1>0, <2>3 DEF Settled, U
  <2>6. WholeInv'
    BY <2>2, <2>4, <2>5, SettledIsWhole
  <2>7. FailsClean
    BY <1>1, <2>3 DEF FailsClean, Unchanged
  <2> QED
    BY <2>6, <2>7
<1>10. CASE Reopen
  <2>1. fs' = SyncDirectory(Emptied, <<>>) /\ Leaves({}, {})
    BY <1>10 DEF Reopen, Emptied
  <2>2. Emptied \in States /\ Emptied.out = "ok" /\ Unchanged(fs, Emptied) /\ <<>> \in DirPaths
    BY <1>0, WholeStates, EmptiedIs, PathsAre
  <2>3. fs' \in States /\ Unchanged(Emptied, fs')
    BY <2>1, <2>2, SyncChangesNothing
  <2>4. Unchanged(Begin, fs')
    BY <1>1, <2>2, <2>3 DEF Unchanged
  <2> QED
    BY <1>3, <2>1, <2>3, <2>4
<1> QED
  BY <1>4, <1>5, <1>6, <1>7, <1>8, <1>9, <1>10 DEF Next

LEMMA WholeIsKept ==
    ASSUME MaxDepth = 1, CarefulCallers, ~SameSecond
    PROVE  Spec => []WholeInv
<1>1. Init => WholeInv
  BY InitIsWhole DEF WholeInv, Init
<1>2. ASSUME WholeInv, [Next]_vars
      PROVE  WholeInv'
  <2>1. CASE Next
    BY <1>2, <2>1, WholeStep
  <2>2. CASE UNCHANGED vars
    BY <1>2, <2>2 DEF WholeInv, vars
  <2> QED
    BY <1>2, <2>1, <2>2
<1> QED
  BY <1>1, <1>2, PTL DEF Spec

\* Type correctness of the directory tree.
THEOREM TreesAreTyped ==
    ASSUME MaxDepth = 1, CarefulCallers, ~SameSecond
    PROVE  Spec => []TypeOK
<1>1. WholeInv => TypeOK
  BY WholeStates DEF WholeInv, TypeOK
<1>2. Spec => []WholeInv
  BY WholeIsKept
<1> QED
  BY <1>1, <1>2, PTL

\* In a tree of one level, whatever the names and their number, no entry of a
\* directory is left behind by what removes or moves the child it names, also
\* when an upload is refused half-way.
THEOREM EntriesAlwaysResolve ==
    ASSUME MaxDepth = 1, CarefulCallers, ~SameSecond
    PROVE  Spec => []EntriesResolve
<1>1. WholeInv => EntriesResolve
  BY WholeIs DEF WholeInv
<1>2. Spec => []WholeInv
  BY WholeIsKept
<1> QED
  BY <1>1, <1>2, PTL

\* In a tree of one level every directory and file is listed, once, by the
\* directory it is in, but for what refused uploads have left unlisted, until
\* it is stored again under its name, deleted or renamed.
THEOREM NothingIsOrphaned ==
    ASSUME MaxDepth = 1, CarefulCallers, ~SameSecond
    PROVE  Spec => []NoOrphans
<1>1. WholeInv => NoOrphans
  BY WholeIs DEF WholeInv
<1>2. Spec => []WholeInv
  BY WholeIsKept
<1> QED
  BY <1>1, <1>2, PTL

\* In a tree of one level, until a directory is moved or a backup left half-way,
\* a call that returns an error has stored nothing: not the delete, the rename
\* or the rmdir that has some of its files deleted already.  The exception is an
\* upload that is refused when the file it replaces is out of its directory.
THEOREM FailuresStoreNothing ==
    ASSUME MaxDepth = 1, CarefulCallers, ~SameSecond
    PROVE  Spec => FailedCallsChangeNothing
<1>1. ASSUME WholeInv, KeptInv, [Next]_vars
      PROVE  [fs'.out = "error" /\ "moved" \notin past /\ past' \cap {"nested", "backup"} = {}
                  /\ unlisted' = unlisted
                => /\ fs'.dir = fs.dir
                   /\ fs'.meta = fs.meta
                   /\ fs'.live = fs.live]_vars
  <2> SUFFICES ASSUME Next, fs'.out = "error", "moved" \notin past,
                      past' \cap {"nested", "backup"} = {}, unlisted' = unlisted
               PROVE  Unchanged(fs, fs')
    BY <1>1 DEF Unchanged
  <2>1. past \subseteq past'
    BY HistoryGrows
  <2>2. fs \in Kept
    BY <1>1, <2>1 DEF KeptInv
  <2> QED
    BY <1>1, <2>2, WholeStep DEF FailsClean
<1>2. Spec => []WholeInv
  BY WholeIsKept
<1>3. Spec => []KeptInv
  BY KeptIsKept
<1> QED
  BY <1>1, <1>2, <1>3, PTL DEF Spec, FailedCallsChangeNothing
=============================================================================
