------------------------- MODULE FeedWritersProofs --------------------------
(***************************************************************************)
(* The two lookup algorithms find the last update, for every number of     *)
(* levels, every clock and every set of updates placed without holes.      *)
(* First epoch arithmetic, then the weights by which the searches end, then *)
(* what a read that succeeds or fails tells of where the last update is:   *)
(* from it the answers of both algorithms follow by induction.             *)
(*                                                                         *)
(* Then the sessions that write one feed: they place their updates where   *)
(* every lookup finds them, for every number of sessions, levels, uploads  *)
(* and seconds: the rule of FeedSlots, its consequence NoHoles, and the    *)
(* answers of both lookup algorithms.  Only the types hold whatever the    *)
(* skew between the clocks of newRequest and updateSoc; the rest needs     *)
(* both to read one second.                                                *)
(***************************************************************************)
EXTENDS FeedWriters, WellFoundedInduction, FiniteSetTheorems, TLAPS

\* Induction and recursion over natural weights.

\* A set of natural numbers that is not empty has a least one; it stands for
\* induction, whose library theorems are stated over operators.
LEMMA LeastNatural ==
    ASSUME NEW T \in SUBSET Nat, T # {}
    PROVE  \E x \in T : \A y \in T : x <= y
<1> DEFINE R == {ss \in Nat \X Nat : ss[1] < ss[2]}
<1>1. IsWellFoundedOn(R, Nat)
  BY NatLessThanWellFounded DEF OpToRel
<1>2. \A x, y \in Nat : y < x => <<y, x>> \in R
  OBVIOUS
<1> HIDE DEF R
<1>3. PICK x \in T : \A y \in T : ~ (<<y, x>> \in R)
  BY <1>1, WFMin
<1>4. ASSUME NEW y \in T
      PROVE  x <= y
  <2>1. ~ (<<y, x>> \in R)
    BY <1>3
  <2>2. x \in Nat /\ y \in Nat /\ ~ (y < x)
    BY <1>2, <2>1
  <2> QED
    BY <2>2
<1> QED
  BY <1>4

\* What holds of every position once it holds of those of smaller weight holds
\* of all: both lookup algorithms are reasoned about by the weight of a step.
LEMMA MeasureInduction ==
    ASSUME NEW S, NEW m \in [S -> Nat], NEW T,
           \A x \in S : (\A y \in S : m[y] < m[x] => y \in T) => x \in T
    PROVE  S \subseteq T
<1> SUFFICES ASSUME NEW z \in S, z \notin T
             PROVE  FALSE
  OBVIOUS
<1> DEFINE N == {n \in Nat : \E x \in S : x \notin T /\ m[x] = n}
<1>1. m[z] \in N
  OBVIOUS
<1>2. PICK n \in N : \A k \in N : n <= k
  <2> HIDE DEF N
  <2>1. N \in SUBSET Nat
    BY DEF N
  <2> QED
    BY <1>1, <2>1, LeastNatural
<1>3. PICK x \in S : x \notin T /\ m[x] = n
  BY <1>2
<1>4. ASSUME NEW y \in S, m[y] < m[x], y \notin T
      PROVE  FALSE
  <2>1. m[y] \in N
    BY <1>4
  <2>2. m[x] <= m[y]
    BY <1>2, <1>3, <2>1
  <2> QED
    BY <1>4, <2>2
<1> QED
  BY <1>3, <1>4

\* Def computes the value at a position from a function's values at positions of
\* smaller weight.
LooksDown(S, V, m, Def) ==
    /\ V # {} /\ m \in [S -> Nat] /\ Def \in [[S -> V] \X S -> V]
    /\ \A g, h \in [S -> V] : \A x \in S :
          (\A y \in S : m[y] < m[x] => g[y] = h[y]) => Def[<<g, x>>] = Def[<<h, x>>]

\* Some function satisfies the equation everywhere.
HasSolution(S, V, Def) == \E f \in [S -> V] : \A x \in S : f[x] = Def[<<f, x>>]

\* A recursion that only looks at smaller weights is solved by some function,
\* so that the recursive functions of FeedLookup are what their equations say.
LEMMA RecursionHasSolution ==
    ASSUME NEW S, NEW V, NEW m, NEW Def, LooksDown(S, V, m, Def)
    PROVE  HasSolution(S, V, Def)
<1>0. /\ V # {} /\ m \in [S -> Nat] /\ Def \in [[S -> V] \X S -> V]
      /\ \A g, h \in [S -> V] : \A x \in S :
            (\A y \in S : m[y] < m[x] => g[y] = h[y]) => Def[<<g, x>>] = Def[<<h, x>>]
  BY DEF LooksDown
<1> USE <1>0
<1> DEFINE Upto(n, g) == \A x \in S : m[x] < n => g[x] = Def[<<g, x>>]
\* Two solutions agree as far as both reach.
<1>1. ASSUME NEW n \in Nat, NEW k \in Nat, NEW g \in [S -> V], NEW h \in [S -> V],
             Upto(n, g), Upto(k, h)
      PROVE  \A x \in S : m[x] < n /\ m[x] < k => g[x] = h[x]
  <2> DEFINE T == {x \in S : m[x] < n /\ m[x] < k => g[x] = h[x]}
  <2>1. ASSUME NEW x \in S, \A y \in S : m[y] < m[x] => y \in T
        PROVE  x \in T
    <3> SUFFICES ASSUME m[x] < n, m[x] < k
                 PROVE  g[x] = h[x]
      OBVIOUS
    <3>1. \A y \in S : m[y] < m[x] => g[y] = h[y]
      <4>1. \A y \in S : m[y] \in Nat /\ m[x] \in Nat
        OBVIOUS
      <4> QED
        BY <2>1, <4>1
    <3>2. Def[<<g, x>>] = Def[<<h, x>>]
      BY <1>0, <3>1
    <3> QED
      BY <1>1, <3>2
  <2> HIDE DEF T
  <2>2. S \subseteq T
    BY <1>0, <2>1, MeasureInduction
  <2> QED
    BY <2>2 DEF T
\* Every bound is reached.
<1>2. \A n \in Nat : \E g \in [S -> V] : Upto(n, g)
  <2> DEFINE Bad == {n \in Nat : ~ \E g \in [S -> V] : Upto(n, g)}
  <2> SUFFICES ASSUME Bad # {}
               PROVE  FALSE
    OBVIOUS
  <2>1. PICK n \in Bad : \A k \in Bad : n <= k
    <3>1. Bad \in SUBSET Nat
      OBVIOUS
    <3> HIDE DEF Bad
    <3> QED
      BY <3>1, LeastNatural
  <2>2. n \in Nat
    BY <2>1
  <2>3. n # 0
    <3>1. PICK v \in V : TRUE
      OBVIOUS
    <3>2. [x \in S |-> v] \in [S -> V] /\ Upto(0, [x \in S |-> v])
      OBVIOUS
    <3> QED
      BY <2>1, <3>2
  <2>4. PICK g \in [S -> V] : Upto(n - 1, g)
    <3>1. n - 1 \in Nat /\ ~(n <= n - 1)
      BY <2>2, <2>3
    <3>2. n - 1 \notin Bad
      BY <2>1, <3>1
    <3> QED
      BY <3>1, <3>2
  <2> DEFINE h == [x \in S |-> Def[<<g, x>>]]
  <2>5. h \in [S -> V]
    OBVIOUS
  <2>6. \A y \in S : m[y] < n - 1 => h[y] = g[y]
    BY <2>4
  <2>7. ASSUME NEW x \in S, m[x] < n
        PROVE  h[x] = Def[<<h, x>>]
    <3>1. \A y \in S : m[y] < m[x] => g[y] = h[y]
      <4>1. \A y \in S : m[y] < m[x] => m[y] < n - 1
        BY <2>2, <2>7
      <4> QED
        BY <2>6, <4>1
    <3>2. Def[<<g, x>>] = Def[<<h, x>>]
      BY <1>0, <2>5, <3>1
    <3> QED
      BY <3>2
  <2> QED
    BY <2>1, <2>5, <2>7
<1> DEFINE G == [n \in Nat |-> CHOOSE g \in [S -> V] : Upto(n, g)]
           f == [x \in S |-> G[m[x] + 1][x]]
<1>3. \A n \in Nat : G[n] \in [S -> V] /\ Upto(n, G[n])
  BY <1>2
<1> HIDE DEF G
<1>4. \A x \in S : m[x] \in Nat /\ m[x] + 1 \in Nat
  BY <1>0
<1>5. f \in [S -> V]
  BY <1>3, <1>4
<1>6. ASSUME NEW x \in S
      PROVE  f[x] = Def[<<f, x>>]
  <2>1. G[m[x] + 1] \in [S -> V] /\ Upto(m[x] + 1, G[m[x] + 1])
    BY <1>3, <1>4
  <2>2. ASSUME NEW y \in S, m[y] < m[x]
        PROVE  G[m[x] + 1][y] = f[y]
    <3>1. G[m[y] + 1] \in [S -> V] /\ Upto(m[y] + 1, G[m[y] + 1])
      BY <1>3, <1>4
    <3>2. m[y] < m[x] + 1 /\ m[y] < m[y] + 1
      BY <1>4, <2>2
    <3> DEFINE a == G[m[x] + 1]
               b == G[m[y] + 1]
    <3>3. a \in [S -> V] /\ b \in [S -> V] /\ Upto(m[x] + 1, a) /\ Upto(m[y] + 1, b)
      BY <2>1, <3>1
    <3>4. f[y] = b[y]
      OBVIOUS
    <3> HIDE DEF a, b, f, Upto
    <3>5. \A z \in S : m[z] < m[x] + 1 /\ m[z] < m[y] + 1 => a[z] = b[z]
      BY SMTT(40), <1>1, <1>4, <3>3
    <3>6. a[y] = b[y]
      BY <3>2, <3>5
    <3>7. a[y] = f[y]
      BY <3>4, <3>6
    <3> QED
      BY <3>7 DEF a
  <2>3. Def[<<G[m[x] + 1], x>>] = Def[<<f, x>>]
    BY <1>0, <1>5, <2>1, <2>2
  <2>4. m[x] < m[x] + 1
    BY <1>4
  <2> QED
    BY <2>1, <2>3, <2>4
<1> QED
  BY <1>5, <1>6 DEF HasSolution

-----------------------------------------------------------------------------
\* Periods.

\* The lengths of the periods (epoch.go: 1 << level) double from level to level.
LEMMA PowerOfTwo ==
    ASSUME NEW n \in Nat
    PROVE  2^n \in Nat \ {0} /\ 2^(n + 1) = 2 * 2^n
<1> DEFINE S == 1..n
           x == n + 1
           A == SUBSET S
           B == {T \cup {x} : T \in A}
<1>1. IsFiniteSet(S) /\ Cardinality(S) = n
  BY FS_Interval
<1>2. IsFiniteSet(S \cup {x}) /\ Cardinality(S \cup {x}) = n + 1
  BY <1>1, FS_AddElement
<1>3. IsFiniteSet(A) /\ Cardinality(A) = 2^n /\ Cardinality(A) \in Nat
  BY <1>1, FS_SUBSET, FS_CardinalityType
<1>4. SUBSET (S \cup {x}) = A \cup B
  <2>1. ASSUME NEW T \in SUBSET (S \cup {x})
        PROVE  T \in A \cup B
    <3>1. CASE x \notin T
      BY <3>1
    <3>2. CASE x \in T
      <4>1. T \ {x} \in A /\ T = (T \ {x}) \cup {x}
        BY <3>2
      <4> QED
        BY <4>1
    <3> QED
      BY <3>1, <3>2
  <2> QED
    BY <2>1
<1>5. A \cap B = {}
  <2>1. x \notin S
    OBVIOUS
  <2> QED
    BY <2>1
<1>6. Cardinality(A) = Cardinality(B) /\ IsFiniteSet(B)
  <2> DEFINE f == [T \in A |-> T \cup {x}]
  <2>1. f \in [A -> B] /\ \A t \in B : \E U \in A : f[U] = t
    OBVIOUS
  <2>2. ASSUME NEW U \in A, NEW V \in A, f[U] = f[V]
        PROVE  U = V
    <3>1. U = (U \cup {x}) \ {x} /\ V = (V \cup {x}) \ {x}
      OBVIOUS
    <3>2. U \cup {x} = V \cup {x}
      BY <2>2
    <3> QED
      BY <3>1, <3>2
  <2>3. ExistsBijection(A, B)
    BY <2>1, <2>2 DEF ExistsBijection, Bijection, Injection, IsInjective, Surjection
  <2> QED
    BY <2>3, <1>3, FS_Bijection
<1>7. Cardinality(A \cup B) = Cardinality(A) + Cardinality(B) - Cardinality(A \cap B)
  BY <1>3, <1>6, FS_Union
<1>8. Cardinality(A \cap B) = 0
  BY <1>5, FS_EmptySet
<1>9. Cardinality(A \cup B) = 2^n + 2^n
  BY <1>3, <1>6, <1>7, <1>8
<1>10. Cardinality(A \cup B) = 2^(n + 1)
  BY <1>2, <1>4, FS_SUBSET
<1>11. 2^n # 0
  <2>1. A # {}
    OBVIOUS
  <2> QED
    BY <1>3, <2>1, FS_EmptySet
<1> QED
  BY <1>3, <1>9, <1>10, <1>11

\* The period of a level is a whole number of periods of each lower one.
LEMMA PowerOfSum ==
    ASSUME NEW n \in Nat, NEW d \in Nat
    PROVE  2^(n + d) = 2^n * 2^d
<1> DEFINE Bad == {e \in Nat : 2^(n + e) # 2^n * 2^e}
<1> SUFFICES ASSUME Bad # {}
             PROVE  FALSE
  OBVIOUS
<1>1. PICK e \in Bad : \A k \in Bad : e <= k
  <2>1. Bad \in SUBSET Nat
    OBVIOUS
  <2> HIDE DEF Bad
  <2> QED
    BY <2>1, LeastNatural
<1>2. CASE e = 0
  <2>1. 2^0 = 1 /\ n + 0 = n /\ 2^n \in Nat
    BY PowerOfTwo
  <2> QED
    BY <1>1, <1>2, <2>1
<1>3. CASE e # 0
  <2>1. e - 1 \in Nat /\ n + (e - 1) \in Nat /\ ~ (e <= e - 1)
    BY <1>1, <1>3
  <2>2. 2^(n + (e - 1)) = 2^n * 2^(e - 1)
    BY <1>1, <2>1
  <2>3. 2^((e - 1) + 1) = 2 * 2^(e - 1)
    BY <2>1, PowerOfTwo
  <2>4. 2^((n + (e - 1)) + 1) = 2 * 2^(n + (e - 1))
    BY <2>1, PowerOfTwo
  <2>5. (e - 1) + 1 = e /\ (n + (e - 1)) + 1 = n + e
    BY <1>1
  <2>6. 2^n \in Nat /\ 2^(e - 1) \in Nat
    BY <2>1, PowerOfTwo
  <2>7. 2^e = 2 * 2^(e - 1) /\ 2^(n + e) = 2 * (2^n * 2^(e - 1))
    BY <2>2, <2>3, <2>4, <2>5
  <2>8. \A a, b \in Nat : 2 * (a * b) = a * (2 * b)
    OBVIOUS
  <2> QED
    BY <1>1, <2>6, <2>7, <2>8
<1> QED
  BY <1>2, <1>3

\* Quotient and remainder by a period length.
LEMMA Division ==
    ASSUME NEW p \in Nat \ {0}, NEW t \in Nat
    PROVE  /\ t \div p \in Nat
           /\ t = p * (t \div p) + (t % p)
           /\ (t % p) \in 0..(p - 1)
OBVIOUS

\* A time is in one period only, at one distance from its start.
LEMMA DivisionIsUnique ==
    ASSUME NEW p \in Nat \ {0}, NEW q \in Nat, NEW r \in 0..(p - 1)
    PROVE  (p * q + r) \div p = q /\ (p * q + r) % p = r
OBVIOUS

\* getBaseTime: t & (max << level) is the multiple of 2^level at or before t.
LEMMA BaseIsMultiple ==
    ASSUME NEW t \in Nat, NEW l \in Nat
    PROVE  /\ 2^l \in Nat \ {0}
           /\ getBaseTime(t, l) = 2^l * (t \div 2^l)
           /\ getBaseTime(t, l) \in 0..t
           /\ t < getBaseTime(t, l) + 2^l
<1>1. 2^l \in Nat \ {0}
  BY PowerOfTwo
<1> DEFINE p == 2^l
<1> HIDE DEF p
<1>2. p \in Nat \ {0}
  BY <1>1 DEF p
<1>3. /\ t \div p \in Nat
      /\ t = p * (t \div p) + (t % p)
      /\ (t % p) \in 0..(p - 1)
  BY <1>2, Division
<1>4. p * (t \div p) \in Nat
  BY <1>2, <1>3
<1>5. /\ t - (t % p) = p * (t \div p)
      /\ t - (t % p) \in 0..t
      /\ t < (t - (t % p)) + p
  BY <1>2, <1>3, <1>4
<1> QED
  BY <1>1, <1>5 DEF p, getBaseTime

\* getBaseTime never exceeds the time it is given.
LEMMA BaseInPast ==
    ASSUME NEW t \in Nat, NEW l \in Nat
    PROVE  getBaseTime(t, l) \in Nat /\ getBaseTime(t, l) <= t
<1>1. getBaseTime(t, l) \in 0..t
  BY BaseIsMultiple
<1> QED
  BY <1>1

\* getBaseTime keeps the order of times.
LEMMA BaseMonotone ==
    ASSUME NEW t \in Nat, NEW u \in Nat, NEW l \in Nat, t <= u
    PROVE  getBaseTime(t, l) <= getBaseTime(u, l)
<1> DEFINE p == 2^l
           q == t \div p
           r == u \div p
<1>1. p \in Nat \ {0} /\ q \in Nat /\ r \in Nat
  BY BaseIsMultiple, Division
<1>2. /\ getBaseTime(t, l) = p * q /\ p * q <= t
      /\ getBaseTime(u, l) = p * r /\ u < p * r + p
  <2>1. getBaseTime(t, l) = p * q /\ getBaseTime(t, l) \in 0..t
    BY BaseIsMultiple
  <2>2. getBaseTime(u, l) = p * r /\ u < getBaseTime(u, l) + p
    BY BaseIsMultiple
  <2> QED
    BY <2>1, <2>2
<1> HIDE DEF p, q, r
<1>3. CASE q <= r
  <2>1. p * q <= p * r
    BY <1>1, <1>3
  <2> QED
    BY <1>2, <2>1
<1>4. CASE q > r
  <2>1. p * r + p <= p * q
    BY <1>1, <1>4
  <2>2. p * r \in Nat /\ p * q \in Nat
    BY <1>1
  <2> QED
    BY <1>1, <1>2, <2>1, <2>2
<1> QED
  BY <1>1, <1>3, <1>4

\* A period has no gaps: a time between two of its times is in it too.
LEMMA BaseBetween ==
    ASSUME NEW t \in Nat, NEW u \in Nat, NEW v \in Nat, NEW l \in Nat,
           t <= u, u <= v, getBaseTime(t, l) = getBaseTime(v, l)
    PROVE  getBaseTime(u, l) = getBaseTime(t, l)
<1>1. /\ getBaseTime(t, l) <= getBaseTime(u, l)
      /\ getBaseTime(u, l) <= getBaseTime(v, l)
  BY BaseMonotone
<1>2. /\ getBaseTime(t, l) \in Nat
      /\ getBaseTime(u, l) \in Nat
      /\ getBaseTime(v, l) \in Nat
  BY BaseInPast
<1> QED
  BY <1>1, <1>2

\* A period lies within one period of each higher level, whose start is also
\* the start of a period of the lower level.
LEMMA BasesNest ==
    ASSUME NEW t \in Nat, NEW l \in Nat, NEW m \in Nat, l <= m
    PROVE  /\ getBaseTime(getBaseTime(t, l), m) = getBaseTime(t, m)
           /\ getBaseTime(getBaseTime(t, m), l) = getBaseTime(t, m)
           /\ getBaseTime(t, m) <= getBaseTime(t, l)
<1> DEFINE d == m - l
           p == 2^l
           e == 2^d
           q == t \div p
           r == q \div e
           s == q % e
<1>1. d \in Nat /\ l + d = m
  OBVIOUS
<1>2. p \in Nat \ {0} /\ e \in Nat \ {0} /\ 2^m = p * e
  BY <1>1, PowerOfTwo, PowerOfSum
<1>3. q \in Nat /\ t = p * q + (t % p) /\ (t % p) \in 0..(p - 1)
  BY <1>2, Division
<1>4. r \in Nat /\ s \in 0..(e - 1) /\ q = e * r + s
  BY <1>2, <1>3, Division
<1>5. getBaseTime(t, l) = p * q
  BY BaseIsMultiple
<1> DEFINE c == p * e
           o == p * s
           i == t % p
<1> HIDE DEF d, p, e, q, r, s, i
<1>6. p * q = c * r + o /\ c \in Nat \ {0} /\ o \in Nat /\ c * r \in Nat
  <2>1. p * (e * r + s) = (p * e) * r + p * s
    BY <1>2, <1>4
  <2> QED
    BY <1>2, <1>4, <2>1
<1>7. o + p <= c /\ i \in 0..(p - 1)
  BY <1>2, <1>3, <1>4 DEF i
<1>8. t = c * r + (o + i)
  BY <1>3, <1>6, <1>7 DEF i
<1>9. o + i \in 0..(c - 1) /\ o \in 0..(c - 1)
  BY <1>2, <1>6, <1>7
<1>10. t \div c = r /\ (p * q) \div c = r
  <2> HIDE DEF c, o
  <2> QED
    BY <1>4, <1>6, <1>8, <1>9, DivisionIsUnique
<1>11. getBaseTime(t, m) = c * r
  BY <1>2, <1>10, BaseIsMultiple
<1>12. getBaseTime(p * q, m) = c * r
  <2>1. p * q \in Nat
    BY <1>2, <1>3
  <2> QED
    BY <1>2, <1>10, <2>1, BaseIsMultiple
<1>13. getBaseTime(c * r, l) = c * r
  <2>1. c * r = p * (e * r) + 0 /\ e * r \in Nat /\ 0 \in 0..(p - 1)
    BY <1>2, <1>4
  <2>2. (c * r) % p = 0
    <3> DEFINE w == e * r
    <3> HIDE DEF w, c
    <3>1. c * r = p * w + 0 /\ w \in Nat
      BY <2>1 DEF w
    <3> QED
      BY <1>2, <2>1, <3>1, DivisionIsUnique
  <2> QED
    BY <1>6, <2>2 DEF getBaseTime, p
<1>14. c * r <= p * q
  BY <1>6
<1> QED
  BY <1>5, <1>11, <1>12, <1>13, <1>14

\* At LowestLevel every second is a period.
LEMMA BaseOfLowest ==
    ASSUME NEW t \in Nat
    PROVE  getBaseTime(t, 0) = t
<1>1. 2^0 = 1 /\ t % 1 = 0
  OBVIOUS
<1> QED
  BY <1>1 DEF getBaseTime

\* The levels and clock values of epoch.go are natural numbers.
LEMMA LevelsAndTimes ==
    /\ Levels \subseteq Nat /\ Times \subseteq Nat
    /\ HighestLevel \in Levels /\ 0 \in Levels /\ 0 \in Times
    /\ \A m \in Levels : m <= HighestLevel
<1>1. 2^WordBits \in Nat \ {0}
  BY EpochConstants, PowerOfTwo
<1> QED
  BY <1>1, EpochConstants DEF Levels, LowestLevel, Times

-----------------------------------------------------------------------------
\* The next level.

\* What Max returns on a set of small numbers.
LEMMA GreatestOfSet ==
    ASSUME NEW k \in Nat, NEW T \in SUBSET (0..k), T # {}
    PROVE  Max(T) \in T /\ \A y \in T : y <= Max(T)
<1> DEFINE U == {k - x : x \in T}
<1>1. U \in SUBSET Nat /\ U # {}
  <2>1. \A x \in T : x \in 0..k /\ k - x \in Nat
    OBVIOUS
  <2>2. PICK x \in T : TRUE
    OBVIOUS
  <2>3. k - x \in U
    OBVIOUS
  <2> QED
    BY <2>1, <2>3
<1>2. PICK z \in U : \A y \in U : z <= y
  <2> HIDE DEF U
  <2> QED
    BY <1>1, LeastNatural
<1>3. PICK x \in T : z = k - x
  BY <1>2
<1>4. \A y \in T : y <= x
  <2> SUFFICES ASSUME NEW y \in T
               PROVE  y <= x
    OBVIOUS
  <2>1. k - y \in U
    OBVIOUS
  <2>2. z <= k - y
    BY <1>2, <2>1
  <2> QED
    BY <1>3, <2>2
<1>5. \E w \in T : \A y \in T : w >= y
  BY <1>4
<1>6. Max(T) \in T /\ \A y \in T : Max(T) >= y
  BY <1>5 DEF Max
<1> QED
  BY <1>6

\* What Min returns on a pair.
LEMMA MinOfTwo ==
    ASSUME NEW a \in Nat, NEW b \in Nat
    PROVE  Min({a, b}) = IF a <= b THEN a ELSE b
<1> DEFINE w == IF a <= b THEN a ELSE b
<1>1. w \in {a, b} /\ \A y \in {a, b} : w <= y
  OBVIOUS
<1>2. \A z \in {a, b} : (\A y \in {a, b} : z <= y) => z = w
  OBVIOUS
<1> QED
  BY <1>1, <1>2 DEF Min

\* Two times are in the same period exactly when their high bits agree.
LEMMA SameBase ==
    ASSUME NEW t \in Nat, NEW u \in Nat, NEW l \in Nat
    PROVE  getBaseTime(t, l) = getBaseTime(u, l) <=> t \div 2^l = u \div 2^l
<1> DEFINE p == 2^l
           q == t \div p
           r == u \div p
<1>1. p \in Nat \ {0} /\ getBaseTime(t, l) = p * q /\ getBaseTime(u, l) = p * r
  BY BaseIsMultiple
<1>2. q \in Nat /\ r \in Nat
  BY <1>1, Division
<1> HIDE DEF p, q, r
<1>3. p * q = p * r => q = r
  <2>1. \A c, d \in Nat : c < d => p * c + p <= p * d
    BY <1>1
  <2>2. p * q \in Nat /\ p * r \in Nat
    BY <1>1, <1>2
  <2> QED
    BY <1>1, <1>2, <2>1, <2>2
<1> QED
  BY <1>1, <1>3 DEF q, r, p

\* last.Base() ^ now of GetNextLevel: a high bit differs where the periods do.
LEMMA BitsAreBases ==
    ASSUME NEW t \in Nat, NEW u \in Nat
    PROVE  DifferingBits(t, u)
             = {i \in 0..(HighestLevel + 1) : getBaseTime(t, i) # getBaseTime(u, i)}
<1>1. 0..(HighestLevel + 1) \subseteq Nat
  BY EpochConstants
<1>2. \A i \in 0..(HighestLevel + 1) :
        t \div 2^i # u \div 2^i <=> getBaseTime(t, i) # getBaseTime(u, i)
  BY <1>1, SameBase
<1> QED
  BY <1>2 DEF DifferingBits

\* Base of an epoch is a time, at or before its own.
LEMMA EpochTyped ==
    ASSUME NEW last \in Epoch
    PROVE  /\ Levels \subseteq Nat /\ Times \subseteq Nat
           /\ last.time \in Nat /\ last.level \in Nat
           /\ Base(last) \in Nat /\ Base(last) <= last.time /\ Base(last) \in Times
           /\ last.level # WorstLevel => last.level \in Levels
<1>1. Levels \subseteq Nat /\ Times \subseteq Nat
  BY EpochConstants DEF Levels, LowestLevel, Times
<1>2. last.time \in Times /\ last.time \in Nat /\ last.level \in Nat
  BY <1>1, EpochConstants DEF Epoch
<1>3. Base(last) \in Nat /\ Base(last) <= last.time
  BY <1>2, BaseInPast DEF Base
<1>4. 2^WordBits \in Nat
  BY EpochConstants, PowerOfTwo
<1>5. Base(last) \in Times
  BY <1>2, <1>3, <1>4 DEF Times
<1> QED
  BY <1>1, <1>2, <1>3, <1>5 DEF Epoch

\* GetNextLevel in terms of periods: it goes at most one level down, the
\* periods above the level it returns have not changed since the last update,
\* and the period at that level has, unless the limit decided.
LEMMA NextLevel ==
    ASSUME NEW last \in Epoch, NEW when \in Nat,
           NEW n, n = GetNextLevel(last, when)
    PROVE  /\ n \in Levels
           /\ last.level = WorstLevel => n = HighestLevel
           /\ last.level # WorstLevel => n >= last.level - 1
           /\ \A m \in Levels : m > n => getBaseTime(Base(last), m) = getBaseTime(when, m)
           /\ n > 0 /\ n > last.level - 1
                => getBaseTime(Base(last), n) # getBaseTime(when, n)
<1> DEFINE a == Base(last)
           D == DifferingBits(a, when)
           mix == (D \cup LevelBit(last)) \cup {LowestLevel}
           top == Max(mix)
<1>1. /\ HighestLevel \in Nat /\ HighestLevel > 0 /\ WorstLevel \in Nat
      /\ WorstLevel > HighestLevel + 1
      /\ Levels = 0..HighestLevel
      /\ last.level \in 0..HighestLevel \cup {WorstLevel}
      /\ a \in Nat
  BY EpochConstants, EpochTyped DEF Levels, LowestLevel, Epoch
<1>2. D = {i \in 0..(HighestLevel + 1) : getBaseTime(a, i) # getBaseTime(when, i)}
  BY <1>1, BitsAreBases
<1>3. mix \in SUBSET (0..WorstLevel) /\ mix # {} /\ WorstLevel \in Nat
  BY <1>1, <1>2 DEF LevelBit, LowestLevel
<1>4. top \in mix /\ \A y \in mix : y <= top
  <2> HIDE DEF mix
  <2> QED
    BY <1>3, GreatestOfSet
<1>5. top \in 0..WorstLevel
  BY <1>3, <1>4
<1>6. n = IF HighestLevel <= top THEN HighestLevel ELSE top
  <2>1. n = Min({HighestLevel, top})
    BY DEF GetNextLevel
  <2> HIDE DEF top
  <2> QED
    BY <1>1, <1>5, <2>1, MinOfTwo
<1>7. n \in Levels
  BY <1>1, <1>5, <1>6
<1>8. last.level > 0 => last.level - 1 <= top
  BY <1>4 DEF LevelBit
<1>9. last.level = WorstLevel => n = HighestLevel
  BY <1>1, <1>5, <1>6, <1>8
<1>10. last.level # WorstLevel => n >= last.level - 1
  BY <1>1, <1>5, <1>6, <1>8
<1>11. ASSUME NEW m \in Levels, m > n
       PROVE  getBaseTime(a, m) = getBaseTime(when, m)
  <2>1. m \in 0..(HighestLevel + 1) /\ ~ (m <= top)
    BY <1>1, <1>5, <1>6, <1>11
  <2>2. m \notin D
    BY <1>4, <2>1
  <2> QED
    BY <1>2, <2>1, <2>2
<1>12. ASSUME n > 0, n > last.level - 1
       PROVE  getBaseTime(a, n) # getBaseTime(when, n)
  <2>1. top \in D
    <3>1. top # LowestLevel /\ top \notin LevelBit(last)
      BY <1>1, <1>5, <1>6, <1>12 DEF LevelBit, LowestLevel
    <3> QED
      BY <1>4, <3>1
  <2>2. top \in Nat /\ n <= top /\ n \in Nat
    BY <1>1, <1>5, <1>6
  <2>3. getBaseTime(a, top) # getBaseTime(when, top)
    BY <1>2, <2>1
  <2>4. /\ getBaseTime(getBaseTime(a, n), top) = getBaseTime(a, top)
        /\ getBaseTime(getBaseTime(when, n), top) = getBaseTime(when, top)
    BY <1>1, <2>2, BasesNest
  <2> QED
    BY <2>3, <2>4
<1> QED
  BY <1>7, <1>9, <1>10, <1>11, <1>12

-----------------------------------------------------------------------------
\* Weights: why the searches end.

\* How far a search may still narrow: below the level of an update whose period
\* holds the time, or from the highest level.
Rank(e, t) ==
    IF e # NoClue /\ e.level \in Levels /\ getBaseTime(t, e.level) = Base(e)
    THEN e.level ELSE HighestLevel + 1

\* Steps look at earlier times, or at lower levels of the same time.
Weight(e, t) == t * (HighestLevel + 2) + Rank(e, t)

\* GetNextEpoch names a slot of the time it is given.
LEMMA NextEpoch ==
    ASSUME NEW last \in Epoch, NEW t \in Times,
           NEW e, e = GetNextEpoch(last, t)
    PROVE  /\ e \in Epoch /\ e.time = t /\ e.level \in Levels
           /\ Base(e) = getBaseTime(t, e.level)
           /\ Base(e) \in Nat /\ Base(e) <= t
           /\ last # NoClue => e.level = GetNextLevel(last, t)
<1>1. t \in Nat /\ HighestLevel \in Levels
  BY EpochTyped, EpochConstants DEF Levels, LowestLevel
<1>2. CASE last = NoClue
  <2>1. e = [time |-> t, level |-> HighestLevel]
    BY <1>2 DEF GetNextEpoch, GetFirstEpoch
  <2> QED
    BY <1>1, <1>2, <2>1, EpochTyped DEF Epoch, Base
<1>3. CASE last # NoClue
  <2> DEFINE n == GetNextLevel(last, t)
  <2>1. e = [time |-> t, level |-> n]
    BY <1>3 DEF GetNextEpoch
  <2>2. n \in Levels
    BY <1>1, NextLevel
  <2> HIDE DEF n
  <2>3. e \in Epoch /\ e.time = t /\ e.level = n
    BY <2>1, <2>2 DEF Epoch
  <2>4. Base(e) = getBaseTime(t, n) /\ Base(e) \in Nat /\ Base(e) <= t
    BY <2>3, EpochTyped DEF Base
  <2> QED
    BY <2>2, <2>3, <2>4 DEF n
<1> QED
  BY <1>2, <1>3

\* Ranks and weights are natural numbers.
LEMMA RankTyped ==
    ASSUME NEW e \in Epoch, NEW t \in Times
    PROVE  /\ Rank(e, t) \in 0..(HighestLevel + 1)
           /\ Weight(e, t) \in Nat
           /\ t * (HighestLevel + 2) \in Nat
<1>1. t \in Nat /\ HighestLevel \in Nat /\ Levels = 0..HighestLevel
  BY EpochTyped, EpochConstants DEF Levels, LowestLevel
<1>2. Rank(e, t) \in 0..(HighestLevel + 1)
  BY <1>1 DEF Rank
<1>3. t * (HighestLevel + 2) \in Nat
  BY <1>1
<1> QED
  BY <1>2, <1>3 DEF Weight

\* Looking before an epoch (epoch.Base() - 1) lowers the weight.
LEMMA LookingBack ==
    ASSUME NEW e \in Epoch, NEW t \in Times, NEW h \in Epoch, NEW b \in Nat,
           b # 0, b <= t
    PROVE  b - 1 \in Times /\ b - 1 < t /\ Weight(h, b - 1) < Weight(e, t)
<1>1. t \in Nat /\ HighestLevel \in Nat /\ 2^WordBits \in Nat
  BY EpochTyped, EpochConstants, PowerOfTwo
<1>2. b - 1 \in Times /\ b - 1 < t
  BY <1>1 DEF Times
<1> DEFINE k == HighestLevel + 2
<1>3. (b - 1) * k + k <= t * k
  <2> HIDE DEF k
  <2>1. k \in Nat
    BY <1>1 DEF k
  <2>2. \A x, y \in Nat : x < y => x * k + k <= y * k
    BY <2>1
  <2> QED
    BY <1>1, <1>2, <2>2
<1>4. /\ Rank(h, b - 1) \in 0..(HighestLevel + 1) /\ (b - 1) * k \in Nat
      /\ Rank(e, t) \in 0..(HighestLevel + 1) /\ t * k \in Nat
  BY <1>2, RankTyped
<1> QED
  BY <1>1, <1>2, <1>3, <1>4 DEF Weight

\* Within the period of the last update the next level is one lower.
LEMMA NarrowerLevel ==
    ASSUME NEW last \in Epoch, NEW t \in Times, last # NoClue,
           last.level \in Levels, getBaseTime(t, last.level) = Base(last),
           NEW n, n = GetNextLevel(last, t)
    PROVE  n \in Levels /\ IF last.level = 0 THEN n = 0 ELSE n = last.level - 1
<1>1. t \in Nat /\ last.level \in Nat /\ last.time \in Nat /\ Levels \subseteq Nat
  BY EpochTyped
<1>2. n \in Levels /\ last.level # WorstLevel /\ n >= last.level - 1
  BY <1>1, NextLevel, EpochConstants DEF Levels
<1>3. ASSUME n > 0, n > last.level - 1
      PROVE  FALSE
  <2>1. getBaseTime(Base(last), n) # getBaseTime(t, n)
    BY <1>1, <1>3, NextLevel
  <2>2. last.level <= n /\ n \in Nat
    BY <1>1, <1>2, <1>3
  <2>3. getBaseTime(getBaseTime(t, last.level), n) = getBaseTime(t, n)
    BY <1>1, <2>2, BasesNest
  <2> QED
    BY <2>1, <2>3
<1> QED
  BY <1>1, <1>2, <1>3

\* Looking on from an epoch that was read lowers the weight.
LEMMA LookingAhead ==
    ASSUME NEW last \in Epoch, NEW t \in Times,
           NEW e, e = GetNextEpoch(last, t),
           ~ (e.level = LowestLevel \/ Equals(e, last))
    PROVE  Weight(e, t) < Weight(last, t) /\ e # NoClue
<1>1. /\ e \in Epoch /\ e.time = t /\ e.level \in Levels
      /\ Base(e) = getBaseTime(t, e.level)
      /\ last # NoClue => e.level = GetNextLevel(last, t)
  BY NextEpoch
<1>2. e.level \in Nat /\ e.level > 0 /\ e # NoClue /\ HighestLevel \in Nat
      /\ Levels = 0..HighestLevel
  BY <1>1, EpochConstants DEF Levels, LowestLevel, NoClue
<1>3. Rank(e, t) = e.level
  BY <1>1, <1>2 DEF Rank
<1>4. Rank(e, t) < Rank(last, t)
  <2>1. CASE last # NoClue /\ last.level \in Levels /\ getBaseTime(t, last.level) = Base(last)
    <3>1. e.level = last.level - 1 /\ last.level \in Nat
      BY <1>1, <1>2, <2>1, NarrowerLevel
    <3> QED
      BY <1>3, <2>1, <3>1 DEF Rank
  <2>2. CASE ~ (last # NoClue /\ last.level \in Levels /\ getBaseTime(t, last.level) = Base(last))
    <3>1. Rank(last, t) = HighestLevel + 1
      BY <2>2 DEF Rank
    <3>2. e.level < HighestLevel + 1
      BY <1>1, <1>2
    <3> QED
      BY <1>3, <3>1, <3>2
  <2> QED
    BY <2>1, <2>2
<1>5. /\ Rank(e, t) \in 0..(HighestLevel + 1) /\ Rank(last, t) \in 0..(HighestLevel + 1)
      /\ t * (HighestLevel + 2) \in Nat
  BY <1>1, RankTyped
<1> QED
  BY <1>2, <1>4, <1>5 DEF Weight

-----------------------------------------------------------------------------
\* LongEarthAlgorithm.

\* The search does not look on from e.
Ends(e, last) == e.level = LowestLevel \/ Equals(e, last)

\* The parts of LongEarthRead: what looking ahead and looking back may answer,
\* and the value read.
Ahead(step, k, c) ==
    LET e == GetNextEpoch(k.last, k.t)
    IN  IF Ends(e, k.last) THEN {None}
        ELSE step[[t |-> k.t, last |-> e, cut |-> c]]

Back(step, k, c) ==
    LET e == GetNextEpoch(k.last, k.t)
    IN  IF Base(e) = Base(k.last) \/ Base(e) = 0 THEN {None}
        ELSE step[[t |-> Base(e) - 1, last |-> k.last, cut |-> c]]

ValueR(ch, k) == read(ch, GetNextEpoch(k.last, k.t))

\* LongEarthRead, branch by branch.
LEMMA ReadByCases ==
    ASSUME NEW ch, NEW step, NEW k \in Steps
    PROVE  LongEarthRead(ch, step, k) =
             IF k.cut THEN {None, ValueR(ch, k)} \cup Ahead(step, k, TRUE) \cup Back(step, k, TRUE)
             ELSE IF ValueR(ch, k) # None
             THEN {IF a # None THEN a ELSE ValueR(ch, k) : a \in Ahead(step, k, FALSE)}
             ELSE (Ahead(step, k, TRUE) \ {None}) \cup Back(step, k, FALSE)
<1>1. CASE k.cut
  BY <1>1 DEF LongEarthRead, Ahead, Back, ValueR, Ends
<1>2. CASE ~k.cut /\ ValueR(ch, k) # None
  BY <1>2 DEF LongEarthRead, Ahead, Back, ValueR, Ends
<1>3. CASE ~k.cut /\ ValueR(ch, k) = None
  BY <1>3 DEF LongEarthRead, Ahead, Back, ValueR, Ends
<1> QED
  BY <1>1, <1>2, <1>3

\* Every step another step starts is a step, of smaller weight.
LEMMA StepsGoDown ==
    ASSUME NEW k \in Steps, NEW c \in BOOLEAN,
           NEW e, e = GetNextEpoch(k.last, k.t)
    PROVE  /\ ~ Ends(e, k.last) =>
                /\ [t |-> k.t, last |-> e, cut |-> c] \in Steps
                /\ Weight(e, k.t) < Weight(k.last, k.t)
           /\ Base(e) # 0 =>
                /\ [t |-> Base(e) - 1, last |-> k.last, cut |-> c] \in Steps
                /\ Weight(k.last, Base(e) - 1) < Weight(k.last, k.t)
<1>1. k.t \in Times /\ k.last \in Epoch
  BY DEF Steps
<1>2. e \in Epoch /\ Base(e) \in Nat /\ Base(e) <= k.t
  BY <1>1, NextEpoch
<1>3. ASSUME ~ Ends(e, k.last)
      PROVE  /\ [t |-> k.t, last |-> e, cut |-> c] \in Steps
             /\ Weight(e, k.t) < Weight(k.last, k.t)
  <2>1. Weight(e, k.t) < Weight(k.last, k.t)
    BY <1>1, <1>3, LookingAhead DEF Ends
  <2> QED
    BY <1>1, <1>2, <2>1 DEF Steps
<1>4. ASSUME Base(e) # 0
      PROVE  /\ [t |-> Base(e) - 1, last |-> k.last, cut |-> c] \in Steps
             /\ Weight(k.last, Base(e) - 1) < Weight(k.last, k.t)
  <2>1. Base(e) - 1 \in Times /\ Weight(k.last, Base(e) - 1) < Weight(k.last, k.t)
    BY <1>1, <1>2, <1>4, LookingBack
  <2> QED
    BY <1>1, <2>1 DEF Steps
<1> QED
  BY <1>3, <1>4

\* A step depends only on steps of smaller weight.
LEMMA ReadLooksDown ==
    ASSUME NEW ch, NEW g, NEW h, NEW k \in Steps,
           \A j \in Steps : Weight(j.last, j.t) < Weight(k.last, k.t) => g[j] = h[j]
    PROVE  LongEarthRead(ch, g, k) = LongEarthRead(ch, h, k)
<1> DEFINE e == GetNextEpoch(k.last, k.t)
<1>1. \A c \in BOOLEAN : Ahead(g, k, c) = Ahead(h, k, c)
  <2> SUFFICES ASSUME NEW c \in BOOLEAN
               PROVE  Ahead(g, k, c) = Ahead(h, k, c)
    OBVIOUS
  <2> DEFINE j == [t |-> k.t, last |-> e, cut |-> c]
  <2>1. ~ Ends(e, k.last) => j \in Steps /\ Weight(j.last, j.t) < Weight(k.last, k.t)
    BY StepsGoDown
  <2>2. ~ Ends(e, k.last) => g[j] = h[j]
    BY <2>1
  <2> QED
    BY <2>2 DEF Ahead
<1>2. \A c \in BOOLEAN : Back(g, k, c) = Back(h, k, c)
  <2> SUFFICES ASSUME NEW c \in BOOLEAN
               PROVE  Back(g, k, c) = Back(h, k, c)
    OBVIOUS
  <2> DEFINE j == [t |-> Base(e) - 1, last |-> k.last, cut |-> c]
  <2>1. Base(e) # 0 => j \in Steps /\ Weight(j.last, j.t) < Weight(k.last, k.t)
    BY StepsGoDown
  <2>2. Base(e) # 0 => g[j] = h[j]
    BY <2>1
  <2> QED
    BY <2>2 DEF Back
<1>3. /\ Ahead(g, k, TRUE) = Ahead(h, k, TRUE) /\ Ahead(g, k, FALSE) = Ahead(h, k, FALSE)
      /\ Back(g, k, TRUE) = Back(h, k, TRUE) /\ Back(g, k, FALSE) = Back(h, k, FALSE)
  BY <1>1, <1>2
<1>4. CASE k.cut
  BY ZenonT(40), <1>3, <1>4, ReadByCases
<1>5. CASE ~k.cut /\ ValueR(ch, k) # None
  <2>1. \A step : LongEarthRead(ch, step, k)
          = {IF a # None THEN a ELSE ValueR(ch, k) : a \in Ahead(step, k, FALSE)}
    BY <1>5, ReadByCases
  <2> QED
    BY <1>3, <2>1
<1>6. CASE ~k.cut /\ ValueR(ch, k) = None
  <2>1. \A step : LongEarthRead(ch, step, k)
          = (Ahead(step, k, TRUE) \ {None}) \cup Back(step, k, FALSE)
    BY <1>6, ReadByCases
  <2> QED
    BY <1>3, <2>1
<1> QED
  BY <1>4, <1>5, <1>6

\* A step answers with a slot that was read, or with nothing.
LEMMA ReadAnswers ==
    ASSUME NEW ch, NEW g \in [Steps -> SUBSET (ch \cup {None})], NEW k \in Steps
    PROVE  LongEarthRead(ch, g, k) \in SUBSET (ch \cup {None})
<1> DEFINE V == SUBSET (ch \cup {None})
<1>1. ValueR(ch, k) \in ch \cup {None}
  BY DEF ValueR, read
<1>2. \A c \in BOOLEAN : Ahead(g, k, c) \in V /\ Back(g, k, c) \in V
  BY StepsGoDown DEF Ahead, Back
<1>3. {IF a # None THEN a ELSE ValueR(ch, k) : a \in Ahead(g, k, FALSE)} \in V
  BY <1>1, <1>2
<1>4. CASE k.cut
  <2>1. LongEarthRead(ch, g, k)
          = {None, ValueR(ch, k)} \cup Ahead(g, k, TRUE) \cup Back(g, k, TRUE)
    BY <1>4, ReadByCases
  <2> QED
    BY <1>1, <1>2, <2>1
<1>5. CASE ~k.cut /\ ValueR(ch, k) # None
  <2>1. LongEarthRead(ch, g, k)
          = {IF a # None THEN a ELSE ValueR(ch, k) : a \in Ahead(g, k, FALSE)}
    BY <1>5, ReadByCases
  <2> QED
    BY <1>3, <2>1
<1>6. CASE ~k.cut /\ ValueR(ch, k) = None
  <2>1. LongEarthRead(ch, g, k) = (Ahead(g, k, TRUE) \ {None}) \cup Back(g, k, FALSE)
    BY <1>6, ReadByCases
  <2> QED
    BY <1>2, <2>1
<1> QED
  BY <1>4, <1>5, <1>6

\* LongEarthAlgorithm ends: its recursion is well-founded, so a step is what
\* its goroutines make of the steps they start, and answers with an update.
LEMMA LongEarthUnfolds ==
    ASSUME NEW ch
    PROVE  /\ LongEarthStep(ch) \in [Steps -> SUBSET (ch \cup {None})]
           /\ \A k \in Steps :
                LongEarthStep(ch)[k] = LongEarthRead(ch, LongEarthStep(ch), k)
<1> DEFINE V == SUBSET (ch \cup {None})
           m == [k \in Steps |-> Weight(k.last, k.t)]
           Def == [p \in [Steps -> V] \X Steps |-> LongEarthRead(ch, p[1], p[2])]
<1>1. m \in [Steps -> Nat]
  BY RankTyped DEF Steps
<1>2. V # {}
  OBVIOUS
<1>3. \A g \in [Steps -> V], k \in Steps : Def[<<g, k>>] = LongEarthRead(ch, g, k)
  OBVIOUS
<1>4. Def \in [[Steps -> V] \X Steps -> V]
  BY ReadAnswers
<1>5. \A g, h : \A k \in Steps :
        (\A j \in Steps : m[j] < m[k] => g[j] = h[j])
          => LongEarthRead(ch, g, k) = LongEarthRead(ch, h, k)
  BY ReadLooksDown
<1>6. ASSUME NEW g \in [Steps -> V], NEW h \in [Steps -> V], NEW x \in Steps,
             \A y \in Steps : m[y] < m[x] => g[y] = h[y]
      PROVE  Def[<<g, x>>] = Def[<<h, x>>]
  <2> HIDE DEF m, V, Def
  <2> QED
    BY <1>3, <1>5, <1>6
<1>7. PICK f \in [Steps -> V] : \A x \in Steps : f[x] = Def[<<f, x>>]
  <2> HIDE DEF m, V, Def
  <2>1. LooksDown(Steps, V, m, Def)
    BY <1>1, <1>2, <1>4, <1>6 DEF LooksDown
  <2>2. HasSolution(Steps, V, Def)
    BY <2>1, RecursionHasSolution
  <2> QED
    BY <2>2 DEF HasSolution
<1>8. \A k \in Steps : f[k] = LongEarthRead(ch, f, k)
  BY <1>3, <1>7
<1>9. f = [k \in Steps |-> LongEarthRead(ch, f, k)]
  BY <1>8
<1> DEFINE F == LongEarthStep(ch)
<1>10. F = [k \in Steps |-> LongEarthRead(ch, F, k)]
  BY <1>9, Zenon DEF LongEarthStep
<1> HIDE DEF F
<1>11. \A k \in Steps : F[k] = LongEarthRead(ch, F, k)
  BY <1>10
<1>12. \A k \in Steps : F[k] = f[k]
  <2> DEFINE T == {k \in Steps : F[k] = f[k]}
  <2> HIDE DEF m
  <2>1. ASSUME NEW k \in Steps, \A j \in Steps : m[j] < m[k] => j \in T
        PROVE  k \in T
    <3>1. \A j \in Steps : m[j] < m[k] => F[j] = f[j]
      BY <2>1
    <3>2. LongEarthRead(ch, F, k) = LongEarthRead(ch, f, k)
      BY <1>5, <3>1
    <3> QED
      BY <1>8, <1>11, <3>2
  <2> HIDE DEF T
  <2>2. Steps \subseteq T
    BY <1>1, <2>1, MeasureInduction
  <2> QED
    BY <2>2 DEF T
<1>13. F \in [Steps -> V]
  BY <1>10, <1>12
<1> QED
  BY <1>11, <1>13 DEF F

-----------------------------------------------------------------------------
\* What each read of a search tells.

\* The updates are in slots, none of them below an empty slot.
Placed(ch) ==
    /\ ch \subseteq Slots
    /\ \A c \in ch : EpochID(c) = c
    /\ \A c \in ch : \A l \in Levels : l >= c.level => EpochID([time |-> c.time, level |-> l]) \in ch

\* L is the slot of the last update, written at time u: no update was written
\* later, and none is inside its period.
LastPlaced(ch, L, u) ==
    /\ L \in ch /\ u \in Times
    /\ L = EpochID([time |-> u, level |-> L.level])
    /\ \A c \in ch : c.time <= u
    /\ \A c \in ch : c.level < L.level => getBaseTime(c.time, L.level) # L.time

\* A search at time t from last can find L: last is an update or no hint at all,
\* and when it is not L itself the search begins after L was written.
Seeks(ch, L, u, last, t) ==
    /\ t \in Times /\ last \in Epoch /\ last # NoClue
    /\ last = worstHint \/ EpochID(last) \in ch
    /\ Base(last) <= t
    /\ EpochID(last) = L \/ u <= t

\* A slot is an epoch.
LEMMA SlotIsEpoch ==
    ASSUME NEW c \in Slots
    PROVE  /\ c \in Epoch /\ c.time \in Nat /\ c.level \in Nat /\ c.level \in Levels
           /\ c # None
BY EpochTyped, EpochConstants DEF Slots, Epoch, None, Times

\* The slot an update is written to: a slot of epoch.go that starts in the past.
LEMMA SlotTyped ==
    ASSUME NEW t \in Times, NEW l \in Levels,
           NEW slot, slot = EpochID([time |-> t, level |-> l])
    PROVE  /\ slot \in Slots /\ slot = [time |-> getBaseTime(t, l), level |-> l]
           /\ slot.time = getBaseTime(t, l) /\ slot.level = l
           /\ getBaseTime(t, l) \in Nat /\ getBaseTime(t, l) <= t
<1> DEFINE e == [time |-> t, level |-> l]
<1>1. e \in Epoch /\ e.time = t /\ e.level = l
  BY DEF Epoch
<1>2. Base(e) \in Times /\ Base(e) \in Nat /\ Base(e) <= t /\ Base(e) = getBaseTime(t, l)
  BY <1>1, EpochTyped DEF Base
<1> QED
  BY <1>1, <1>2 DEF EpochID, Slots

\* worstHint is an epoch that starts at 0, and is not the zero epoch.
LEMMA WorstHintBase == worstHint \in Epoch /\ Base(worstHint) = 0 /\ worstHint # NoClue
<1>1. 2^WordBits \in Nat \ {0} /\ WorstLevel \in Nat /\ WorstLevel # 0
  BY EpochConstants, PowerOfTwo
<1>2. worstHint \in Epoch
  BY <1>1 DEF worstHint, Epoch, Times
<1>3. Base(worstHint) \in Nat /\ Base(worstHint) <= 0
  BY <1>1, BaseInPast DEF Base, worstHint
<1> QED
  BY <1>1, <1>2, <1>3 DEF worstHint, NoClue

\* The next epoch does not start before the period of the last update.
LEMMA NextIsNotBefore ==
    ASSUME NEW last \in Epoch, NEW t \in Times, last # NoClue, Base(last) <= t,
           NEW e, e = GetNextEpoch(last, t)
    PROVE  Base(last) <= Base(e)
<1> DEFINE b == Base(last)
           n == e.level
<1>1. /\ t \in Nat /\ b \in Nat /\ last.level \in Nat /\ last.time \in Nat
      /\ Levels \subseteq Nat
  BY EpochTyped
<1>2. n \in Levels /\ n \in Nat /\ Base(e) = getBaseTime(t, n) /\ n = GetNextLevel(last, t)
  BY <1>1, NextEpoch
<1>3. getBaseTime(b, n) <= getBaseTime(t, n) /\ getBaseTime(b, n) \in Nat
      /\ getBaseTime(t, n) \in Nat
  BY <1>1, <1>2, BaseMonotone, BaseInPast
<1> HIDE DEF n, b
<1>4. CASE n <= last.level
  <2>1. getBaseTime(getBaseTime(last.time, last.level), n) = getBaseTime(last.time, last.level)
    BY <1>1, <1>2, <1>4, BasesNest
  <2> QED
    BY <1>2, <1>3, <2>1 DEF b, Base
<1>5. CASE n > last.level
  <2>1. getBaseTime(b, n) # getBaseTime(t, n)
    BY <1>1, <1>2, <1>5, NextLevel DEF b
  <2>2. ASSUME getBaseTime(t, n) < b
        PROVE  FALSE
    <3>1. getBaseTime(b, n) = getBaseTime(getBaseTime(t, n), n)
      <4>1. getBaseTime(getBaseTime(t, n), n) = getBaseTime(t, n)
        BY <1>1, <1>2, BasesNest
      <4> QED
        BY <1>1, <1>2, <1>3, <2>2, <4>1, BaseBetween DEF b
    <3>2. getBaseTime(getBaseTime(t, n), n) = getBaseTime(t, n)
      BY <1>1, <1>2, BasesNest
    <3> QED
      BY <2>1, <3>1, <3>2
  <2> QED
    BY <1>1, <1>2, <1>3, <2>2 DEF b
<1> QED
  BY <1>1, <1>2, <1>4, <1>5

\* The types and orders of what a lookup has in hand.
LEMMA SeekFacts ==
    ASSUME NEW ch, NEW L, NEW u, NEW last, NEW t, NEW e,
           Placed(ch), LastPlaced(ch, L, u), Seeks(ch, L, u, last, t),
           e = GetNextEpoch(last, t)
    PROVE  /\ t \in Nat /\ u \in Nat /\ Levels \subseteq Nat
           /\ last \in Epoch /\ last # NoClue /\ last.level \in Nat /\ last.time \in Nat
           /\ Base(last) \in Nat /\ Base(last) <= t /\ Base(last) <= Base(e)
           /\ L \in Epoch /\ L.level \in Levels /\ L.level \in Nat /\ L.time \in Nat
           /\ L.time = getBaseTime(u, L.level) /\ L.time <= u
           /\ e \in Epoch /\ e.time = t /\ e.level \in Levels /\ e.level \in Nat
           /\ e.level = GetNextLevel(last, t)
           /\ Base(e) = getBaseTime(t, e.level) /\ Base(e) \in Nat /\ Base(e) <= t
           /\ EpochID(e) = [time |-> Base(e), level |-> e.level]
<1>1. t \in Times /\ last \in Epoch /\ last # NoClue /\ Base(last) <= t
  BY DEF Seeks
<1>2. Times \subseteq Nat /\ Levels \subseteq Nat /\ last.level \in Nat /\ last.time \in Nat
      /\ Base(last) \in Nat
  BY <1>1, EpochTyped
<1>3. e \in Epoch /\ e.time = t /\ e.level \in Levels
      /\ Base(e) = getBaseTime(t, e.level) /\ Base(e) \in Nat /\ Base(e) <= t
      /\ e.level = GetNextLevel(last, t)
  BY <1>1, NextEpoch
<1>4. Base(last) <= Base(e)
  BY <1>1, NextIsNotBefore
<1>5. L \in Slots /\ u \in Times /\ L = EpochID([time |-> u, level |-> L.level])
  BY DEF Placed, LastPlaced
<1>6. L \in Epoch /\ L.level \in Levels /\ L.level \in Nat /\ L.time \in Nat
  BY <1>5, SlotIsEpoch
<1>7. L.time = getBaseTime(u, L.level)
  BY <1>5 DEF EpochID, Base
<1>8. L.time <= u
  BY <1>2, <1>5, <1>6, <1>7, BaseInPast
<1> QED
  BY <1>1, <1>2, <1>3, <1>4, <1>5, <1>6, <1>7, <1>8 DEF EpochID

\* A read that succeeds: either the search ends there, and it is the last
\* update, or the slot read is a good place to look on from.
LEMMA HitMovesOn ==
    ASSUME NEW ch, NEW L, NEW u, NEW last, NEW t, NEW e,
           Placed(ch), LastPlaced(ch, L, u), Seeks(ch, L, u, last, t),
           e = GetNextEpoch(last, t), EpochID(e) \in ch
    PROVE  IF Ends(e, last) THEN EpochID(e) = L ELSE Seeks(ch, L, u, e, t)
<1> DEFINE n == e.level
           k == L.level
<1>0. /\ t \in Nat /\ u \in Nat /\ Levels \subseteq Nat
      /\ last \in Epoch /\ last # NoClue /\ last.level \in Nat /\ last.time \in Nat
      /\ Base(last) \in Nat /\ Base(last) <= t
      /\ k \in Levels /\ k \in Nat /\ L.time \in Nat
      /\ L.time = getBaseTime(u, k) /\ L.time <= u
      /\ e \in Epoch /\ e.time = t /\ n \in Levels /\ n \in Nat
      /\ n = GetNextLevel(last, t)
      /\ Base(e) = getBaseTime(t, n) /\ Base(e) \in Nat /\ Base(e) <= t
      /\ EpochID(e) = [time |-> Base(e), level |-> n]
  BY SeekFacts
<1>1. /\ Base(e) <= u
      /\ n < k => getBaseTime(Base(e), k) # L.time
      /\ L = [time |-> L.time, level |-> k]
  BY <1>0 DEF LastPlaced, EpochID
<1>2. EpochID(last) = L => Base(last) = L.time /\ last.level = k
  BY DEF EpochID
<1>3. t \in Times /\ (EpochID(last) = L \/ u <= t)
  BY DEF Seeks
\* A time of the last update's period at which it is not itself the next epoch.
<1>4. ASSUME L.time <= t, t <= u
      PROVE  getBaseTime(t, k) = L.time
  <2>1. getBaseTime(L.time, k) = L.time
    BY <1>0, BasesNest
  <2> QED
    BY <1>0, <1>4, <2>1, BaseBetween
<1>5. ASSUME n = 0
      PROVE  EpochID(e) = L
  <2>1. Base(e) = t /\ t <= u
    BY <1>0, <1>1, <1>5, BaseOfLowest
  <2>2. L.time <= t
    BY <1>0, <1>2, <1>3, <2>1
  <2>3. getBaseTime(t, k) = L.time
    BY <1>4, <2>1, <2>2
  <2>4. k = 0
    BY <1>0, <1>1, <1>5, <2>1, <2>3
  <2>5. L.time = t
    BY <1>0, <2>3, <2>4, BaseOfLowest
  <2> QED
    BY <1>0, <1>1, <1>5, <2>1, <2>4, <2>5
<1>6. ASSUME Equals(e, last)
      PROVE  n = 0
  <2>1. last.level = n /\ Base(last) = getBaseTime(t, n)
    BY <1>0, <1>6 DEF Equals, EpochID
  <2> QED
    BY <1>0, <1>3, <2>1, NarrowerLevel
<1>7. ASSUME ~ Ends(e, last)
      PROVE  Seeks(ch, L, u, e, t)
  <2>1. e # NoClue /\ n # 0
    BY <1>3, <1>7, <1>0, LookingAhead DEF Ends, LowestLevel
  <2>2. ASSUME EpochID(e) # L, ~ (u <= t)
        PROVE  FALSE
    <3>1. Base(last) = L.time /\ last.level = k
      BY <1>2, <1>3, <2>2
    <3>2. getBaseTime(t, k) = L.time
      BY <1>0, <1>4, <2>2, <3>1
    <3>3. n = k - 1
      BY <1>0, <1>3, <2>1, <3>1, <3>2, NarrowerLevel
    <3>4. getBaseTime(Base(e), k) = L.time
      BY <1>0, <3>2, <3>3, BasesNest
    <3> QED
      BY <1>0, <1>1, <3>3, <3>4
  <2> QED
    BY <1>0, <1>3, <2>1, <2>2 DEF Seeks
<1> QED
  BY <1>5, <1>6, <1>7 DEF Ends, LowestLevel

\* A read that fails: the last update is before the epoch, unless it is the
\* one the search came from, so looking back is right.
LEMMA MissMovesBack ==
    ASSUME NEW ch, NEW L, NEW u, NEW last, NEW t, NEW e,
           Placed(ch), LastPlaced(ch, L, u), Seeks(ch, L, u, last, t),
           e = GetNextEpoch(last, t), EpochID(e) \notin ch
    PROVE  /\ EpochID(last) # L => Base(e) # Base(last)
           /\ Base(e) # Base(last) => Base(e) # 0 /\ Seeks(ch, L, u, last, Base(e) - 1)
<1> DEFINE n == e.level
           k == L.level
<1>0. /\ t \in Nat /\ u \in Nat /\ Levels \subseteq Nat
      /\ last \in Epoch /\ last # NoClue /\ last.level \in Nat /\ last.time \in Nat
      /\ Base(last) \in Nat /\ Base(last) <= t /\ Base(last) <= Base(e)
      /\ k \in Levels /\ k \in Nat /\ L.time \in Nat
      /\ L.time = getBaseTime(u, k) /\ L.time <= u
      /\ e \in Epoch /\ e.time = t /\ n \in Levels /\ n \in Nat
      /\ n = GetNextLevel(last, t)
      /\ Base(e) = getBaseTime(t, n) /\ Base(e) \in Nat /\ Base(e) <= t
      /\ EpochID(e) = [time |-> Base(e), level |-> n]
  BY SeekFacts
<1>1. /\ t \in Times /\ (EpochID(last) = L \/ u <= t)
      /\ last = worstHint \/ EpochID(last) \in ch
  BY DEF Seeks
<1>2. ASSUME EpochID(last) # L, Base(e) <= u
      PROVE  FALSE
  <2>1. getBaseTime(u, n) = Base(e)
    <3>1. getBaseTime(Base(e), n) = Base(e) /\ u <= t
      BY <1>0, <1>1, <1>2, BasesNest
    <3> QED
      BY <1>0, <1>2, <3>1, BaseBetween
  <2>2. CASE k <= n
    <3>1. EpochID([time |-> L.time, level |-> n]) \in ch
      BY <1>0, <2>2 DEF Placed, LastPlaced
    <3>2. getBaseTime(L.time, n) = Base(e)
      BY <1>0, <2>1, <2>2, BasesNest
    <3> QED
      BY <1>0, <3>1, <3>2 DEF EpochID, Base
  <2>3. CASE n < k
    <3>1. getBaseTime(Base(last), k) = L.time
      <4>1. getBaseTime(Base(last), k) = getBaseTime(t, k)
        BY <1>0, <2>3, NextLevel
      <4>2. getBaseTime(Base(e), k) = getBaseTime(t, k)
        BY <1>0, <2>3, BasesNest
      <4>3. getBaseTime(Base(e), k) = getBaseTime(u, k)
        BY <1>0, <2>1, <2>3, BasesNest
      <4> QED
        BY <1>0, <4>1, <4>2, <4>3
    <3>2. last # worstHint /\ EpochID(last) \in ch
      <4>1. last.level = WorstLevel => n = HighestLevel
        BY <1>0, NextLevel
      <4> QED
        BY <1>0, <1>1, <2>3, <4>1, EpochConstants DEF worstHint, Levels, LowestLevel
    <3>3. last.level # WorstLevel
      <4>1. EpochID(last).level = last.level
        BY DEF EpochID
      <4> QED
        BY <3>2, <4>1, EpochConstants DEF Placed, Slots, Levels, LowestLevel
    <3>4. last.level <= k
      BY <1>0, <2>3, <3>3, NextLevel
    <3>5. last.level = k
      BY <1>0, <3>1, <3>2, <3>4 DEF LastPlaced, EpochID
    <3>6. Base(last) = L.time
      BY <1>0, <3>1, <3>5, BasesNest DEF Base
    <3> QED
      BY <1>2, <3>5, <3>6 DEF LastPlaced, EpochID
  <2> QED
    BY <1>0, <2>2, <2>3
<1>3. Base(last) <= u
  <2>1. CASE last = worstHint
    BY <1>0, <2>1, WorstHintBase
  <2>2. CASE EpochID(last) \in ch
    BY <2>2 DEF LastPlaced, EpochID
  <2> QED
    BY <1>1, <2>1, <2>2
<1>4. EpochID(last) # L => Base(e) # Base(last) /\ u <= Base(e) - 1
  BY <1>0, <1>2, <1>3
<1>5. ASSUME Base(e) # Base(last)
      PROVE  Base(e) # 0 /\ Seeks(ch, L, u, last, Base(e) - 1)
  <2>1. Base(e) # 0 /\ Base(last) <= Base(e) - 1
    BY <1>0, <1>5
  <2>2. Base(e) - 1 \in Times
    BY <1>0, <1>1, <2>1, LookingBack
  <2> QED
    BY <1>0, <1>1, <1>4, <2>1, <2>2 DEF Seeks
<1> QED
  BY <1>4, <1>5

-----------------------------------------------------------------------------
\* The answers of LongEarthAlgorithm.

\* A look-ahead that starts at an empty slot finds nothing, however its
\* goroutines are timed: the slots inside an empty one are empty.
LEMMA NothingBelowEmptySlot ==
    ASSUME NEW ch, Placed(ch), NEW k \in Steps, k.cut,
           k.last # NoClue, k.last.level \in Levels, k.last.level > 0,
           EpochID(k.last) \notin ch, getBaseTime(k.t, k.last.level) = Base(k.last)
    PROVE  LongEarthStep(ch)[k] = {None}
<1> DEFINE f == LongEarthStep(ch)
           m == [j \in Steps |-> Weight(j.last, j.t)]
           Below(j) == /\ j.cut /\ j.last # NoClue /\ j.last.level \in Levels /\ j.last.level > 0
                       /\ EpochID(j.last) \notin ch
                       /\ getBaseTime(j.t, j.last.level) = Base(j.last)
           T == {j \in Steps : Below(j) => f[j] = {None}}
<1>1. m \in [Steps -> Nat]
  BY RankTyped DEF Steps
<1>2. ASSUME NEW j \in Steps, \A i \in Steps : m[i] < m[j] => i \in T
      PROVE  j \in T
  <2> SUFFICES ASSUME Below(j)
               PROVE  f[j] = {None}
    OBVIOUS
  <2> DEFINE e == GetNextEpoch(j.last, j.t)
             p == j.last.level
             n == e.level
             b == Base(j.last)
  <2>1. j.last \in Epoch /\ j.t \in Times
    BY DEF Steps
  <2>2. /\ j.t \in Nat /\ p \in Nat /\ Levels \subseteq Nat /\ b \in Nat
        /\ e \in Epoch /\ e.time = j.t /\ n \in Levels /\ n \in Nat
        /\ Base(e) = getBaseTime(j.t, n) /\ Base(e) \in Nat /\ Base(e) <= j.t
        /\ n = GetNextLevel(j.last, j.t)
    <3>1. j.t \in Nat /\ p \in Nat /\ Levels \subseteq Nat /\ b \in Nat
      BY <2>1, EpochTyped
    <3>2. /\ e \in Epoch /\ e.time = j.t /\ n \in Levels
          /\ Base(e) = getBaseTime(j.t, n) /\ Base(e) \in Nat /\ Base(e) <= j.t
          /\ n = GetNextLevel(j.last, j.t)
      BY <2>1, NextEpoch
    <3> QED
      BY <3>1, <3>2
  <2>3. n = p - 1
    BY <2>1, <2>2, NarrowerLevel
  <2>4. getBaseTime(Base(e), p) = b /\ b <= Base(e)
    BY <2>2, <2>3, BasesNest
  <2>5. EpochID(e) \notin ch
    <3> SUFFICES ASSUME EpochID(e) \in ch
                 PROVE  FALSE
      OBVIOUS
    <3>1. EpochID([time |-> Base(e), level |-> p]) \in ch
      BY <2>2, <2>3 DEF Placed, EpochID
    <3>2. EpochID([time |-> Base(e), level |-> p]) = EpochID(j.last)
      BY <2>4 DEF EpochID, Base
    <3> QED
      BY <3>1, <3>2
  <2>6. ValueR(ch, j) = None
    BY <2>5 DEF ValueR, read
  <2>7. Ahead(f, j, TRUE) = {None}
    <3>1. CASE Ends(e, j.last)
      BY <3>1 DEF Ahead
    <3>2. CASE ~ Ends(e, j.last)
      <4> DEFINE i == [t |-> j.t, last |-> e, cut |-> TRUE]
      <4>1. i \in Steps /\ m[i] < m[j]
        BY <3>2, StepsGoDown
      <4>2. e # NoClue /\ n > 0
        BY <2>1, <2>2, <3>2, LookingAhead DEF Ends, LowestLevel
      <4>3. Below(i)
        BY <2>2, <2>5, <4>2
      <4>4. f[i] = {None}
        BY <1>2, <4>1, <4>3
      <4> QED
        BY <3>2, <4>4 DEF Ahead
    <3> QED
      BY <3>1, <3>2
  <2>8. Back(f, j, TRUE) = {None}
    <3>1. CASE Base(e) = b \/ Base(e) = 0
      BY <3>1 DEF Back
    <3>2. CASE ~ (Base(e) = b \/ Base(e) = 0)
      <4> DEFINE i == [t |-> Base(e) - 1, last |-> j.last, cut |-> TRUE]
      <4>1. i \in Steps /\ m[i] < m[j]
        BY <3>2, StepsGoDown
      <4>2. getBaseTime(Base(e) - 1, p) = b
        <5>1. b <= Base(e) - 1 /\ Base(e) - 1 <= Base(e) /\ Base(e) - 1 \in Nat
          BY <2>2, <2>4, <3>2
        <5>2. getBaseTime(b, p) = b
          BY <2>2, <2>4, BasesNest
        <5> QED
          BY <2>2, <2>4, <5>1, <5>2, BaseBetween
      <4>3. Below(i)
        BY <4>2
      <4>4. f[i] = {None}
        BY <1>2, <4>1, <4>3
      <4> QED
        BY <3>2, <4>4 DEF Back
    <3> QED
      BY <3>1, <3>2
  <2>9. LongEarthRead(ch, f, j) = {None, ValueR(ch, j)} \cup Ahead(f, j, TRUE) \cup Back(f, j, TRUE)
    BY ReadByCases
  <2> QED
    BY <2>6, <2>7, <2>8, <2>9, LongEarthUnfolds
<1>3. Steps \subseteq T
  <2> HIDE DEF m, T
  <2> QED
    BY <1>1, <1>2, MeasureInduction
<1> QED
  BY <1>3

\* A search that starts from the last update, or before it, answers with the
\* last update; only one that starts from the last update may find nothing.
LEMMA SearchFindsLast ==
    ASSUME NEW ch, NEW L, NEW u, Placed(ch), LastPlaced(ch, L, u),
           NEW k \in Steps, ~ k.cut, Seeks(ch, L, u, k.last, k.t)
    PROVE  /\ LongEarthStep(ch)[k] \in {{L}, {None}, {L, None}}
           /\ EpochID(k.last) # L => LongEarthStep(ch)[k] = {L}
<1> DEFINE f == LongEarthStep(ch)
           m == [j \in Steps |-> Weight(j.last, j.t)]
           Asked(j) == ~ j.cut /\ Seeks(ch, L, u, j.last, j.t)
           Finds(j) == /\ f[j] \in {{L}, {None}, {L, None}}
                       /\ EpochID(j.last) # L => f[j] = {L}
           T == {j \in Steps : Asked(j) => Finds(j)}
<1>1. m \in [Steps -> Nat]
  BY RankTyped DEF Steps
<1>2. ASSUME NEW j \in Steps, \A i \in Steps : m[i] < m[j] => i \in T
      PROVE  j \in T
  <2> SUFFICES ASSUME Asked(j)
               PROVE  Finds(j)
    OBVIOUS
  <2> DEFINE e == GetNextEpoch(j.last, j.t)
  <2>0. L \in Epoch /\ L # None
    BY SlotIsEpoch DEF Placed, LastPlaced
  <2>1. f[j] = LongEarthRead(ch, f, j)
    BY LongEarthUnfolds
  <2>2. CASE EpochID(e) \in ch
    <3>1. ValueR(ch, j) = EpochID(e) /\ EpochID(e) # None
      BY <2>2, SlotIsEpoch DEF ValueR, read, Placed
    <3>2. f[j] = {IF a # None THEN a ELSE EpochID(e) : a \in Ahead(f, j, FALSE)}
      <4>1. LongEarthRead(ch, f, j)
              = {IF a # None THEN a ELSE ValueR(ch, j) : a \in Ahead(f, j, FALSE)}
        BY <3>1, ReadByCases
      <4> HIDE DEF f, e
      <4> QED
        BY <2>1, <3>1, <4>1
    <3>3. CASE Ends(e, j.last)
      <4>1. Ahead(f, j, FALSE) = {None}
        BY <3>3 DEF Ahead
      <4>2. EpochID(e) = L
        BY <2>2, <3>3, HitMovesOn
      <4> QED
        BY <3>2, <4>1, <4>2
    <3>4. CASE ~ Ends(e, j.last)
      <4> DEFINE i == [t |-> j.t, last |-> e, cut |-> FALSE]
      <4>1. i \in Steps /\ m[i] < m[j]
        BY <3>4, StepsGoDown
      <4>2. Seeks(ch, L, u, e, j.t)
        BY <2>2, <3>4, HitMovesOn
      <4>3. Finds(i)
        BY <1>2, <4>1, <4>2
      <4>4. Ahead(f, j, FALSE) = f[i]
        BY <3>4 DEF Ahead
      <4>5. f[i] \in {{L}, {None}, {L, None}} /\ (EpochID(e) # L => f[i] = {L})
        BY <4>3
      <4> HIDE DEF f, i, e
      <4>6. f[j] = {IF a # None THEN a ELSE EpochID(e) : a \in f[i]}
        BY <3>2, <4>4
      <4>7. f[j] = {L}
        BY <2>0, <4>5, <4>6
      <4> QED
        BY <4>7
    <3> QED
      BY <3>3, <3>4
  <2>3. CASE EpochID(e) \notin ch
    <3>1. ValueR(ch, j) = None
      BY <2>3 DEF ValueR, read
    <3>2. f[j] = (Ahead(f, j, TRUE) \ {None}) \cup Back(f, j, FALSE)
      BY <2>1, <3>1, ReadByCases
    <3>3. Ahead(f, j, TRUE) = {None}
      <4>1. CASE Ends(e, j.last)
        BY <4>1 DEF Ahead
      <4>2. CASE ~ Ends(e, j.last)
        <5> DEFINE i == [t |-> j.t, last |-> e, cut |-> TRUE]
        <5>1. i \in Steps
          BY <4>2, StepsGoDown
        <5>2. j.t \in Times /\ j.last \in Epoch
          BY DEF Steps
        <5>3. /\ e # NoClue /\ e.level \in Levels /\ e.level > 0
              /\ getBaseTime(j.t, e.level) = Base(e)
          <6>1. e # NoClue /\ e.level # 0
            BY <4>2, <5>2, LookingAhead DEF Ends, LowestLevel
          <6>2. e.level \in Levels /\ Base(e) = getBaseTime(j.t, e.level)
            BY <5>2, NextEpoch
          <6>3. e.level \in Nat
            BY <5>2, <6>2, EpochTyped
          <6> HIDE DEF e
          <6> QED
            BY <6>1, <6>2, <6>3
        <5>4. f[i] = {None}
          BY <2>3, <5>1, <5>3, NothingBelowEmptySlot
        <5> QED
          BY <4>2, <5>4 DEF Ahead
      <4> QED
        BY <4>1, <4>2
    <3>4. f[j] = Back(f, j, FALSE)
      BY <3>2, <3>3
    <3>5. CASE Base(e) = Base(j.last)
      <4>1. EpochID(j.last) = L
        BY <2>3, <3>5, MissMovesBack
      <4>2. Back(f, j, FALSE) = {None}
        BY <3>5 DEF Back
      <4> QED
        BY <3>4, <4>1, <4>2
    <3>6. CASE Base(e) # Base(j.last)
      <4> DEFINE i == [t |-> Base(e) - 1, last |-> j.last, cut |-> FALSE]
      <4>1. Base(e) # 0 /\ Seeks(ch, L, u, j.last, Base(e) - 1)
        BY <2>3, <3>6, MissMovesBack
      <4>2. i \in Steps /\ m[i] < m[j]
        BY <4>1, StepsGoDown
      <4>3. Finds(i)
        BY <1>2, <4>1, <4>2
      <4>4. Back(f, j, FALSE) = f[i]
        BY <3>6, <4>1 DEF Back
      <4> QED
        BY <3>4, <4>3, <4>4
    <3> QED
      BY <3>5, <3>6
  <2> QED
    BY <2>2, <2>3
<1>3. Steps \subseteq T
  <2> HIDE DEF m, T
  <2> QED
    BY <1>1, <1>2, MeasureInduction
<1> QED
  BY <1>3

\* A search of a feed without updates finds nothing.
LEMMA SearchOfEmptyFeed ==
    ASSUME NEW k \in Steps
    PROVE  LongEarthStep({})[k] = {None}
<1> DEFINE f == LongEarthStep({})
           m == [j \in Steps |-> Weight(j.last, j.t)]
           T == {j \in Steps : f[j] = {None}}
<1>1. m \in [Steps -> Nat]
  BY RankTyped DEF Steps
<1>2. ASSUME NEW j \in Steps, \A i \in Steps : m[i] < m[j] => i \in T
      PROVE  j \in T
  <2> DEFINE e == GetNextEpoch(j.last, j.t)
  <2>1. ValueR({}, j) = None
    BY DEF ValueR, read
  <2>2. \A c \in BOOLEAN : Ahead(f, j, c) = {None}
    <3> SUFFICES ASSUME NEW c \in BOOLEAN
                 PROVE  Ahead(f, j, c) = {None}
      OBVIOUS
    <3> DEFINE i == [t |-> j.t, last |-> e, cut |-> c]
    <3>1. ~ Ends(e, j.last) => i \in Steps /\ m[i] < m[j]
      BY StepsGoDown
    <3>2. ~ Ends(e, j.last) => f[i] = {None}
      BY <1>2, <3>1
    <3> QED
      BY <3>2 DEF Ahead
  <2>3. \A c \in BOOLEAN : Back(f, j, c) = {None}
    <3> SUFFICES ASSUME NEW c \in BOOLEAN
                 PROVE  Back(f, j, c) = {None}
      OBVIOUS
    <3> DEFINE i == [t |-> Base(e) - 1, last |-> j.last, cut |-> c]
    <3>1. Base(e) # 0 => i \in Steps /\ m[i] < m[j]
      BY StepsGoDown
    <3>2. Base(e) # 0 => f[i] = {None}
      BY <1>2, <3>1
    <3> QED
      BY <3>2 DEF Back
  <2>4. f[j] = LongEarthRead({}, f, j)
    BY LongEarthUnfolds
  <2>5. CASE j.cut
    <3>1. LongEarthRead({}, f, j)
            = {None, ValueR({}, j)} \cup Ahead(f, j, TRUE) \cup Back(f, j, TRUE)
      BY <2>5, ReadByCases
    <3> QED
      BY <2>1, <2>2, <2>3, <2>4, <3>1
  <2>6. CASE ~ j.cut
    <3>1. LongEarthRead({}, f, j) = (Ahead(f, j, TRUE) \ {None}) \cup Back(f, j, FALSE)
      BY <2>1, <2>6, ReadByCases
    <3> QED
      BY <2>2, <2>3, <2>4, <3>1
  <2> QED
    BY <2>5, <2>6
<1>3. Steps \subseteq T
  <2> HIDE DEF m, T
  <2> QED
    BY <1>1, <1>2, MeasureInduction
<1> QED
  BY <1>3

\* The restart time of LongEarthAlgorithm is a clock value (it may wrap).
LEMMA RestartTimeTyped ==
    ASSUME NEW clue \in Epoch
    PROVE  RestartTime(clue) \in Times
<1>1. 2^WordBits \in Nat \ {0} /\ Base(clue) \in Nat
  BY EpochConstants, PowerOfTwo, EpochTyped
<1> DEFINE p == 2^WordBits
           x == Base(clue) - (IF clue.level = HighestLevel THEN 1 ELSE 0)
<1>2. p \in Nat \ {0} /\ x \in Int
  BY <1>1
<1> HIDE DEF p, x
<1>3. x % p \in 0..(p - 1)
  BY <1>2
<1> QED
  BY <1>3 DEF RestartTime, Times, p, x

\* A search answers with a slot that was read, or with nothing.
LEMMA SearchTyped ==
    ASSUME NEW ch, NEW when \in Times, NEW clue \in Epoch
    PROVE  Search(ch, when, clue) \in SUBSET (ch \cup {None})
<1> DEFINE k == [t |-> when, last |-> clue, cut |-> FALSE]
<1>1. k \in Steps
  BY DEF Steps
<1> HIDE DEF k
<1>2. LongEarthStep(ch)[k] \in SUBSET (ch \cup {None})
  BY <1>1, LongEarthUnfolds
<1> QED
  BY <1>2 DEF Search, k

\* LongEarthAlgorithm returns an update that was read, or none, whatever reads
\* time out, whatever its hint and however its goroutines are timed.
THEOREM LongEarthAnswersAreUpdates ==
    ASSUME NEW ch, NEW when \in Times, NEW clue \in Epoch
    PROVE  LongEarthAlgorithm(ch, when, clue) \in SUBSET (ch \cup {None})
<1>1. /\ Search(ch, when, clue) \in SUBSET (ch \cup {None})
      /\ Search(ch, when, worstHint) \in SUBSET (ch \cup {None})
      /\ Search(ch, RestartTime(clue), worstHint) \in SUBSET (ch \cup {None})
  BY SearchTyped, WorstHintBase, RestartTimeTyped
<1>2. read(ch, clue) \in ch \cup {None}
  BY DEF read
<1> QED
  BY <1>1, <1>2 DEF LongEarthAlgorithm

\* LongEarthAlgorithm finds nothing in a feed without updates.
THEOREM LongEarthOfEmptyFeed ==
    ASSUME NEW when \in Times
    PROVE  LongEarthAlgorithm({}, when, NoClue) = {None}
<1> DEFINE k == [t |-> when, last |-> worstHint, cut |-> FALSE]
<1>1. k \in Steps
  BY WorstHintBase DEF Steps
<1>2. LongEarthStep({})[k] = {None}
  <2> HIDE DEF k
  <2> QED
    BY <1>1, SearchOfEmptyFeed
<1> QED
  BY <1>2 DEF LongEarthAlgorithm, Search

\* A lookup without a hint, or with any update of the feed as its hint, starts
\* from the last update or before it.
LEMMA CluesSeek ==
    ASSUME NEW ch, NEW L, NEW u, Placed(ch), LastPlaced(ch, L, u),
           NEW when \in Times, u <= when,
           NEW clue \in ch \cup {NoClue},
           NEW hint, hint = IF clue = NoClue THEN worstHint ELSE clue
    PROVE  Seeks(ch, L, u, hint, when) /\ (clue = NoClue => EpochID(hint) # L)
<1>1. u \in Nat /\ when \in Nat
  BY WorstHintBase, EpochTyped DEF LastPlaced
<1>2. CASE clue = NoClue
  <2>1. hint = worstHint /\ hint \in Epoch /\ Base(hint) = 0 /\ hint # NoClue
    BY <1>2, WorstHintBase
  <2>2. EpochID(hint).level = WorstLevel /\ L.level # WorstLevel
    BY <2>1, EpochConstants
       DEF worstHint, EpochID, Placed, LastPlaced, Slots, Levels, LowestLevel
  <2> QED
    BY <1>1, <2>1, <2>2 DEF Seeks
<1>3. CASE clue # NoClue
  <2>1. hint = clue /\ clue \in ch /\ clue \in Slots /\ EpochID(clue) = clue /\ clue.time <= u
    BY <1>3 DEF Placed, LastPlaced
  <2>2. clue \in Epoch /\ clue.time \in Nat /\ Base(clue) = clue.time
    BY <2>1, SlotIsEpoch DEF EpochID
  <2> QED
    BY <1>1, <1>3, <2>1, <2>2 DEF Seeks
<1> QED
  BY <1>2, <1>3

\* LongEarthAlgorithm answers with the last update written, in every timing of
\* its goroutines, without a hint or with any earlier update as the hint, in
\* every feed whose updates are placed without holes.
THEOREM LongEarthFindsLast ==
    ASSUME NEW ch, NEW L, NEW u, Placed(ch), LastPlaced(ch, L, u),
           NEW when \in Times, u <= when, NEW clue \in ch \cup {NoClue}
    PROVE  LongEarthAlgorithm(ch, when, clue) = {L}
<1> DEFINE hint == IF clue = NoClue THEN worstHint ELSE clue
           k == [t |-> when, last |-> hint, cut |-> FALSE]
           answers == Search(ch, when, hint)
<1>1. Seeks(ch, L, u, hint, when) /\ (clue = NoClue => EpochID(hint) # L)
  BY CluesSeek
<1>2. k \in Steps
  BY <1>1 DEF Steps, Seeks
<1>3. answers \in {{L}, {None}, {L, None}} /\ (EpochID(hint) # L => answers = {L})
  <2>0. k.last = hint /\ k.t = when /\ ~ k.cut
    OBVIOUS
  <2> HIDE DEF hint, k
  <2>1. /\ LongEarthStep(ch)[k] \in {{L}, {None}, {L, None}}
        /\ EpochID(hint) # L => LongEarthStep(ch)[k] = {L}
    BY <1>1, <1>2, <2>0, SearchFindsLast
  <2> QED
    BY <2>1 DEF Search, k
<1>4. L \in Slots /\ L # None
  BY SlotIsEpoch DEF Placed, LastPlaced
<1>5. CASE clue = NoClue
  BY <1>1, <1>3, <1>5 DEF LongEarthAlgorithm
<1>6. CASE clue # NoClue
  <2> DEFINE challenge == IF read(ch, clue) # None THEN {read(ch, clue)}
                          ELSE Search(ch, RestartTime(clue), worstHint)
  <2>1. hint = clue /\ clue \in ch /\ clue \in Slots /\ EpochID(clue) = clue
    BY <1>6 DEF Placed
  <2>2. read(ch, clue) = clue /\ clue # None
    BY <2>1, SlotIsEpoch DEF read
  <2>3. LongEarthAlgorithm(ch, when, clue)
          = (answers \ {None}) \cup (IF None \in answers THEN {clue} ELSE {})
    BY <1>6, <2>1, <2>2 DEF LongEarthAlgorithm
  <2>4. CASE clue = L
    BY <1>3, <1>4, <2>3, <2>4
  <2>5. CASE clue # L
    BY <1>3, <1>4, <2>1, <2>3, <2>5
  <2> QED
    BY <2>4, <2>5
<1> QED
  BY <1>5, <1>6

-----------------------------------------------------------------------------
\* FluzCapacitorAlgorithm.

\* Where FluzRound goes on: after a read, without its hint, or further back.
Onward(ch, k) ==
    LET e == GetNextEpoch(k.hint, k.t)
    IN  [t |-> k.t, hint |-> e, found |-> read(ch, e)]
Anew(k) == [t |-> Base(k.hint), hint |-> worstHint, found |-> None]
Backward(k) == [k EXCEPT !.t = Base(GetNextEpoch(k.hint, k.t)) - 1]

\* Starting without the hint happens once, and may go to any time.
FluzWeight(k) ==
    (IF k.hint # worstHint /\ k.found = None THEN 2^WordBits * (HighestLevel + 2) ELSE 0)
      + Weight(k.hint, k.t)

\* FluzRound, branch by branch.
LEMMA RoundByCases ==
    ASSUME NEW ch, NEW loop, NEW k \in FluzPositions,
           NEW e, e = GetNextEpoch(k.hint, k.t), NEW v, v = read(ch, e)
    PROVE  FluzRound(ch, loop, k) =
             IF v # None THEN (IF Ends(e, k.hint) THEN v ELSE loop[Onward(ch, k)])
             ELSE IF Base(e) = Base(k.hint)
             THEN (IF k.found # None \/ k.hint = worstHint THEN k.found
                   ELSE IF read(ch, k.hint) # None THEN read(ch, k.hint)
                   ELSE loop[Anew(k)])
             ELSE IF Base(e) = 0 THEN None ELSE loop[Backward(k)]
<1>1. CASE v # None /\ Ends(e, k.hint)
  BY <1>1 DEF FluzRound, Ends
<1>2. CASE v # None /\ ~ Ends(e, k.hint)
  BY <1>2 DEF FluzRound, Ends, Onward
<1>3. CASE v = None /\ Base(e) = Base(k.hint)
  BY <1>3 DEF FluzRound, Ends, Anew
<1>4. CASE v = None /\ Base(e) # Base(k.hint)
  BY <1>4 DEF FluzRound, Ends, Backward
<1> QED
  BY <1>1, <1>2, <1>3, <1>4

\* A weight is below the extra weight of a search that may start anew.
LEMMA WeightBounded ==
    ASSUME NEW e \in Epoch, NEW t \in Times
    PROVE  /\ Weight(e, t) < 2^WordBits * (HighestLevel + 2)
           /\ 2^WordBits * (HighestLevel + 2) \in Nat
<1> DEFINE p == 2^WordBits
           q == HighestLevel + 2
<1>1. p \in Nat /\ q \in Nat /\ HighestLevel \in Nat /\ t \in Nat /\ t < p
  BY EpochConstants, PowerOfTwo, EpochTyped DEF Times
<1>2. Rank(e, t) \in 0..(HighestLevel + 1)
  BY RankTyped
<1>3. t * q + q <= p * q /\ p * q \in Nat /\ t * q \in Nat
  <2> HIDE DEF p, q
  <2>1. \A x, y \in Nat : x < y => x * q + q <= y * q
    BY <1>1
  <2> QED
    BY <1>1, <2>1
<1> QED
  BY <1>1, <1>2, <1>3 DEF Weight

\* Every round FluzCapacitorAlgorithm goes on with has a smaller weight.
LEMMA RoundsGoDown ==
    ASSUME NEW ch, NEW k \in FluzPositions,
           NEW e, e = GetNextEpoch(k.hint, k.t)
    PROVE  /\ FluzWeight(k) \in Nat
           /\ read(ch, e) \in Slots \cup {None}
           /\ read(ch, e) # None /\ ~ Ends(e, k.hint) =>
                Onward(ch, k) \in FluzPositions /\ FluzWeight(Onward(ch, k)) < FluzWeight(k)
           /\ k.found = None /\ k.hint # worstHint =>
                Anew(k) \in FluzPositions /\ FluzWeight(Anew(k)) < FluzWeight(k)
           /\ Base(e) # 0 =>
                Backward(k) \in FluzPositions /\ FluzWeight(Backward(k)) < FluzWeight(k)
<1> DEFINE big == 2^WordBits * (HighestLevel + 2)
<1>1. k.t \in Times /\ k.hint \in Epoch /\ k.found \in Slots \cup {None}
  BY DEF FluzPositions
<1>2. /\ e \in Epoch /\ e.level \in Levels
      /\ Base(e) \in Nat /\ Base(e) <= k.t
  BY <1>1, NextEpoch
<1>3. read(ch, e) \in Slots \cup {None}
  <2>1. Base(e) \in Times
    BY <1>2, EpochTyped
  <2> QED
    BY <1>2, <2>1 DEF read, EpochID, Slots
<1>4. /\ Weight(k.hint, k.t) \in Nat /\ big \in Nat
      /\ Base(k.hint) \in Times /\ worstHint \in Epoch
      /\ Weight(worstHint, Base(k.hint)) \in Nat
      /\ Weight(worstHint, Base(k.hint)) < big
  <2>1. Base(k.hint) \in Times /\ worstHint \in Epoch
    BY <1>1, EpochTyped, WorstHintBase
  <2> QED
    BY <1>1, <2>1, RankTyped, WeightBounded
<1> HIDE DEF big
<1>5. FluzWeight(k) \in Nat
  BY <1>4 DEF FluzWeight, big
<1>6. ASSUME read(ch, e) # None, ~ Ends(e, k.hint)
      PROVE  Onward(ch, k) \in FluzPositions /\ FluzWeight(Onward(ch, k)) < FluzWeight(k)
  <2>1. Onward(ch, k) = [t |-> k.t, hint |-> e, found |-> read(ch, e)]
    BY DEF Onward
  <2>2. Onward(ch, k) \in FluzPositions
    BY <1>1, <1>2, <1>3, <2>1 DEF FluzPositions
  <2>3. Weight(e, k.t) < Weight(k.hint, k.t) /\ Weight(e, k.t) \in Nat
    BY <1>1, <1>2, <1>6, LookingAhead, RankTyped DEF Ends
  <2>4. FluzWeight(Onward(ch, k)) = 0 + Weight(e, k.t)
    BY <1>6, <2>1 DEF FluzWeight
  <2>5. FluzWeight(k) = 0 + Weight(k.hint, k.t) \/ FluzWeight(k) = big + Weight(k.hint, k.t)
    BY DEF FluzWeight, big
  <2> QED
    BY <1>4, <2>2, <2>3, <2>4, <2>5
<1>7. ASSUME k.found = None, k.hint # worstHint
      PROVE  Anew(k) \in FluzPositions /\ FluzWeight(Anew(k)) < FluzWeight(k)
  <2>1. Anew(k) = [t |-> Base(k.hint), hint |-> worstHint, found |-> None]
    BY DEF Anew
  <2>2. Anew(k) \in FluzPositions
    BY <1>4, <2>1 DEF FluzPositions
  <2>3. FluzWeight(Anew(k)) = 0 + Weight(worstHint, Base(k.hint))
    BY <2>1 DEF FluzWeight
  <2>4. FluzWeight(k) = big + Weight(k.hint, k.t)
    BY <1>7 DEF FluzWeight, big
  <2> QED
    BY <1>4, <2>2, <2>3, <2>4
<1>8. ASSUME Base(e) # 0
      PROVE  Backward(k) \in FluzPositions /\ FluzWeight(Backward(k)) < FluzWeight(k)
  <2> DEFINE b == Base(e) - 1
  <2>1. b \in Times /\ Weight(k.hint, b) < Weight(k.hint, k.t)
    BY <1>1, <1>2, <1>8, LookingBack
  <2>2. Weight(k.hint, b) \in Nat
    BY <1>1, <2>1, RankTyped
  <2>3. Backward(k) = [k EXCEPT !.t = b]
    BY DEF Backward
  <2> HIDE DEF b
  <2>4. Backward(k) \in FluzPositions
    BY <2>1, <2>3 DEF FluzPositions
  <2>5. Backward(k).hint = k.hint /\ Backward(k).found = k.found /\ Backward(k).t = b
    BY <2>3 DEF FluzPositions
  <2>6. \/ FluzWeight(k) = 0 + Weight(k.hint, k.t)
           /\ FluzWeight(Backward(k)) = 0 + Weight(k.hint, b)
        \/ FluzWeight(k) = big + Weight(k.hint, k.t)
           /\ FluzWeight(Backward(k)) = big + Weight(k.hint, b)
    BY <2>5 DEF FluzWeight, big
  <2> QED
    BY <1>4, <2>1, <2>2, <2>4, <2>6
<1> QED
  BY <1>3, <1>5, <1>6, <1>7, <1>8

\* A round depends only on rounds of smaller weight.
LEMMA RoundLooksDown ==
    ASSUME NEW ch, NEW g, NEW h, NEW k \in FluzPositions,
           \A j \in FluzPositions : FluzWeight(j) < FluzWeight(k) => g[j] = h[j]
    PROVE  FluzRound(ch, g, k) = FluzRound(ch, h, k)
<1> DEFINE e == GetNextEpoch(k.hint, k.t)
           v == read(ch, e)
<1>1. v # None /\ ~ Ends(e, k.hint) => g[Onward(ch, k)] = h[Onward(ch, k)]
  BY RoundsGoDown
<1>2. k.found = None /\ k.hint # worstHint => g[Anew(k)] = h[Anew(k)]
  BY RoundsGoDown
<1>3. Base(e) # 0 => g[Backward(k)] = h[Backward(k)]
  BY RoundsGoDown
<1> HIDE DEF e, v
<1>4. \A loop : FluzRound(ch, loop, k) =
             IF v # None THEN (IF Ends(e, k.hint) THEN v ELSE loop[Onward(ch, k)])
             ELSE IF Base(e) = Base(k.hint)
             THEN (IF k.found # None \/ k.hint = worstHint THEN k.found
                   ELSE IF read(ch, k.hint) # None THEN read(ch, k.hint)
                   ELSE loop[Anew(k)])
             ELSE IF Base(e) = 0 THEN None ELSE loop[Backward(k)]
  BY RoundByCases DEF e, v
<1> QED
  BY <1>1, <1>2, <1>3, <1>4

\* A round answers with a slot, or with nothing.
LEMMA RoundAnswers ==
    ASSUME NEW ch, NEW g \in [FluzPositions -> ch \cup Slots \cup {None}],
           NEW k \in FluzPositions
    PROVE  FluzRound(ch, g, k) \in ch \cup Slots \cup {None}
<1> DEFINE e == GetNextEpoch(k.hint, k.t)
           v == read(ch, e)
           V == ch \cup Slots \cup {None}
<1>1. /\ v \in V /\ k.found \in V /\ None \in V
      /\ read(ch, k.hint) \in V
  BY DEF FluzPositions, read
<1>2. v # None /\ ~ Ends(e, k.hint) => g[Onward(ch, k)] \in V
  BY RoundsGoDown
<1>3. k.found = None /\ k.hint # worstHint => g[Anew(k)] \in V
  BY RoundsGoDown
<1>4. Base(e) # 0 => g[Backward(k)] \in V
  BY RoundsGoDown
<1> HIDE DEF e, v, V
<1>5. FluzRound(ch, g, k) =
             IF v # None THEN (IF Ends(e, k.hint) THEN v ELSE g[Onward(ch, k)])
             ELSE IF Base(e) = Base(k.hint)
             THEN (IF k.found # None \/ k.hint = worstHint THEN k.found
                   ELSE IF read(ch, k.hint) # None THEN read(ch, k.hint)
                   ELSE g[Anew(k)])
             ELSE IF Base(e) = 0 THEN None ELSE g[Backward(k)]
  BY RoundByCases DEF e, v
<1>6. FluzRound(ch, g, k) \in V
  BY <1>1, <1>2, <1>3, <1>4, <1>5
<1> QED
  BY <1>6 DEF V

\* FluzCapacitorAlgorithm ends: its loop is a well-founded recursion.
LEMMA FluzUnfolds ==
    ASSUME NEW ch, NEW k \in FluzPositions
    PROVE  FluzLoop(ch)[k] = FluzRound(ch, FluzLoop(ch), k)
<1> DEFINE V == ch \cup Slots \cup {None}
           m == [j \in FluzPositions |-> FluzWeight(j)]
           Def == [p \in [FluzPositions -> V] \X FluzPositions |-> FluzRound(ch, p[1], p[2])]
<1>1. m \in [FluzPositions -> Nat]
  BY RoundsGoDown
<1>2. V # {}
  OBVIOUS
<1>3. \A g \in [FluzPositions -> V], j \in FluzPositions :
        Def[<<g, j>>] = FluzRound(ch, g, j)
  OBVIOUS
<1>4. Def \in [[FluzPositions -> V] \X FluzPositions -> V]
  BY RoundAnswers
<1>5. \A g, h : \A j \in FluzPositions :
        (\A i \in FluzPositions : m[i] < m[j] => g[i] = h[i])
          => FluzRound(ch, g, j) = FluzRound(ch, h, j)
  BY RoundLooksDown
<1>6. ASSUME NEW g \in [FluzPositions -> V], NEW h \in [FluzPositions -> V],
             NEW x \in FluzPositions,
             \A y \in FluzPositions : m[y] < m[x] => g[y] = h[y]
      PROVE  Def[<<g, x>>] = Def[<<h, x>>]
  <2> HIDE DEF m, V, Def
  <2> QED
    BY <1>3, <1>5, <1>6
<1>7. PICK f \in [FluzPositions -> V] : \A x \in FluzPositions : f[x] = Def[<<f, x>>]
  <2> HIDE DEF m, V, Def
  <2>1. LooksDown(FluzPositions, V, m, Def)
    BY <1>1, <1>2, <1>4, <1>6 DEF LooksDown
  <2>2. HasSolution(FluzPositions, V, Def)
    BY <2>1, RecursionHasSolution
  <2> QED
    BY <2>2 DEF HasSolution
<1>8. f = [j \in FluzPositions |-> FluzRound(ch, f, j)]
  BY <1>3, <1>7
<1> DEFINE F == FluzLoop(ch)
<1>9. F = [j \in FluzPositions |-> FluzRound(ch, F, j)]
  BY <1>8, Zenon DEF FluzLoop
<1> HIDE DEF F
<1>10. F[k] = FluzRound(ch, F, k)
  BY <1>9
<1> QED
  BY <1>10 DEF F

\* The loop finds nothing in a feed without updates.
LEMMA FluzOfEmptyFeed ==
    ASSUME NEW k \in FluzPositions, k.hint = worstHint, k.found = None
    PROVE  FluzLoop({})[k] = None
<1> DEFINE f == FluzLoop({})
           m == [j \in FluzPositions |-> FluzWeight(j)]
           T == {j \in FluzPositions : j.hint = worstHint /\ j.found = None => f[j] = None}
<1>1. m \in [FluzPositions -> Nat]
  BY RoundsGoDown
<1>2. ASSUME NEW j \in FluzPositions, \A i \in FluzPositions : m[i] < m[j] => i \in T
      PROVE  j \in T
  <2> SUFFICES ASSUME j.hint = worstHint, j.found = None
               PROVE  f[j] = None
    OBVIOUS
  <2> DEFINE e == GetNextEpoch(j.hint, j.t)
  <2>1. Base(e) # 0 => f[Backward(j)] = None
    <3> SUFFICES ASSUME Base(e) # 0
                 PROVE  f[Backward(j)] = None
      OBVIOUS
    <3>1. Backward(j) \in FluzPositions /\ m[Backward(j)] < m[j]
      BY RoundsGoDown
    <3>2. Backward(j).hint = worstHint /\ Backward(j).found = None
      BY DEF Backward, FluzPositions
    <3> QED
      BY <1>2, <3>1, <3>2
  <2>2. read({}, e) = None
    BY DEF read
  <2>3. FluzRound({}, f, j) =
             IF Base(e) = Base(j.hint) THEN None
             ELSE IF Base(e) = 0 THEN None ELSE f[Backward(j)]
    BY <2>2, RoundByCases
  <2> QED
    BY <2>1, <2>3, FluzUnfolds
<1>3. FluzPositions \subseteq T
  <2> HIDE DEF m, T
  <2> QED
    BY <1>1, <1>2, MeasureInduction
<1> QED
  BY <1>3

\* The loop answers with the last update from every position that is at it, or
\* before it.
LEMMA RoundsFindLast ==
    ASSUME NEW ch, NEW L, NEW u, Placed(ch), LastPlaced(ch, L, u),
           NEW k \in FluzPositions, Seeks(ch, L, u, k.hint, k.t),
           k.found \in {None, EpochID(k.hint)}
    PROVE  FluzLoop(ch)[k] = L
<1> DEFINE f == FluzLoop(ch)
           m == [j \in FluzPositions |-> FluzWeight(j)]
           Asked(j) == Seeks(ch, L, u, j.hint, j.t) /\ j.found \in {None, EpochID(j.hint)}
           T == {j \in FluzPositions : Asked(j) => f[j] = L}
<1>1. m \in [FluzPositions -> Nat]
  BY RoundsGoDown
<1>2. ASSUME NEW j \in FluzPositions, \A i \in FluzPositions : m[i] < m[j] => i \in T
      PROVE  j \in T
  <2> SUFFICES ASSUME Asked(j)
               PROVE  f[j] = L
    OBVIOUS
  <2> DEFINE e == GetNextEpoch(j.hint, j.t)
  <2>0. L \in Slots /\ L # None /\ L \in ch
    BY SlotIsEpoch DEF Placed, LastPlaced
  <2>1. f[j] = FluzRound(ch, f, j)
    BY FluzUnfolds
  <2>2. CASE EpochID(e) \in ch
    <3>1. read(ch, e) = EpochID(e) /\ EpochID(e) # None
      BY <2>2, SlotIsEpoch DEF read, Placed
    <3>2. f[j] = IF Ends(e, j.hint) THEN EpochID(e) ELSE f[Onward(ch, j)]
      BY <2>1, <3>1, RoundByCases
    <3>3. CASE Ends(e, j.hint)
      BY <2>2, <3>2, <3>3, HitMovesOn
    <3>4. CASE ~ Ends(e, j.hint)
      <4>1. Onward(ch, j) \in FluzPositions /\ m[Onward(ch, j)] < m[j]
        BY <3>1, <3>4, RoundsGoDown
      <4>2. Seeks(ch, L, u, e, j.t)
        BY <2>2, <3>4, HitMovesOn
      <4>3. Asked(Onward(ch, j))
        BY <3>1, <4>2 DEF Onward
      <4>4. f[Onward(ch, j)] = L
        BY <1>2, <4>1, <4>3
      <4> QED
        BY <3>2, <3>4, <4>4
    <3> QED
      BY <3>3, <3>4
  <2>3. CASE EpochID(e) \notin ch
    <3>1. read(ch, e) = None
      BY <2>3 DEF read
    <3>2. CASE Base(e) = Base(j.hint)
      <4>1. EpochID(j.hint) = L
        BY <2>3, <3>2, MissMovesBack
      <4>2. read(ch, j.hint) = L
        BY <2>0, <4>1 DEF read
      <4>3. j.hint # worstHint
        <5>1. EpochID(worstHint).level = WorstLevel /\ L.level # WorstLevel
          BY <2>0, EpochConstants DEF worstHint, EpochID, Slots, Levels, LowestLevel
        <5> QED
          BY <4>1, <5>1
      <4>4. f[j] = IF j.found # None \/ j.hint = worstHint THEN j.found
                   ELSE IF read(ch, j.hint) # None THEN read(ch, j.hint)
                   ELSE f[Anew(j)]
        BY <2>1, <3>1, <3>2, RoundByCases
      <4> QED
        BY <2>0, <4>1, <4>2, <4>3, <4>4
    <3>3. CASE Base(e) # Base(j.hint)
      <4>1. Base(e) # 0 /\ Seeks(ch, L, u, j.hint, Base(e) - 1)
        BY <2>3, <3>3, MissMovesBack
      <4>2. Backward(j) \in FluzPositions /\ m[Backward(j)] < m[j]
        BY <4>1, RoundsGoDown
      <4>3. /\ Backward(j).hint = j.hint /\ Backward(j).found = j.found
            /\ Backward(j).t = Base(e) - 1
        BY DEF Backward, FluzPositions
      <4>4. f[Backward(j)] = L
        BY <1>2, <4>1, <4>2, <4>3
      <4>5. f[j] = f[Backward(j)]
        BY <2>1, <3>1, <3>3, <4>1, RoundByCases
      <4> QED
        BY <4>4, <4>5
    <3> QED
      BY <3>2, <3>3
  <2> QED
    BY <2>2, <2>3
<1>3. FluzPositions \subseteq T
  <2> HIDE DEF m, T
  <2> QED
    BY <1>1, <1>2, MeasureInduction
<1> QED
  BY <1>3

\* FluzCapacitorAlgorithm answers with the last update written, without a hint
\* or with any earlier update as the hint.
THEOREM FluzCapacitorFindsLast ==
    ASSUME NEW ch, NEW L, NEW u, Placed(ch), LastPlaced(ch, L, u),
           NEW when \in Times, u <= when, NEW clue \in ch \cup {NoClue}
    PROVE  FluzCapacitorAlgorithm(ch, when, clue) = L
<1> DEFINE hint == IF clue = NoClue THEN worstHint ELSE clue
           k == [t |-> when, hint |-> hint, found |-> None]
<1>1. Seeks(ch, L, u, hint, when)
  BY CluesSeek
<1>2. k \in FluzPositions /\ k.hint = hint /\ k.t = when /\ k.found = None
  BY <1>1 DEF FluzPositions, Seeks
<1>3. FluzLoop(ch)[k] = L
  <2> HIDE DEF hint, k
  <2> QED
    BY <1>1, <1>2, RoundsFindLast
<1> QED
  BY <1>3 DEF FluzCapacitorAlgorithm

\* FluzCapacitorAlgorithm finds nothing in a feed without updates.
THEOREM FluzCapacitorOfEmptyFeed ==
    ASSUME NEW when \in Times
    PROVE  FluzCapacitorAlgorithm({}, when, NoClue) = None
<1> DEFINE k == [t |-> when, hint |-> worstHint, found |-> None]
<1>1. k \in FluzPositions /\ k.hint = worstHint /\ k.found = None
  BY WorstHintBase DEF FluzPositions
<1>2. FluzLoop({})[k] = None
  <2> HIDE DEF k
  <2> QED
    BY <1>1, FluzOfEmptyFeed
<1> QED
  BY <1>2 DEF FluzCapacitorAlgorithm

-----------------------------------------------------------------------------
\* Where the next update goes.

\* A write at the highest level, or at most one level below an update whose
\* higher periods are still those of now, leaves no hole above it.
LEMMA PlacingKeepsPlaced ==
    ASSUME NEW ch, Placed(ch), NEW t \in Times, NEW l \in Levels,
           \/ l = HighestLevel
           \/ \E last \in ch :
                /\ l >= last.level - 1
                /\ \A m \in Levels : m > l => getBaseTime(last.time, m) = getBaseTime(t, m)
    PROVE  Placed(ch \cup {EpochID([time |-> t, level |-> l])})
<1> DEFINE slot == EpochID([time |-> t, level |-> l])
<1>1. /\ slot \in Slots /\ slot = [time |-> getBaseTime(t, l), level |-> l]
      /\ getBaseTime(t, l) \in Nat /\ getBaseTime(t, l) <= t
      /\ t \in Nat /\ l \in Nat /\ Levels \subseteq Nat /\ HighestLevel \in Nat
      /\ \A m \in Levels : m <= HighestLevel
  BY SlotTyped, LevelsAndTimes DEF Levels
<1> HIDE DEF slot
<1>2. EpochID(slot) = slot
  <2>1. getBaseTime(getBaseTime(t, l), l) = getBaseTime(t, l)
    BY <1>1, BasesNest
  <2> QED
    BY <1>1, <2>1 DEF EpochID, Base
<1>3. ASSUME NEW m \in Levels, m >= l
      PROVE  EpochID([time |-> slot.time, level |-> m]) \in ch \cup {slot}
  <2>1. EpochID([time |-> slot.time, level |-> m]) = [time |-> getBaseTime(t, m), level |-> m]
    <3>1. getBaseTime(getBaseTime(t, l), m) = getBaseTime(t, m)
      BY <1>1, <1>3, BasesNest
    <3> QED
      BY <1>1, <3>1 DEF EpochID, Base
  <2>2. CASE m = l
    BY <1>1, <2>1, <2>2
  <2>3. CASE m # l
    <3>1. m > l /\ l # HighestLevel
      BY <1>1, <1>3, <2>3
    <3>2. PICK last \in ch : /\ l >= last.level - 1
                             /\ getBaseTime(last.time, m) = getBaseTime(t, m)
      BY <3>1
    <3>3. last.level \in Nat /\ m >= last.level
      BY <1>1, <3>1, <3>2, SlotIsEpoch DEF Placed
    <3>4. EpochID([time |-> last.time, level |-> m]) \in ch
      BY <3>3 DEF Placed
    <3> QED
      BY <2>1, <3>2, <3>4 DEF EpochID, Base
  <2> QED
    BY <2>2, <2>3
<1>4. slot.level = l
  BY <1>1
<1> QED
  BY <1>1, <1>2, <1>3, <1>4 DEF Placed, slot

\* The slot just written is the last update: nothing was inside it, or its slot
\* would have been taken already.
LEMMA PlacingIsLast ==
    ASSUME NEW ch, Placed(ch), NEW t \in Times, NEW l \in Levels,
           NEW slot, slot = EpochID([time |-> t, level |-> l]), slot \notin ch,
           \A c \in ch : c.time <= t
    PROVE  LastPlaced(ch \cup {slot}, slot, t)
<1>1. /\ slot \in Slots /\ slot.time = getBaseTime(t, l) /\ slot.level = l
      /\ getBaseTime(t, l) <= t /\ l \in Nat
  BY SlotTyped, LevelsAndTimes
<1>2. ASSUME NEW c \in ch, c.level < l, getBaseTime(c.time, l) = slot.time
      PROVE  FALSE
  <2>1. c.level \in Nat /\ l >= c.level
    BY <1>1, <1>2, SlotIsEpoch DEF Placed
  <2>2. EpochID([time |-> c.time, level |-> l]) \in ch
    BY <2>1 DEF Placed
  <2>3. EpochID([time |-> c.time, level |-> l]) = slot
    BY <1>1, <1>2 DEF EpochID, Base
  <2> QED
    BY <2>2, <2>3
<1> QED
  BY <1>1, <1>2 DEF LastPlaced

-----------------------------------------------------------------------------
\* The sessions that write a feed.

\* The placement rule for a request: its level follows some update of the feed.
LevelAllowed(l) ==
    \/ l = HighestLevel
    \/ \E last \in DOMAIN chunks :
         /\ l >= last.level - 1
         /\ \A m \in Levels : m > l => getBaseTime(last.time, m) = getBaseTime(now, m)

UpdatesFinite ==
    /\ IsFiniteSet(DOMAIN chunks)
    /\ DOMAIN chunks = {} => chunks = <<>>
FoundAreUpdates ==
    \A s \in Sessions : /\ cache[s] \in DOMAIN chunks \cup {NoClue}
                        /\ found[s] \in DOMAIN chunks \cup {None}
UpdatesInPast == \A c \in DOMAIN chunks : c.time <= now
LevelsAllowed ==
    \A s \in Sessions : pc[s] = "upload" => req[s].at = now /\ LevelAllowed(req[s].level)
LatestIsLast ==
    chunks # <<>> =>
        \E L \in DOMAIN chunks, u \in Times :
            u <= now /\ LastPlaced(DOMAIN chunks, L, u) /\ chunks[L] = Latest

\* The clock is a word of epoch.go, and NoClue a slot of it.
LEMMA ClockInWord ==
    /\ 0..MaxTime \subseteq Times /\ 0..MaxTime \subseteq Nat /\ MaxTime \in Nat
    /\ Times \subseteq Nat /\ Levels \subseteq Nat
    /\ StartTime \in Nat /\ LossyStart \in Nat
    /\ HighestLevel \in Levels /\ 0 \in Levels
    /\ NoClue \in Slots /\ NoClue \in Epoch /\ NoClue # None
<1>1. Times \subseteq Nat /\ Levels \subseteq Nat /\ 2^WordBits \in Nat \ {0}
  BY WorstHintBase, EpochTyped, EpochConstants, PowerOfTwo
<1>2. MaxTime \in Nat /\ 0..MaxTime \subseteq Times
  BY <1>1, WriterConstants DEF Times
<1>3. HighestLevel \in Levels /\ 0 \in Levels /\ 0 \in Times
  BY <1>1, EpochConstants DEF Levels, LowestLevel, Times
<1>4. NoClue \in Slots /\ NoClue \in Epoch /\ NoClue # None
  BY <1>3 DEF NoClue, Slots, Epoch, None
<1> QED
  BY <1>1, <1>2, <1>3, <1>4, WriterConstants

\* What holds whatever the clock does between newRequest and updateSoc.
Typed == TypeOK /\ UpdatesFinite /\ FoundAreUpdates

\* A lookup of a session answers with an update of the feed or with nothing,
\* whichever reads time out.
LEMMA LookupTyped ==
    ASSUME Typed, NEW s \in Sessions, NEW lost \in LostReads, NEW answer \in Lookup(s, lost)
    PROVE  answer \in DOMAIN chunks \cup {None}
<1>1. now \in Times /\ cache[s] \in Epoch
  BY ClockInWord, SlotIsEpoch, WriterConstants DEF Typed, TypeOK
<1>2. Lookup(s, lost) \in SUBSET ((DOMAIN chunks \ lost) \cup {None})
  BY <1>1, LongEarthAnswersAreUpdates DEF Lookup
<1> QED
  BY <1>2

\* What newRequest does with the answer of its lookup.
Answered(s, answer) ==
    LET full == answer.level = LowestLevel /\ answer.time = now IN
    /\ cache' = [cache EXCEPT ![s] = IF answer = None THEN @ ELSE answer]
    /\ found' = [found EXCEPT ![s] = answer]
    /\ pc' = [pc EXCEPT ![s] = IF full THEN "wait" ELSE "upload"]
    /\ req' = [req EXCEPT ![s].level = IF full THEN @ ELSE LevelAfter(answer),
                          ![s].at = now]

\* newRequest chooses a level of epoch.go.
LEMMA LevelAfterTyped ==
    ASSUME now \in Times, NEW last \in Slots \cup {None}
    PROVE  LevelAfter(last) \in Levels
<1>1. CASE last = None
  BY <1>1, ClockInWord DEF LevelAfter
<1>2. CASE last # None
  <2>1. last \in Epoch
    BY <1>2, SlotIsEpoch
  <2>2. GetNextEpoch(last, now).level \in Levels
    BY <2>1, NextEpoch
  <2> QED
    BY <1>2, <2>2 DEF LevelAfter
<1> QED
  BY <1>1, <1>2

\* An upload leaves the earlier updates alone and numbers the new one after
\* them.
LEMMA StoreAdds ==
    ASSUME Typed, MoreUploads, NEW slot \in Slots, slot \notin DOMAIN chunks, Store(slot)
    PROVE  /\ DOMAIN chunks' = DOMAIN chunks \cup {slot}
           /\ IsFiniteSet(DOMAIN chunks') /\ DOMAIN chunks' # {}
           /\ DOMAIN chunks' \subseteq Slots
           /\ \A c \in DOMAIN chunks' : chunks'[c] \in Versions
           /\ chunks'[slot] = Latest'
<1>1. IsFiniteSet(DOMAIN chunks) /\ Latest \in Nat
  BY FS_CardinalityType DEF Typed, UpdatesFinite, Latest
<1>2. /\ DOMAIN chunks' = DOMAIN chunks \cup {slot}
      /\ \A c \in DOMAIN chunks : chunks'[c] = chunks[c]
      /\ chunks'[slot] = Latest + 1
  BY DEF Store
<1>3. IsFiniteSet(DOMAIN chunks') /\ Latest' = Latest + 1
  BY <1>1, <1>2, FS_AddElement DEF Latest
<1>4. Latest + 1 \in Versions
  BY <1>1, WriterConstants DEF MoreUploads, Versions, Typed, TypeOK
<1> QED
  BY <1>2, <1>3, <1>4 DEF Typed, TypeOK

\* The feed starts without updates and the sessions without hints.
LEMMA TypedInit == Init => Typed
<1> SUFFICES ASSUME Init PROVE Typed
  OBVIOUS
<1>1. DOMAIN chunks = {}
  BY DEF Init
<1>2. TypeOK
  BY <1>1, ClockInWord, WriterConstants DEF Init, TypeOK, LowestLevel
<1>3. UpdatesFinite /\ FoundAreUpdates
  BY <1>1, FS_EmptySet DEF Init, UpdatesFinite, FoundAreUpdates
<1> QED
  BY <1>2, <1>3 DEF Typed

\* Every step of a session keeps its types, and its cache and feedUpdate name
\* updates of the feed.
LEMMA TypedStep == Typed /\ [Next]_vars => Typed'
<1> SUFFICES ASSUME Typed, [Next]_vars PROVE Typed'
  OBVIOUS
<1> USE DEF Typed
<1>0. /\ now \in Times /\ now \in 0..MaxTime /\ now \in Nat
  BY ClockInWord, WriterConstants DEF TypeOK
<1>1. CASE Tick
  <2>1. now + 1 \in StartTime..MaxTime
    BY <1>0, <1>1, ClockInWord, WriterConstants DEF Tick, TypeOK
  <2> QED
    BY <1>1, <2>1 DEF Tick, TypeOK, UpdatesFinite, FoundAreUpdates, Versions
<1>2. ASSUME NEW s \in Sessions, createSoc(s) PROVE Typed'
  <2> DEFINE slot == EpochID(GetFirstEpoch(now))
  <2>1. slot \in Slots
    BY <1>0, ClockInWord, SlotTyped DEF GetFirstEpoch
  <2> HIDE DEF slot
  <2>2. /\ DOMAIN chunks' = DOMAIN chunks \cup {slot}
        /\ IsFiniteSet(DOMAIN chunks') /\ DOMAIN chunks' # {}
        /\ DOMAIN chunks' \subseteq Slots
        /\ \A c \in DOMAIN chunks' : chunks'[c] \in Versions
    BY <1>2, <2>1, StoreAdds DEF createSoc, slot
  <2> QED
    BY <1>2, <2>2 DEF createSoc, TypeOK, UpdatesFinite, FoundAreUpdates, Versions
<1>3. ASSUME NEW s \in Sessions, StartUpdate(s) PROVE Typed'
  <2>1. 0 \in 0..maxUpdateRetry
    BY WriterConstants
  <2>2. req' \in [Sessions -> [level: Levels, retries: 0..maxUpdateRetry, at: 0..MaxTime]]
    BY <1>3, <2>1 DEF StartUpdate, TypeOK
  <2>3. TypeOK'
    BY <1>3, <2>2 DEF StartUpdate, TypeOK, Versions
  <2> QED
    BY <1>3, <2>3 DEF StartUpdate, UpdatesFinite, FoundAreUpdates
<1>4. ASSUME NEW s \in Sessions, getSoc(s) PROVE Typed'
  <2>0. PICK lost \in LostReads : \E answer \in Lookup(s, lost) :
          answer # None /\ cache' = [cache EXCEPT ![s] = answer]
    BY <1>4 DEF getSoc
  <2>1. PICK answer \in Lookup(s, lost) :
          answer # None /\ cache' = [cache EXCEPT ![s] = answer]
    BY <2>0
  <2>2. answer \in DOMAIN chunks /\ answer \in Slots
    BY <2>1, LookupTyped DEF TypeOK
  <2> QED
    BY <1>4, <2>1, <2>2 DEF getSoc, TypeOK, UpdatesFinite, FoundAreUpdates, Versions
<1>5. ASSUME NEW s \in Sessions, newRequest(s) PROVE Typed'
  <2>0. PICK lost \in LostReads : \E answer \in Lookup(s, lost) : Answered(s, answer)
    BY <1>5 DEF newRequest, Answered
  <2>1. PICK answer \in Lookup(s, lost) : Answered(s, answer)
    BY <2>0
  <2>2. answer \in DOMAIN chunks \cup {None} /\ answer \in Slots \cup {None}
    BY <2>1, LookupTyped DEF TypeOK
  <2>3. LevelAfter(answer) \in Levels
    BY <1>0, <2>2, LevelAfterTyped
  <2>4. UNCHANGED <<lossy, now, chunks>>
    BY <1>5 DEF newRequest
  <2>5. TypeOK'
    <3>1. cache' \in [Sessions -> Slots] /\ found' \in [Sessions -> Slots \cup {None}]
      BY <2>1, <2>2 DEF TypeOK, Answered
    <3>2. pc' \in [Sessions -> {"idle", "lookup", "wait", "upload", "sleep"}]
      BY <2>1 DEF TypeOK, Answered
    <3>3. req' \in [Sessions -> [level: Levels, retries: 0..maxUpdateRetry, at: 0..MaxTime]]
      <4> DEFINE l == IF answer.level = LowestLevel /\ answer.time = now
                      THEN req[s].level ELSE LevelAfter(answer)
      <4>1. l \in Levels
        BY <2>3 DEF TypeOK
      <4>2. req' = [req EXCEPT ![s].level = l, ![s].at = now]
        BY <2>1 DEF Answered, TypeOK
      <4> HIDE DEF l
      <4> QED
        BY <1>0, <4>1, <4>2 DEF TypeOK
    <3> QED
      BY <2>4, <3>1, <3>2, <3>3 DEF TypeOK, Versions
  <2> QED
    BY <2>1, <2>2, <2>4, <2>5 DEF UpdatesFinite, FoundAreUpdates, TypeOK, Answered
<1>6. ASSUME NEW s \in Sessions, Waited(s) PROVE Typed'
  <2>1. LevelAfter(found[s]) \in Levels
    BY <1>0, LevelAfterTyped DEF TypeOK
  <2> QED
    BY <1>0, <1>6, <2>1 DEF Waited, TypeOK, UpdatesFinite, FoundAreUpdates, Versions
<1>7. ASSUME NEW s \in Sessions, updateSoc(s) PROVE Typed'
  <2> DEFINE slot == EpochID([time |-> now, level |-> req[s].level])
             retry == slot \in DOMAIN chunks /\ req[s].retries < maxUpdateRetry
  <2>1. req[s].level \in Levels /\ req[s].retries \in 0..maxUpdateRetry
    BY DEF TypeOK
  <2>2. slot \in Slots
    BY <1>0, <2>1, SlotTyped
  <2> HIDE DEF slot
  <2>3. /\ DOMAIN chunks \subseteq DOMAIN chunks'
        /\ IsFiniteSet(DOMAIN chunks') /\ (DOMAIN chunks' = {} => chunks' = <<>>)
        /\ DOMAIN chunks' \subseteq Slots
        /\ \A c \in DOMAIN chunks' : chunks'[c] \in Versions
    <3>1. CASE slot \in DOMAIN chunks
      <4>1. UNCHANGED chunks
        BY <1>7, <3>1 DEF updateSoc, slot
      <4> QED
        BY <4>1 DEF UpdatesFinite, TypeOK
    <3>2. CASE slot \notin DOMAIN chunks
      <4>1. Store(slot) /\ MoreUploads
        BY <1>7, <3>2 DEF updateSoc, slot
      <4> QED
        BY <2>2, <3>2, <4>1, StoreAdds
    <3> QED
      BY <3>1, <3>2
  <2>4. req' = [req EXCEPT ![s].retries = IF retry THEN @ + 1 ELSE @, ![s].at = now]
        /\ pc' = [pc EXCEPT ![s] = IF retry THEN "sleep" ELSE "idle"]
        /\ UNCHANGED <<lossy, now, cache, found>>
    BY <1>7 DEF updateSoc, slot
  <2>5. retry => req[s].retries + 1 \in 0..maxUpdateRetry
    BY <2>1, WriterConstants
  <2> HIDE DEF retry
  <2>6. req' \in [Sessions -> [level: Levels, retries: 0..maxUpdateRetry, at: 0..MaxTime]]
    BY ZenonT(40), <1>0, <2>4, <2>5 DEF TypeOK
  <2>7. TypeOK'
    BY <2>3, <2>4, <2>6 DEF TypeOK, Versions
  <2> QED
    BY <2>3, <2>4, <2>7 DEF UpdatesFinite, FoundAreUpdates
<1>8. ASSUME NEW s \in Sessions, Slept(s) PROVE Typed'
  BY <1>8 DEF Slept, TypeOK, UpdatesFinite, FoundAreUpdates, Versions
<1>9. CASE UNCHANGED vars
  BY <1>9 DEF vars, TypeOK, UpdatesFinite, FoundAreUpdates, Versions
<1> QED
  BY <1>1, <1>2, <1>3, <1>4, <1>5, <1>6, <1>7, <1>8, <1>9 DEF Next

-----------------------------------------------------------------------------

\* The inductive invariant: the updates are placed, requests about to be uploaded
\* keep to the placement rule, and the update with the highest version is the last
\* one placed.
Placing == Typed /\ UpdatesInPast /\ Placed(DOMAIN chunks) /\ LevelsAllowed /\ LatestIsLast

\* The level newRequest chooses after any update of the feed keeps to the
\* placement rule.
LEMMA LevelAfterAllowed ==
    ASSUME Placing, NEW last \in DOMAIN chunks \cup {None}
    PROVE  LevelAllowed(LevelAfter(last))
<1>0. now \in Times /\ now \in Nat
  BY ClockInWord, WriterConstants DEF Placing, Typed, TypeOK
<1>1. CASE last = None
  BY <1>1 DEF LevelAllowed, LevelAfter
<1>2. CASE last = NoClue
  BY <1>2, ClockInWord DEF LevelAllowed, LevelAfter, GetNextEpoch, GetFirstEpoch
<1>3. CASE last # None /\ last # NoClue
  <2> DEFINE n == GetNextLevel(last, now)
  <2>1. last \in DOMAIN chunks /\ last \in Slots /\ EpochID(last) = last
    BY <1>3 DEF Placing, Placed
  <2>2. last \in Epoch /\ last.level \in Levels /\ Base(last) = last.time
    BY <2>1, SlotIsEpoch DEF EpochID
  <2>3. last.level # WorstLevel
    BY <2>2, EpochConstants DEF Levels, LowestLevel
  <2>4. /\ n >= last.level - 1
        /\ \A m \in Levels : m > n => getBaseTime(last.time, m) = getBaseTime(now, m)
    BY <1>0, <2>2, <2>3, NextLevel
  <2>5. LevelAfter(last) = n
    BY <1>3 DEF LevelAfter, GetNextEpoch
  <2> HIDE DEF n
  <2> QED
    BY <2>1, <2>4, <2>5 DEF LevelAllowed
<1> QED
  BY <1>1, <1>2, <1>3

\* A step that uploads nothing keeps the invariant, if the requests it makes
\* ready follow an update found at their own time.
LEMMA NoWriteStep ==
    ASSUME Placing, Typed', now' = now, chunks' = chunks,
           \A s \in Sessions :
             pc'[s] = "upload" =>
               \/ pc[s] = "upload" /\ req'[s] = req[s]
               \/ req'[s].at = now /\ LevelAllowed(req'[s].level)
    PROVE  Placing'
<1>1. UpdatesInPast' /\ Placed(DOMAIN chunks)'
  BY DEF Placing, UpdatesInPast, Placed
<1>2. LevelsAllowed'
  BY DEF Placing, LevelsAllowed, LevelAllowed
<1>3. LatestIsLast'
  BY DEF Placing, LatestIsLast, LastPlaced, Latest
<1> QED
  BY <1>1, <1>2, <1>3 DEF Placing

\* An upload at an allowed level keeps the invariant, and is the last update.
LEMMA WriteStep ==
    ASSUME Placing, Typed', now' = now, MoreUploads,
           NEW l \in Levels, LevelAllowed(l),
           NEW slot, slot = EpochID([time |-> now, level |-> l]),
           slot \notin DOMAIN chunks, Store(slot),
           \A s \in Sessions : pc'[s] = "upload" => pc[s] = "upload" /\ req'[s] = req[s]
    PROVE  Placing'
<1>0. now \in Times /\ now \in Nat
  BY ClockInWord, WriterConstants DEF Placing, Typed, TypeOK
<1>1. /\ slot \in Slots /\ slot.time <= now
  BY <1>0, SlotTyped
<1>2. /\ DOMAIN chunks' = DOMAIN chunks \cup {slot}
      /\ chunks'[slot] = Latest'
  BY <1>1, StoreAdds DEF Placing
<1>3. UpdatesInPast'
  BY <1>1, <1>2 DEF Placing, UpdatesInPast
<1>4. Placed(DOMAIN chunks \cup {slot})
  BY <1>0, PlacingKeepsPlaced DEF Placing, LevelAllowed
<1>5. Placed(DOMAIN chunks)'
  BY <1>2, <1>4 DEF Placed
<1>6. LevelsAllowed'
  BY <1>2 DEF Placing, LevelsAllowed, LevelAllowed
<1>7. LastPlaced(DOMAIN chunks \cup {slot}, slot, now)
  BY <1>0, PlacingIsLast DEF Placing, UpdatesInPast
<1>8. LatestIsLast'
  <2>1. LastPlaced(DOMAIN chunks', slot, now)
    BY <1>2, <1>7
  <2>2. now <= now' /\ now \in Times /\ slot \in DOMAIN chunks'
    BY <1>0, <1>2
  <2> QED
    BY <1>2, <2>1, <2>2 DEF LatestIsLast, LastPlaced
<1> QED
  BY <1>3, <1>5, <1>6, <1>8 DEF Placing

\* An empty feed satisfies the invariant.
LEMMA PlacingInit == Init => Placing
<1> SUFFICES ASSUME Init PROVE Placing
  OBVIOUS
<1>1. Typed
  BY TypedInit
<1>2. DOMAIN chunks = {} /\ chunks = <<>>
  BY DEF Init
<1> QED
  BY <1>1, <1>2 DEF Init, Placing, UpdatesInPast, Placed, LevelsAllowed, LatestIsLast

\* Every step keeps the invariant when updateSoc reads the same second as
\* newRequest.
LEMMA PlacingStep == MaxSkew = 0 /\ Placing /\ [Next]_vars => Placing'
<1> SUFFICES ASSUME MaxSkew = 0, Placing, [Next]_vars PROVE Placing'
  OBVIOUS
<1>0. Typed' /\ Typed
  BY TypedStep DEF Placing
<1>T. now \in Times /\ now \in Nat
  BY <1>0, ClockInWord, WriterConstants DEF Typed, TypeOK
<1>1. CASE Tick
  <2>1. \A s \in Sessions : pc'[s] # "upload"
    BY <1>1, <1>T DEF Tick, Placing, LevelsAllowed
  <2>2. UpdatesInPast'
    <3>1. \A c \in DOMAIN chunks : c.time \in Nat
      BY <1>0, SlotIsEpoch DEF Typed, TypeOK
    <3> QED
      BY <1>1, <1>T, <3>1 DEF Tick, Placing, UpdatesInPast
  <2>3. LatestIsLast'
    <3>1. \A u \in Times : u <= now => u <= now + 1
      BY <1>T, ClockInWord
    <3> QED
      BY <1>1, <3>1 DEF Tick, Placing, LatestIsLast, LastPlaced, Latest
  <2>4. Placed(DOMAIN chunks)'
    BY <1>1 DEF Tick, Placing, Placed
  <2> QED
    BY <1>0, <2>1, <2>2, <2>3, <2>4 DEF Placing, LevelsAllowed
<1>2. ASSUME NEW s \in Sessions, createSoc(s) PROVE Placing'
  <2> DEFINE slot == EpochID(GetFirstEpoch(now))
  <2>1. slot = EpochID([time |-> now, level |-> HighestLevel])
    BY DEF GetFirstEpoch
  <2>2. HighestLevel \in Levels /\ LevelAllowed(HighestLevel)
    BY ClockInWord DEF LevelAllowed
  <2>3. MoreUploads /\ slot \notin DOMAIN chunks /\ Store(slot)
        /\ UNCHANGED <<lossy, now, cache, pc, req, found>>
    BY <1>2 DEF createSoc
  <2> HIDE DEF slot
  <2> QED
    BY <1>0, <2>1, <2>2, <2>3, WriteStep
<1>3. ASSUME NEW s \in Sessions, StartUpdate(s) PROVE Placing'
  BY <1>0, <1>3, NoWriteStep DEF StartUpdate, Typed, TypeOK
<1>4. ASSUME NEW s \in Sessions, getSoc(s) PROVE Placing'
  BY <1>0, <1>4, NoWriteStep DEF getSoc
<1>5. ASSUME NEW s \in Sessions, newRequest(s) PROVE Placing'
  <2>1. PICK lost \in LostReads : \E answer \in Lookup(s, lost) : Answered(s, answer)
    BY <1>5 DEF newRequest, Answered
  <2>2. PICK answer \in Lookup(s, lost) : Answered(s, answer)
    BY <2>1
  <2>3. answer \in DOMAIN chunks \cup {None}
    BY <1>0, LookupTyped
  <2>4. LevelAllowed(LevelAfter(answer))
    BY <2>3, LevelAfterAllowed
  <2>5. pc'[s] = "upload" => req'[s].at = now /\ req'[s].level = LevelAfter(answer)
    BY <1>0, <2>2 DEF Answered, Typed, TypeOK
  <2>6. \A r \in Sessions : r # s => pc'[r] = pc[r] /\ req'[r] = req[r]
    BY <1>0, <2>2 DEF Answered, Typed, TypeOK
  <2> QED
    BY <1>0, <1>5, <2>4, <2>5, <2>6, NoWriteStep DEF newRequest
<1>6. ASSUME NEW s \in Sessions, Waited(s) PROVE Placing'
  <2>1. LevelAllowed(LevelAfter(found[s]))
    BY <1>0, LevelAfterAllowed DEF Typed, FoundAreUpdates
  <2>2. req'[s].at = now /\ req'[s].level = LevelAfter(found[s])
    BY <1>0, <1>6 DEF Waited, Typed, TypeOK
  <2>3. \A r \in Sessions : r # s => pc'[r] = pc[r] /\ req'[r] = req[r]
    BY <1>0, <1>6 DEF Waited, Typed, TypeOK
  <2> QED
    BY <1>0, <1>6, <2>1, <2>2, <2>3, NoWriteStep DEF Waited
<1>7. ASSUME NEW s \in Sessions, updateSoc(s) PROVE Placing'
  <2> DEFINE slot == EpochID([time |-> now, level |-> req[s].level])
  <2>1. req[s].level \in Levels /\ LevelAllowed(req[s].level)
    BY <1>0, <1>7 DEF updateSoc, Typed, TypeOK, Placing, LevelsAllowed
  <2>2. /\ pc'[s] # "upload" /\ now' = now /\ MoreUploads
        /\ \A r \in Sessions : r # s => pc'[r] = pc[r] /\ req'[r] = req[r]
    BY <1>0, <1>7 DEF updateSoc, Typed, TypeOK
  <2>3. CASE slot \in DOMAIN chunks
    <3>1. chunks' = chunks
      BY <1>7, <2>3 DEF updateSoc
    <3> QED
      BY <1>0, <2>2, <3>1, NoWriteStep
  <2>4. CASE slot \notin DOMAIN chunks
    <3>1. Store(slot)
      BY <1>7, <2>4 DEF updateSoc
    <3> HIDE DEF slot
    <3> QED
      BY <1>0, <2>1, <2>2, <2>4, <3>1, WriteStep DEF slot
  <2> QED
    BY <2>3, <2>4
<1>8. ASSUME NEW s \in Sessions, Slept(s) PROVE Placing'
  BY <1>0, <1>8, NoWriteStep DEF Slept, Typed, TypeOK
<1>9. CASE UNCHANGED vars
  BY <1>0, <1>9, NoWriteStep DEF vars
<1> QED
  BY <1>1, <1>2, <1>3, <1>4, <1>5, <1>6, <1>7, <1>8, <1>9 DEF Next

-----------------------------------------------------------------------------
\* Requests, caches and chunks of every session name slots of epoch.go, and
\* updateSoc retries at most maxUpdateRetry times: for any number of sessions,
\* any skew and any reads timing out.
THEOREM WritersTyped == Spec => []TypeOK
<1>1. Init => Typed
  BY TypedInit
<1>2. Typed /\ [Next]_vars => Typed'
  BY TypedStep
<1>3. Typed => TypeOK
  BY DEF Typed
<1> QED
  BY <1>1, <1>2, <1>3, PTL DEF Spec

\* The inductive invariant holds of every reachable state.
LEMMA PlacingAlways == MaxSkew = 0 => (Spec => []Placing)
<1> SUFFICES ASSUME MaxSkew = 0 PROVE Spec => []Placing
  OBVIOUS
<1>1. Init => Placing
  BY PlacingInit
<1>2. Placing /\ [Next]_vars => Placing'
  BY PlacingStep
<1> QED
  BY <1>1, <1>2, PTL DEF Spec

\* What the invariant says of lookups: both algorithms find the last update.
LEMMA PlacingMeansFound == Placing => LookupFindsLatest /\ AlgorithmsAgree
<1> SUFFICES ASSUME Placing PROVE LookupFindsLatest /\ AlgorithmsAgree
  OBVIOUS
<1>0. Typed /\ now \in Times
  BY ClockInWord, WriterConstants DEF Placing, Typed, TypeOK
<1> DEFINE clues == {NoClue} \cup {cache[s] : s \in Sessions}
           ch == DOMAIN chunks
<1>1. clues \subseteq ch \cup {NoClue}
  BY <1>0 DEF Typed, FoundAreUpdates
<1>2. CASE chunks = <<>>
  <2>1. ch = {}
    BY <1>2
  <2>2. \A clue \in clues : clue = NoClue
    BY <1>1, <2>1
  <2>3. LongEarthAlgorithm({}, now, NoClue) = {None}
    BY <1>0, LongEarthOfEmptyFeed
  <2>4. FluzCapacitorAlgorithm({}, now, NoClue) = None
    BY <1>0, FluzCapacitorOfEmptyFeed
  <2> HIDE DEF clues
  <2>5. \A clue \in clues : LongEarthAlgorithm(ch, now, clue) = {None}
    BY <2>1, <2>2, <2>3
  <2>6. \A clue \in clues : FluzCapacitorAlgorithm(ch, now, clue) = None
    BY <2>1, <2>2, <2>4
  <2> QED
    BY <1>2, <2>5, <2>6 DEF LookupFindsLatest, AlgorithmsAgree, clues
<1>3. CASE chunks # <<>>
  <2>1. PICK L \in ch, u \in Times : u <= now /\ LastPlaced(ch, L, u) /\ chunks[L] = Latest
    BY <1>3 DEF Placing, LatestIsLast
  <2>2. Placed(ch) /\ L \in Slots
    BY <1>0, <2>1 DEF Placing, Placed
  <2>3. L # None
    BY <2>2, SlotIsEpoch
  <2> HIDE DEF clues
  <2>4. \A clue \in clues : LongEarthAlgorithm(ch, now, clue) = {L}
    BY <1>0, <1>1, <2>1, <2>2, LongEarthFindsLast
  <2>5. \A clue \in clues : FluzCapacitorAlgorithm(ch, now, clue) = L
    BY <1>0, <1>1, <2>1, <2>2, FluzCapacitorFindsLast
  <2>6. AlgorithmsAgree
    BY <2>4, <2>5 DEF AlgorithmsAgree, clues
  <2>7. \A clue \in clues : \A a \in LongEarthAlgorithm(ch, now, clue) :
           a # None /\ chunks[a] = Latest
    BY <2>1, <2>3, <2>4
  <2> QED
    BY <1>3, <2>6, <2>7 DEF LookupFindsLatest, clues
<1> QED
  BY <1>2, <1>3

\* Lookup returns the last update uploaded, whatever hint the session cached
\* and however the goroutines of LongEarthAlgorithm are timed: for every number
\* of sessions, levels, uploads and seconds, when updateSoc reads the second
\* newRequest read (FeedSkew.cfg shows the answer go wrong when it does not).
THEOREM LookupsFindLatest == MaxSkew = 0 => (Spec => []LookupFindsLatest)
<1>1. Placing => LookupFindsLatest
  BY PlacingMeansFound
<1> QED
  BY <1>1, PlacingAlways, PTL

\* The concurrent algorithm has one answer, that of the sequential one, for
\* every hint a session may have cached.
THEOREM AlgorithmsAlwaysAgree == MaxSkew = 0 => (Spec => []AlgorithmsAgree)
<1>1. Placing => AlgorithmsAgree
  BY PlacingMeansFound
<1> QED
  BY <1>1, PlacingAlways, PTL

\* No update of any session is in a slot below an empty one, whichever reads
\* timed out and whichever update each session started from.
THEOREM WritersLeaveNoHoles == MaxSkew = 0 => (Spec => []NoHoles)
<1>1. Placing => NoHoles
  <2> SUFFICES ASSUME Placing, NEW c \in DOMAIN chunks, NEW l \in Levels, l >= c.level
               PROVE  [time |-> getBaseTime(c.time, l), level |-> l] \in DOMAIN chunks
    BY DEF NoHoles, Placement!NoHoles, Placement!Slot, Placement!Levels, Levels, LowestLevel
  <2>1. EpochID([time |-> c.time, level |-> l]) \in DOMAIN chunks
    BY DEF Placing, Placed
  <2> QED
    BY <2>1 DEF EpochID, Base
<1> QED
  BY <1>1, PlacingAlways, PTL

\* The periods of epoch.go are a nested family, as FeedSlots assumes.
THEOREM EpochsNest == Placement!SlotAssumption
<1>1. Placement!Levels = Levels /\ HighestLevel \in Nat
  BY EpochConstants DEF Placement!Levels, Levels, LowestLevel
<1>2. ASSUME NEW t \in 0..MaxTime, NEW l \in Levels
      PROVE  getBaseTime(t, l) \in 0..MaxTime
  <2>1. getBaseTime(t, l) \in Nat /\ getBaseTime(t, l) <= t /\ t \in Nat /\ MaxTime \in Nat
    BY ClockInWord, BaseInPast
  <2> QED
    BY <2>1
<1>3. ASSUME NEW t \in 0..MaxTime, NEW l \in Levels, NEW m \in Levels, l <= m
      PROVE  getBaseTime(getBaseTime(t, l), m) = getBaseTime(t, m)
  BY <1>3, ClockInWord, BasesNest
<1> QED
  BY <1>1, <1>2, <1>3, ClockInWord DEF Placement!SlotAssumption

\* What FeedSlots promises, whichever update each writer starts from: slots and
\* the clock keep their types,
THEOREM SlotsTyped == Placement!Spec => []Placement!TypeOK
<1>1. Placement!Init => Placement!TypeOK
  BY DEF Placement!Init, Placement!TypeOK
<1>2. Placement!TypeOK /\ [Placement!Next]_(Placement!vars) => Placement!TypeOK'
  <2> SUFFICES ASSUME Placement!TypeOK, [Placement!Next]_(Placement!vars)
               PROVE  Placement!TypeOK'
    OBVIOUS
  <2>1. \A l \in Placement!Levels : Placement!Slot(now, l) \in Placement!Slots
    BY EpochsNest DEF Placement!SlotAssumption, Placement!TypeOK, Placement!Slot, Placement!Slots
  <2>2. HighestLevel \in Placement!Levels
    BY EpochsNest DEF Placement!SlotAssumption, Placement!Levels
  <2>3. CASE Placement!Tick
    BY <2>3 DEF Placement!Tick, Placement!TypeOK
  <2>4. CASE Placement!PlaceFirst
    BY <2>4, <2>1, <2>2 DEF Placement!PlaceFirst, Placement!TypeOK
  <2>5. CASE Placement!PlaceNext
    BY <2>5, <2>1 DEF Placement!PlaceNext, Placement!NextLevels, Placement!TypeOK
  <2>6. CASE UNCHANGED Placement!vars
    BY <2>6 DEF Placement!vars, Placement!TypeOK
  <2> QED
    BY <2>3, <2>4, <2>5, <2>6 DEF Placement!Next
<1> QED
  BY <1>1, <1>2, PTL DEF Placement!Spec

\* Placing one update whose enclosing periods are all in use leaves no hole.
LEMMA PlacingKeepsNoHoles ==
  ASSUME Placement!TypeOK, Placement!NoHoles, NEW k \in Placement!Levels,
         (DOMAIN chunks)' = DOMAIN chunks \cup {Placement!Slot(now, k)}, now' = now,
         \A m \in Placement!Levels : m > k => Placement!Slot(now, m) \in DOMAIN chunks
  PROVE  Placement!NoHoles'
<1> SUFFICES ASSUME NEW c \in (DOMAIN chunks)', NEW l \in Placement!Levels, l >= c.level
             PROVE  Placement!Slot(c.time, l) \in (DOMAIN chunks)'
  BY DEF Placement!NoHoles
<1>1. CASE c \in DOMAIN chunks
  BY <1>1 DEF Placement!NoHoles
<1>2. CASE c = Placement!Slot(now, k)
  <2>1. c.level = k /\ c.time = getBaseTime(now, k)
    BY <1>2 DEF Placement!Slot
  <2>2. k <= l /\ now \in 0..MaxTime
    BY <2>1 DEF Placement!TypeOK, Placement!Levels
  <2>3. getBaseTime(getBaseTime(now, k), l) = getBaseTime(now, l)
    BY <2>2, EpochsNest DEF Placement!SlotAssumption
  <2>4. Placement!Slot(c.time, l) = Placement!Slot(now, l)
    BY <2>1, <2>3 DEF Placement!Slot
  <2>5. CASE l = k
    BY <2>4, <2>5
  <2>6. CASE l > k
    BY <2>4, <2>6
  <2> QED
    BY <2>2, <2>5, <2>6 DEF Placement!Levels
<1> QED
  BY <1>1, <1>2

\* The placement rule of GetNextLevel, with every writer free to start from
\* any update it happened to find, never leaves a hole above an update.
THEOREM SlotsHaveNoHoles == Placement!Spec => []Placement!NoHoles
<1>1. Placement!Init => Placement!NoHoles
  BY DEF Placement!Init, Placement!NoHoles
<1>2. Placement!TypeOK /\ Placement!NoHoles /\ [Placement!Next]_(Placement!vars) => Placement!NoHoles'
  <2> SUFFICES ASSUME Placement!TypeOK, Placement!NoHoles, [Placement!Next]_(Placement!vars)
               PROVE  Placement!NoHoles'
    OBVIOUS
  <2>1. CASE Placement!Tick
    BY <2>1 DEF Placement!Tick, Placement!NoHoles
  <2>2. CASE Placement!PlaceFirst
    <3>1. HighestLevel \in Placement!Levels /\ ~ \E m \in Placement!Levels : m > HighestLevel
      BY EpochsNest DEF Placement!SlotAssumption, Placement!Levels
    <3> QED
      BY <2>2, <3>1, PlacingKeepsNoHoles DEF Placement!PlaceFirst
  <2>3. CASE Placement!PlaceNext
    <3>1. PICK last \in DOMAIN chunks : \E l \in Placement!NextLevels(last) :
                (DOMAIN chunks)' = DOMAIN chunks \cup {Placement!Slot(now, l)}
      BY <2>3 DEF Placement!PlaceNext
    <3>2. PICK k \in Placement!NextLevels(last) : (DOMAIN chunks)' = DOMAIN chunks \cup {Placement!Slot(now, k)}
      BY <3>1
    <3>3. /\ k \in Placement!Levels /\ k >= last.level - 1
          /\ \A m \in Placement!Levels : m > k => getBaseTime(last.time, m) = getBaseTime(now, m)
      BY <3>2 DEF Placement!NextLevels
    <3>4. last.level \in Placement!Levels
      BY <3>1 DEF Placement!TypeOK, Placement!Slots
    <3>5. ASSUME NEW m \in Placement!Levels, m > k PROVE Placement!Slot(now, m) \in DOMAIN chunks
      <4>1. m >= last.level
        BY <3>3, <3>4, <3>5 DEF Placement!Levels
      <4>2. Placement!Slot(last.time, m) \in DOMAIN chunks
        BY <4>1, <3>1 DEF Placement!NoHoles
      <4> QED
        BY <4>2, <3>3, <3>5 DEF Placement!Slot
    <3> QED
      BY <3>2, <3>3, <3>5, <2>3, PlacingKeepsNoHoles DEF Placement!PlaceNext
  <2>4. CASE UNCHANGED Placement!vars
    BY <2>4 DEF Placement!vars, Placement!NoHoles
  <2> QED
    BY <2>1, <2>2, <2>3, <2>4 DEF Placement!Next
<1> QED
  BY <1>1, <1>2, SlotsTyped, PTL DEF Placement!Spec

\* Every step of a session is a step of the placement rule or changes nothing
\* it sees.
LEMMA StepsArePlaced ==
    ASSUME Placing, [Next]_vars
    PROVE  [Placement!Next]_(Placement!vars)
<1>0. Typed /\ now \in Times /\ now \in 0..MaxTime
  BY ClockInWord, WriterConstants DEF Placing, Typed, TypeOK
<1>L. Placement!Levels = Levels
  BY DEF Placement!Levels, Levels, LowestLevel
<1>S. \A l \in Levels : Placement!Slot(now, l) = EpochID([time |-> now, level |-> l])
  BY DEF Placement!Slot, EpochID, Base
<1>Q. now' = now /\ chunks' = chunks => UNCHANGED Placement!vars
  BY DEF Placement!vars
<1>1. CASE Tick
  <2>1. now' \in 0..MaxTime /\ now' >= now /\ UNCHANGED (DOMAIN chunks)
    BY <1>0, <1>1, ClockInWord DEF Tick
  <2> QED
    BY <2>1 DEF Placement!Next, Placement!Tick
<1>2. ASSUME NEW s \in Sessions, createSoc(s) PROVE [Placement!Next]_(Placement!vars)
  <2> DEFINE slot == EpochID(GetFirstEpoch(now))
  <2>1. slot = Placement!Slot(now, HighestLevel)
    BY <1>S, ClockInWord DEF GetFirstEpoch
  <2>2. DOMAIN chunks' = DOMAIN chunks \cup {slot} /\ now' = now
    BY <1>2 DEF createSoc, Store
  <2> HIDE DEF slot
  <2>3. Placement!PlaceFirst
    BY <2>1, <2>2 DEF Placement!PlaceFirst
  <2> QED
    BY <2>3 DEF Placement!Next
<1>3. ASSUME NEW s \in Sessions, updateSoc(s) PROVE [Placement!Next]_(Placement!vars)
  <2> DEFINE l == req[s].level
             slot == EpochID([time |-> now, level |-> l])
  <2>1. l \in Levels /\ LevelAllowed(l)
    BY <1>0, <1>3 DEF updateSoc, Typed, TypeOK, Placing, LevelsAllowed
  <2>2. now' = now /\ slot = Placement!Slot(now, l)
    BY <1>3, <1>S, <2>1 DEF updateSoc
  <2>3. CASE slot \in DOMAIN chunks
    BY <1>3, <1>Q, <2>2, <2>3 DEF updateSoc
  <2>4. CASE slot \notin DOMAIN chunks
    <3>1. DOMAIN chunks' = DOMAIN chunks \cup {slot}
      BY <1>3, <2>4 DEF updateSoc, Store
    <3> HIDE DEF slot, l
    <3>2. CASE l = HighestLevel
      BY <2>2, <3>1, <3>2 DEF Placement!Next, Placement!PlaceFirst
    <3>3. CASE l # HighestLevel
      <4>1. PICK last \in DOMAIN chunks :
              /\ l >= last.level - 1
              /\ \A m \in Levels : m > l => getBaseTime(last.time, m) = getBaseTime(now, m)
        BY <2>1, <3>3 DEF LevelAllowed
      <4>2. l \in Placement!NextLevels(last)
        BY <1>L, <2>1, <4>1 DEF Placement!NextLevels
      <4>3. Placement!PlaceNext
        BY <2>2, <3>1, <4>2 DEF Placement!PlaceNext
      <4> QED
        BY <4>3 DEF Placement!Next
    <3> QED
      BY <3>2, <3>3
  <2> QED
    BY <2>3, <2>4
<1>4. ASSUME NEW s \in Sessions,
             StartUpdate(s) \/ getSoc(s) \/ newRequest(s) \/ Waited(s) \/ Slept(s)
      PROVE  [Placement!Next]_(Placement!vars)
  BY <1>4, <1>Q DEF StartUpdate, getSoc, newRequest, Waited, Slept
<1>5. CASE UNCHANGED vars
  BY <1>5, <1>Q DEF vars
<1> QED
  BY <1>1, <1>2, <1>3, <1>4, <1>5 DEF Next

\* Sessions that look up, choose a level, upload and retry implement the
\* placement rule of FeedSlots.
THEOREM WritersFollowPlacement == MaxSkew = 0 => (Spec => WritesArePlaced)
<1> SUFFICES ASSUME MaxSkew = 0 PROVE Spec => WritesArePlaced
  OBVIOUS
<1>1. Init => Placement!Init
  <2> SUFFICES ASSUME Init PROVE Placement!Init
    OBVIOUS
  <2>1. now \in 0..MaxTime /\ DOMAIN chunks = {}
    BY ClockInWord, WriterConstants DEF Init
  <2> QED
    BY <2>1 DEF Placement!Init
<1>2. Placing /\ [Next]_vars => [Placement!Next]_(Placement!vars)
  BY StepsArePlaced
<1>3. Spec => []Placing
  BY PlacingAlways
<1> QED
  BY <1>1, <1>2, <1>3, PTL DEF Spec, WritesArePlaced, Placement!Spec
=============================================================================
