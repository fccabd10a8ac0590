---------------------------- MODULE FileIOProofs ----------------------------
(***************************************************************************)
(* Upload, WriteAt and Reader implement ByteFile, for all sizes.  The file *)
(* is always the blocks of some bytes c, as Split cuts them (FileOf), and  *)
(* an open reader stands between two of its blocks or in one of them.      *)
(* With this, a Read gives the next bytes of c, WriteAt leaves the blocks  *)
(* of c with the update in it, and the blocks that Upload's goroutines     *)
(* stored are in order.  Loops are functions of the rounds made; what holds*)
(* of all rounds is shown by induction up to the last (LoopInduction).     *)
(***************************************************************************)
EXTENDS FileIO, DocLines, SequenceTheorems, FiniteSetTheorems, WellFoundedInduction, TLAPS

-----------------------------------------------------------------------------
\* Induction up to a bound, for the functions that stand for loops.
LEMMA LoopInduction ==
    ASSUME NEW n \in Nat, NEW T, 0 \in T, \A i \in 1..n : i - 1 \in T => i \in T
    PROVE  \A i \in 0..n : i \in T
<1> SUFFICES ASSUME NEW z \in 0..n, z \notin T
             PROVE  FALSE
  OBVIOUS
<1> DEFINE Bad == {i \in 0..n : i \notin T}
           R == {ss \in Nat \X Nat : ss[1] < ss[2]}
<1>1. IsWellFoundedOn(R, Nat)
  BY NatLessThanWellFounded DEF OpToRel
<1>2. \A x, y \in Nat : y < x => <<y, x>> \in R
  OBVIOUS
<1>3. Bad \in SUBSET Nat /\ z \in Bad
  OBVIOUS
<1> HIDE DEF R
<1>4. PICK x \in Bad : \A y \in Bad : ~ (<<y, x>> \in R)
  <2> HIDE DEF Bad
  <2> QED
    BY <1>1, <1>3, WFMin
<1>5. x \in 1..n /\ x \notin T
  BY <1>4
<1>6. x - 1 \in Bad
  BY <1>5
<1>7. x \in Nat /\ x - 1 \in Nat /\ x - 1 < x
  BY <1>5
<1>8. <<x - 1, x>> \in R
  BY <1>2, <1>7
<1> QED
  BY <1>4, <1>6, <1>8

-----------------------------------------------------------------------------
\* Bytes and pieces of them.
ByteSeq == Seq(Nat)

LEMMA SliceProperties ==
    ASSUME NEW s \in ByteSeq, NEW i \in Nat, NEW j \in Nat, i <= j, j <= Len(s)
    PROVE  /\ Slice(s, i, j) \in ByteSeq
           /\ Len(Slice(s, i, j)) = j - i
           /\ \A k \in 1..(j - i) : Slice(s, i, j)[k] = s[i + k]
<1>1. Len(s) \in Nat /\ \A k \in 1..Len(s) : s[k] \in Nat
  BY LenProperties, ElementOfSeq DEF ByteSeq
<1>2. \A k \in (i + 1)..j : s[k] \in Nat
  BY <1>1
<1>3. /\ SubSeq(s, i + 1, j) \in Seq(Nat)
      /\ Len(SubSeq(s, i + 1, j)) = IF i + 1 <= j THEN j - (i + 1) + 1 ELSE 0
      /\ \A k \in 1..(j - (i + 1) + 1) : SubSeq(s, i + 1, j)[k] = s[(i + 1) + k - 1]
  <2>1. i + 1 \in Int /\ j \in Int
    OBVIOUS
  <2> QED
    BY <1>2, <2>1, SubSeqProperties
<1>4. j - (i + 1) + 1 = j - i
  OBVIOUS
<1>5. \A k \in 1..(j - i) : (i + 1) + k - 1 = i + k
  OBVIOUS
<1> QED
  BY <1>3, <1>4, <1>5 DEF Slice, ByteSeq

LEMMA ByteConcat ==
    ASSUME NEW s \in ByteSeq, NEW t \in ByteSeq
    PROVE  /\ s \o t \in ByteSeq
           /\ Len(s \o t) = Len(s) + Len(t)
           /\ \A k \in 1..(Len(s) + Len(t)) :
                 (s \o t)[k] = IF k <= Len(s) THEN s[k] ELSE t[k - Len(s)]
BY ConcatProperties DEF ByteSeq

LEMMA ByteLen ==
    ASSUME NEW s \in ByteSeq
    PROVE  Len(s) \in Nat /\ (s = <<>> <=> Len(s) = 0)
BY EmptySeq, LenProperties DEF ByteSeq

LEMMA BytesEqual ==
    ASSUME NEW s \in ByteSeq, NEW t \in ByteSeq, Len(s) = Len(t),
           \A k \in 1..Len(s) : s[k] = t[k]
    PROVE  s = t
BY SeqEqual DEF ByteSeq

LEMMA SliceConcat ==
    ASSUME NEW s \in ByteSeq, NEW i \in Nat, NEW j \in Nat, NEW k \in Nat,
           i <= j, j <= k, k <= Len(s)
    PROVE  Slice(s, i, j) \o Slice(s, j, k) = Slice(s, i, k)
<1> DEFINE a == Slice(s, i, j)
           b == Slice(s, j, k)
           c == Slice(s, i, k)
<1>0. Len(s) \in Nat /\ j <= Len(s) /\ i <= k
  BY ByteLen
<1>1. a \in ByteSeq /\ Len(a) = j - i /\ \A m \in 1..(j - i) : a[m] = s[i + m]
  BY <1>0, SliceProperties
<1>2. b \in ByteSeq /\ Len(b) = k - j /\ \A m \in 1..(k - j) : b[m] = s[j + m]
  BY <1>0, SliceProperties
<1>3. c \in ByteSeq /\ Len(c) = k - i /\ \A m \in 1..(k - i) : c[m] = s[i + m]
  BY <1>0, SliceProperties
<1> HIDE DEF a, b, c
<1>4. a \o b \in ByteSeq /\ Len(a \o b) = k - i
  <2>1. a \o b \in ByteSeq /\ Len(a \o b) = Len(a) + Len(b)
    BY <1>1, <1>2, ByteConcat
  <2> QED
    BY <1>1, <1>2, <2>1
<1>5. ASSUME NEW m \in 1..(k - i)
      PROVE  (a \o b)[m] = c[m]
  <2>0. Len(a) + Len(b) = k - i
    BY <1>1, <1>2
  <2>1. (a \o b)[m] = IF m <= Len(a) THEN a[m] ELSE b[m - Len(a)]
    BY ZenonT(40), <1>1, <1>2, <2>0, ByteConcat
  <2>2. CASE m <= j - i
    BY <1>1, <1>3, <2>1, <2>2
  <2>3. CASE m > j - i
    <3>1. m - (j - i) \in 1..(k - j) /\ j + (m - (j - i)) = i + m
      BY <2>3
    <3> QED
      BY <1>1, <1>2, <1>3, <2>1, <2>3, <3>1
  <2>4. m <= j - i \/ m > j - i
    OBVIOUS
  <2> QED
    BY <2>2, <2>3, <2>4
<1>6. a \o b = c
  BY <1>3, <1>4, <1>5, BytesEqual
<1> QED
  BY <1>6 DEF a, b, c

LEMMA SliceOfSlice ==
    ASSUME NEW s \in ByteSeq, NEW i \in Nat, NEW j \in Nat, i <= j, j <= Len(s),
           NEW a \in Nat, NEW b \in Nat, a <= b, b <= j - i
    PROVE  Slice(Slice(s, i, j), a, b) = Slice(s, i + a, i + b)
<1> DEFINE t == Slice(s, i, j)
           u == Slice(t, a, b)
           v == Slice(s, i + a, i + b)
<1>0. Len(s) \in Nat
  BY ByteLen
<1>1. t \in ByteSeq /\ Len(t) = j - i /\ \A m \in 1..(j - i) : t[m] = s[i + m]
  BY <1>0, SliceProperties
<1>3. v \in ByteSeq /\ Len(v) = b - a /\ \A m \in 1..(b - a) : v[m] = s[i + a + m]
  <2>1. i + a \in Nat /\ i + b \in Nat /\ i + a <= i + b /\ i + b <= Len(s) /\ (i + b) - (i + a) = b - a
    BY <1>0
  <2>2. /\ v \in ByteSeq /\ Len(v) = (i + b) - (i + a)
        /\ \A m \in 1..((i + b) - (i + a)) : v[m] = s[i + a + m]
    BY <2>1, SliceProperties
  <2> QED
    BY <2>1, <2>2
<1> HIDE DEF t, v
<1>2. u \in ByteSeq /\ Len(u) = b - a /\ \A m \in 1..(b - a) : u[m] = t[a + m]
  BY <1>1, SliceProperties
<1> HIDE DEF u
<1>4. \A m \in 1..(b - a) : a + m \in 1..(j - i) /\ i + (a + m) = i + a + m
  OBVIOUS
<1>5. \A m \in 1..Len(u) : u[m] = v[m]
  BY <1>1, <1>2, <1>3, <1>4
<1>6. u = v
  BY <1>2, <1>3, <1>5, BytesEqual
<1> QED
  BY <1>6 DEF t, u, v

LEMMA SliceAll ==
    ASSUME NEW s \in ByteSeq
    PROVE  /\ Slice(s, 0, Len(s)) = s
           /\ \A i \in 0..Len(s) : Slice(s, i, i) = <<>>
           /\ \A i \in 0..Len(s) : From(s, i) = Slice(s, i, Len(s))
<1>1. Len(s) \in Nat
  BY ByteLen
<1>2. Slice(s, 0, Len(s)) = s
  BY <1>1, SubSeqFull DEF Slice, ByteSeq
<1>3. ASSUME NEW i \in 0..Len(s)
      PROVE  Slice(s, i, i) = <<>>
  <2>1. i \in Nat /\ i <= Len(s)
    BY <1>1
  <2>2. Slice(s, i, i) \in ByteSeq /\ Len(Slice(s, i, i)) = 0
    BY <2>1, SliceProperties
  <2> QED
    BY <2>2, ByteLen
<1> QED
  BY <1>2, <1>3 DEF Slice, From

-----------------------------------------------------------------------------
\* Blocks: the k-th one ends at Border(k).
Border(k) == k * BlockSize
Count(n) == (n + BlockSize - 1) \div BlockSize
Block(c, k) == Slice(c, Border(k - 1), Least(Border(k), Len(c)))

LEMMA Borders ==
    /\ Border(0) = 0
    /\ \A i \in Nat : Border(i) \in Nat /\ Border(i + 1) = Border(i) + BlockSize
    /\ \A i, j \in Nat : i < j => Border(i) + BlockSize <= Border(j)
    /\ \A i, j \in Nat : i <= j => Border(i) <= Border(j)
    /\ \A i, j \in Nat : Border(i) < Border(j) => i < j
<1>0. BlockSize \in Nat /\ BlockSize > 0
  BY FileAssumption
<1>1. \A i \in Nat : Border(i) \in Nat /\ Border(i + 1) = Border(i) + BlockSize
  BY <1>0 DEF Border
<1>2. ASSUME NEW i \in Nat, NEW j \in Nat, i < j
      PROVE  Border(i) + BlockSize <= Border(j)
  <2>1. PICK d \in Nat : j = i + 1 + d
    <3>1. j - i - 1 \in Nat /\ j = i + 1 + (j - i - 1)
      BY <1>2
    <3> QED
      BY <3>1
  <2>2. (i + 1 + d) * BlockSize = i * BlockSize + BlockSize + d * BlockSize
    BY <1>0
  <2>3. d * BlockSize \in Nat /\ i * BlockSize \in Nat
    BY <1>0
  <2> QED
    BY <1>0, <2>1, <2>2, <2>3 DEF Border
<1>3. ASSUME NEW i \in Nat, NEW j \in Nat, i <= j
      PROVE  Border(i) <= Border(j)
  <2>1. CASE i = j
    BY <1>1, <2>1
  <2>2. CASE i < j
    BY <1>0, <1>1, <1>2, <2>2
  <2> QED
    BY <1>3, <2>1, <2>2
<1>4. ASSUME NEW i \in Nat, NEW j \in Nat, Border(i) < Border(j)
      PROVE  i < j
  <2> SUFFICES ASSUME j <= i PROVE FALSE
    OBVIOUS
  <2>1. Border(j) <= Border(i) /\ Border(j) \in Nat /\ Border(i) \in Nat
    BY <1>1, <1>3
  <2> QED
    BY <1>4, <2>1
<1>5. Border(0) = 0
  BY <1>0 DEF Border
<1> QED
  BY <1>1, <1>2, <1>3, <1>4, <1>5

LEMMA Division ==
    ASSUME NEW p \in Nat \ {0}, NEW t \in Nat
    PROVE  /\ t \div p \in Nat
           /\ t = p * (t \div p) + (t % p)
           /\ (t % p) \in 0..(p - 1)
OBVIOUS

\* Rounding a length up to blocks.
LEMMA Counting ==
    ASSUME NEW n \in Nat
    PROVE  /\ Count(n) \in Nat
           /\ n <= Border(Count(n))
           /\ Count(n) > 0 => Border(Count(n) - 1) < n
           /\ \A k \in Nat : n <= Border(k) /\ (k > 0 => Border(k - 1) < n) => k = Count(n)
           /\ \A k \in Nat : Border(k) < n <=> k < Count(n)
<1>0. BlockSize \in Nat /\ BlockSize > 0
  BY FileAssumption
<1>1. /\ Count(n) \in Nat
      /\ n + BlockSize - 1 = BlockSize * Count(n) + ((n + BlockSize - 1) % BlockSize)
      /\ (n + BlockSize - 1) % BlockSize \in 0..(BlockSize - 1)
  <2>1. BlockSize \in Nat \ {0} /\ n + BlockSize - 1 \in Nat
    BY <1>0
  <2> QED
    BY <2>1, Division DEF Count
<1> DEFINE m == Count(n)
           r == (n + BlockSize - 1) % BlockSize
<1>2. m \in Nat /\ r \in 0..(BlockSize - 1) /\ n + BlockSize - 1 = Border(m) + r
  <2>1. BlockSize * Count(n) = Border(Count(n))
    BY <1>0, <1>1 DEF Border
  <2> QED
    BY <1>1, <2>1
<1> HIDE DEF m, r
<1>3. Border(m) \in Nat
  BY <1>2, Borders
<1>4. n <= Border(m)
  BY <1>0, <1>2, <1>3
<1>5. ASSUME m > 0
      PROVE  Border(m - 1) < n
  <2>1. m - 1 \in Nat /\ (m - 1) + 1 = m
    BY <1>2, <1>5
  <2>2. Border(m) = Border(m - 1) + BlockSize /\ Border(m - 1) \in Nat
    BY <2>1, Borders
  <2> QED
    BY <1>0, <1>2, <2>2
<1>6. ASSUME NEW k \in Nat
      PROVE  Border(k) < n <=> k < m
  <2>1. Border(k) \in Nat
    BY Borders
  <2>2. ASSUME Border(k) < n PROVE k < m
    <3>1. Border(k) < Border(m)
      BY <1>3, <1>4, <2>1, <2>2
    <3> QED
      BY <1>2, <3>1, Borders
  <2>3. ASSUME k < m PROVE Border(k) < n
    <3>1. m - 1 \in Nat /\ k <= m - 1 /\ m > 0
      BY <1>2, <2>3
    <3>2. Border(k) <= Border(m - 1) /\ Border(m - 1) \in Nat
      BY <3>1, Borders
    <3> QED
      BY <1>5, <2>1, <3>1, <3>2
  <2> QED
    BY <2>2, <2>3
<1>7. ASSUME NEW k \in Nat, n <= Border(k), k > 0 => Border(k - 1) < n
      PROVE  k = m
  <2>1. Border(k) \in Nat
    BY Borders
  <2>2. ~(k < m)
    BY <1>6, <1>7, <2>1
  <2>3. ASSUME k > m PROVE FALSE
    <3>1. k - 1 \in Nat /\ k > 0 /\ ~(k - 1 < m)
      BY <1>2, <2>3
    <3> QED
      BY <1>6, <1>7, <3>1
  <2> QED
    BY <1>2, <2>2, <2>3
<1> QED
  BY <1>2, <1>4, <1>5, <1>6, <1>7 DEF m

\* A piece from a border to the next one or to the end.
LEMMA BlockProperties ==
    ASSUME NEW c \in ByteSeq, NEW k \in 1..Count(Len(c))
    PROVE  /\ Border(k - 1) \in Nat /\ Border(k) = Border(k - 1) + BlockSize
           /\ Border(k - 1) < Len(c)
           /\ Least(Border(k), Len(c)) \in Nat
           /\ Border(k - 1) < Least(Border(k), Len(c))
           /\ Least(Border(k), Len(c)) <= Len(c)
           /\ Block(c, k) \in ByteSeq
           /\ Len(Block(c, k)) = Least(Border(k), Len(c)) - Border(k - 1)
           /\ Len(Block(c, k)) \in 1..BlockSize
           /\ k < Count(Len(c)) => Border(k) < Len(c)
           /\ k = Count(Len(c)) => Len(c) <= Border(k)
<1>0. BlockSize \in Nat /\ BlockSize > 0 /\ Len(c) \in Nat
  BY FileAssumption, ByteLen
<1>1. Count(Len(c)) \in Nat
  BY <1>0, Counting
<1>2. k - 1 \in Nat /\ k \in Nat /\ (k - 1) + 1 = k /\ k - 1 < Count(Len(c))
  BY <1>1
<1>3. Border(k - 1) \in Nat /\ Border(k) = Border(k - 1) + BlockSize /\ Border(k) \in Nat
  BY <1>2, Borders
<1>4. Border(k - 1) < Len(c)
  BY <1>0, <1>2, Counting
<1>5. /\ Least(Border(k), Len(c)) \in Nat
      /\ Border(k - 1) < Least(Border(k), Len(c))
      /\ Least(Border(k), Len(c)) <= Len(c)
      /\ Least(Border(k), Len(c)) - Border(k - 1) \in 1..BlockSize
  BY <1>0, <1>3, <1>4 DEF Least
<1>6. /\ Block(c, k) \in ByteSeq
      /\ Len(Block(c, k)) = Least(Border(k), Len(c)) - Border(k - 1)
  <2>1. Border(k - 1) <= Least(Border(k), Len(c))
    BY <1>3, <1>5
  <2> QED
    BY <1>3, <1>5, <2>1, SliceProperties DEF Block
<1>7. k < Count(Len(c)) => Border(k) < Len(c)
  BY <1>0, <1>2, Counting
<1>8. k = Count(Len(c)) => Len(c) <= Border(k)
  BY <1>0, <1>2, Counting
<1> QED
  BY <1>3, <1>4, <1>5, <1>6, <1>7, <1>8

LEMMA SplitProperties ==
    ASSUME NEW c \in ByteSeq
    PROVE  /\ Split(c, BlockSize) = [k \in 1..Count(Len(c)) |-> Block(c, k)]
           /\ Split(c, BlockSize) \in Seq(ByteSeq)
           /\ Len(Split(c, BlockSize)) = Count(Len(c))
           /\ \A k \in 1..Count(Len(c)) : Split(c, BlockSize)[k] = Block(c, k)
<1>1. Count(Len(c)) \in Nat
  BY ByteLen, Counting
<1>2. Split(c, BlockSize) = [k \in 1..Count(Len(c)) |-> Block(c, k)]
  BY DEF Split, Count, Block, Border
<1>3. \A k \in 1..Count(Len(c)) : Block(c, k) \in ByteSeq
  BY BlockProperties
<1>4. [k \in 1..Count(Len(c)) |-> Block(c, k)] \in Seq(ByteSeq)
  BY <1>1, <1>3
<1>5. Len([k \in 1..Count(Len(c)) |-> Block(c, k)]) = Count(Len(c))
  BY <1>1, <1>3
<1> QED
  BY <1>2, <1>4, <1>5

LEMMA SplitIs ==
    ASSUME NEW c \in ByteSeq, NEW bs \in Seq(ByteSeq), Len(bs) = Count(Len(c)),
           \A k \in 1..Count(Len(c)) : bs[k] = Block(c, k)
    PROVE  bs = Split(c, BlockSize)
BY ZenonT(40), SplitProperties, SeqEqual

\* The function that FlattenSeq computes.
Joined(bs) ==
    CHOOSE f : f = [i \in 1..Len(bs) |-> IF i = 1 THEN bs[i] ELSE f[i - 1] \o bs[i]]

\* What is cut into blocks is what the blocks hold.
LEMMA SplitJoined ==
    ASSUME NEW c \in ByteSeq
    PROVE  FlattenSeq(Split(c, BlockSize)) = c
<1> DEFINE bs == Split(c, BlockSize)
           n == Count(Len(c))
           g == [i \in 1..n |-> Slice(c, 0, Least(Border(i), Len(c)))]
<1>0. Len(c) \in Nat /\ n \in Nat
  BY ByteLen, Counting
<1>1. bs \in Seq(ByteSeq) /\ Len(bs) = n /\ \A k \in 1..n : bs[k] = Block(c, k)
  BY SplitProperties
<1> HIDE DEF bs, n
<1>2. CASE n = 0
  <2>1. Len(c) <= 0
    BY <1>0, <1>2, Counting, Borders DEF n
  <2>2. c = <<>>
    BY <1>0, <2>1, ByteLen
  <2>3. bs = <<>>
    BY <1>1, <1>2, EmptySeq
  <2> QED
    BY <1>1, <1>2, <2>2, <2>3 DEF FlattenSeq, bs
<1>3. CASE n > 0
  <2>1. ASSUME NEW i \in 1..n, i # 1
        PROVE  g[i] = g[i - 1] \o bs[i]
    <3>1. i - 1 \in 1..n /\ i - 1 < n
      BY <1>0, <2>1
    <3>2. /\ Border(i - 1) \in Nat /\ Border(i - 1) < Len(c)
          /\ Least(Border(i), Len(c)) \in Nat
          /\ Border(i - 1) < Least(Border(i), Len(c))
          /\ Least(Border(i), Len(c)) <= Len(c)
      BY BlockProperties DEF n
    <3>3. Least(Border(i - 1), Len(c)) = Border(i - 1)
      BY <1>0, <3>2 DEF Least
    <3>4. g[i - 1] = Slice(c, 0, Border(i - 1))
      BY <3>1, <3>3
    <3>5. bs[i] = Slice(c, Border(i - 1), Least(Border(i), Len(c)))
      BY <1>1 DEF Block
    <3>6. g[i] = Slice(c, 0, Least(Border(i), Len(c)))
      OBVIOUS
    <3>7. 0 <= Border(i - 1) /\ Border(i - 1) <= Least(Border(i), Len(c))
      BY <3>2
    <3> HIDE DEF g
    <3>8. Slice(c, 0, Border(i - 1)) \o Slice(c, Border(i - 1), Least(Border(i), Len(c)))
             = Slice(c, 0, Least(Border(i), Len(c)))
      BY <3>2, <3>7, SliceConcat
    <3> QED
      BY <3>4, <3>5, <3>6, <3>8
  <2>2. g[1] = bs[1]
    <3>1. 1 \in 1..n /\ 1 - 1 = 0
      BY <1>0, <1>3
    <3>2. bs[1] = Slice(c, Border(1 - 1), Least(Border(1), Len(c)))
      BY <1>1, <3>1 DEF Block
    <3> QED
      BY <3>1, <3>2, Borders
  <2>3. g = [i \in 1..Len(bs) |-> IF i = 1 THEN bs[i] ELSE g[i - 1] \o bs[i]]
    BY <1>1, <2>1, <2>2
  <2> DEFINE f == Joined(bs)
  <2>4. f = [i \in 1..Len(bs) |-> IF i = 1 THEN bs[i] ELSE f[i - 1] \o bs[i]]
    <3> HIDE DEF g
    <3> QED
      BY <2>3 DEF Joined
  <2>5. FlattenSeq(bs) = f[n]
    BY <1>0, <1>1, <1>3 DEF FlattenSeq, Joined
  <2> HIDE DEF f
  <2>6. g[n] = c
    <3>1. Len(c) <= Border(n) /\ Border(n) \in Nat
      BY <1>0, Counting, Borders DEF n
    <3>2. Least(Border(n), Len(c)) = Len(c)
      BY <1>0, <3>1 DEF Least
    <3>3. n \in 1..n
      BY <1>0, <1>3
    <3> QED
      BY <3>2, <3>3, SliceAll
  <2> HIDE DEF g
  <2> DEFINE T == {i \in 0..n : i > 0 => f[i] = g[i]}
  <2>7. 0 \in T
    BY <1>0
  <2>8. ASSUME NEW i \in 1..n, i - 1 \in T
        PROVE  i \in T
    <3>1. f[i] = IF i = 1 THEN bs[i] ELSE f[i - 1] \o bs[i]
      BY <1>1, <2>4
    <3>2. CASE i = 1
      BY <1>0, <2>2, <3>1, <3>2 DEF T
    <3>3. CASE i # 1
      <4>1. i - 1 > 0
        BY <3>3
      <4>2. f[i - 1] = g[i - 1]
        BY <2>8, <4>1 DEF T
      <4>3. g[i] = g[i - 1] \o bs[i]
        BY <2>1, <3>3
      <4>4. f[i] = f[i - 1] \o bs[i]
        BY <3>1, <3>3
      <4>5. f[i] = g[i]
        BY <4>2, <4>3, <4>4
      <4>6. i \in 0..n
        BY <1>0
      <4> QED
        BY <4>5, <4>6 DEF T
    <3> QED
      BY <3>2, <3>3
  <2> HIDE DEF T
  <2>9. \A i \in 0..n : i \in T
    BY <1>0, <2>7, <2>8, LoopInduction
  <2>10. n \in 0..n
    BY <1>0
  <2>11. f[n] = g[n]
    BY <1>3, <2>9, <2>10 DEF T
  <2> QED
    BY <2>5, <2>6, <2>11 DEF bs
<1> QED
  BY <1>0, <1>2, <1>3

-----------------------------------------------------------------------------
\* The readers of a file.

LEMMA FileParts ==
    ASSUME NEW c \in ByteSeq
    PROVE  /\ FileOf(c).blockSize = BlockSize
           /\ FileOf(c).size = Len(c)
           /\ Len(FileOf(c).blocks) = Count(Len(c))
           /\ \A k \in 1..Count(Len(c)) : FileOf(c).blocks[k] = Block(c, k)
BY SplitProperties DEF FileOf

\* Between two blocks, or within block k.
BetweenBlocks(r, c) ==
    /\ r.lastBlock = <<>> /\ r.blockCursor = 0
    /\ \/ r.readOffset = Len(c)
       \/ r.blockSize = BlockSize /\ \E k \in Nat : r.readOffset = Border(k)

InBlock(r, c, k) ==
    /\ r.lastBlock = Block(c, k) /\ r.blockSize = Len(Block(c, k))
    /\ r.blockCursor < Len(Block(c, k))
    /\ r.readOffset = Border(k - 1) + r.blockCursor

ReaderOK(r, c) ==
    /\ r \in Readers
    /\ r.totalSize = r.readOffset /\ r.readOffset <= Len(c)
    /\ BetweenBlocks(r, c) \/ \E k \in 1..Count(Len(c)) : InBlock(r, c, k)

LEMMA BorderQuotient ==
    ASSUME NEW k \in Nat, NEW d \in Nat, d < BlockSize
    PROVE  (Border(k) + d) \div BlockSize = k /\ (Border(k) + d) % BlockSize = d
<1>1. \A p \in Nat \ {0} : \A q \in Nat : \A e \in 0..(p - 1) :
         (p * q + e) \div p = q /\ (p * q + e) % p = e
  OBVIOUS
<1>2. BlockSize \in Nat \ {0} /\ d \in 0..(BlockSize - 1)
  BY FileAssumption
<1>3. Border(k) = BlockSize * k
  BY <1>2 DEF Border
<1> QED
  BY <1>1, <1>2, <1>3

\* What an answer says of n bytes that were asked for at p.
Answers(a, c, p, n) ==
    \E m \in 0..n :
       /\ p + m <= Len(c)
       /\ a.data = Slice(c, p, p + m)
       /\ ReaderOK(a.reader, c) /\ a.reader.readOffset = p + m
       /\ \/ a.err = "EOF" /\ p + m = Len(c)
          \/ a.err = "nil" /\ m > 0

\* The same of the block at p, whose bytes follow those in done; a buffer of a
\* block's size takes all of it.
NextAnswers(a, c, p, n, done) ==
    \E m \in 1..n :
       /\ a = Answer(a.reader, done \o Slice(c, p, p + m), "nil")
       /\ p + m <= Len(c)
       /\ ReaderOK(a.reader, c) /\ a.reader.readOffset = p + m
       /\ n = BlockSize => BetweenBlocks(a.reader, c)
       /\ n = BlockSize => \A k \in Nat : p >= Border(k) => p + m >= Border(k + 1) \/ p + m = Len(c)

LEMMA NextBlock ==
    ASSUME NEW c \in ByteSeq, NEW r, ReaderOK(r, c), BetweenBlocks(r, c),
           r.readOffset < Len(c), NEW n \in Nat \ {0}, NEW done \in ByteSeq
    PROVE  NextAnswers(ReadNextBlock(r, n, FileOf(c), done), c, r.readOffset, n, done)
<1> DEFINE p == r.readOffset
<1>0. BlockSize \in Nat /\ BlockSize > 0 /\ Len(c) \in Nat /\ r \in Readers /\ p \in Nat
  BY FileAssumption, ByteLen DEF ReaderOK, Readers
<1>1. /\ r.lastBlock = <<>> /\ r.blockCursor = 0 /\ r.blockSize = BlockSize /\ r.totalSize = p
      /\ \E k \in Nat : p = Border(k)
  BY <1>0 DEF BetweenBlocks, ReaderOK
<1>2. PICK k \in Nat : p = Border(k)
  BY <1>1
<1> DEFINE N == Count(Len(c))
           b == Block(c, k + 1)
           m == Least(n, Len(b))
           f == FileOf(c)
<1>3. N \in Nat /\ k < N /\ k + 1 \in 1..N
  <2>1. N \in Nat /\ k < N
    BY <1>0, <1>2, Counting
  <2> QED
    BY <2>1
<1>4. p \div BlockSize = k
  <2>1. (Border(k) + 0) \div BlockSize = k
    BY <1>0, BorderQuotient
  <2>2. Border(k) + 0 = Border(k)
    BY <1>0, <1>2
  <2> QED
    BY <1>2, <2>1, <2>2
<1>5. /\ b \in ByteSeq /\ Len(b) \in 1..BlockSize
      /\ Len(b) = Least(Border(k + 1), Len(c)) - p
      /\ Border(k + 1) = p + BlockSize
      /\ Least(Border(k + 1), Len(c)) \in Nat
      /\ Least(Border(k + 1), Len(c)) <= Len(c)
  <2>1. (k + 1) - 1 = k
    OBVIOUS
  <2> QED
    BY <1>2, <1>3, <2>1, BlockProperties
<1>6. m \in 1..n /\ m <= Len(b) /\ p + m <= Len(c) /\ m \in Nat
  BY <1>0, <1>5 DEF Least
<1>7. f.blocks[k + 1] = b /\ Len(f.blocks) = N
  BY <1>3, FileParts
<1>8. Slice(b, 0, m) = Slice(c, p, p + m)
  <2>1. b = Slice(c, p, Least(Border(k + 1), Len(c)))
    <3>1. (k + 1) - 1 = k
      OBVIOUS
    <3> QED
      BY <1>2, <3>1 DEF Block
  <2>2. p <= Least(Border(k + 1), Len(c)) /\ 0 <= m /\ m <= Least(Border(k + 1), Len(c)) - p
    BY <1>0, <1>5, <1>6
  <2>3. p + 0 = p
    BY <1>0
  <2> HIDE DEF b, m, p
  <2>4. Slice(b, 0, m) = Slice(c, p + 0, p + m)
    BY <1>0, <1>5, <1>6, <2>1, <2>2, SliceOfSlice
  <2> QED
    BY <2>3, <2>4
<1> DEFINE whole == [r EXCEPT !.blockSize = Len(b), !.readOffset = p + m, !.totalSize = p + m,
                              !.lastBlock = <<>>, !.blockCursor = 0]
           part == [r EXCEPT !.blockSize = Len(b), !.readOffset = p + m, !.totalSize = p + m,
                             !.lastBlock = b, !.blockCursor = m]
           s == IF m = Len(b) THEN whole ELSE part
<1>9. ReadNextBlock(r, n, f, done) = Answer(s, done \o Slice(b, 0, m), "nil")
  <2>1. r.readOffset \div r.blockSize = k /\ ~(k >= N)
    BY <1>1, <1>3, <1>4
  <2>2. r.blockCursor + m = m /\ r.totalSize + m = p + m
    BY <1>1, <1>6
  <2> HIDE DEF f, N, b
  <2> QED
    BY <1>0, <1>1, <1>7, <2>1, <2>2 DEF ReadNextBlock, Advance, DropBlock, Answer, Readers
<1>10. s \in Readers /\ s.readOffset = p + m
  <2>1. Len(b) \in Nat /\ b \in Seq(Nat) /\ m \in Nat /\ p + m \in Nat /\ <<>> \in Seq(Nat)
    <3> HIDE DEF b, m, p
    <3>1. Len(b) \in Nat /\ m \in Nat /\ p + m \in Nat
      BY <1>0, <1>5, <1>6
    <3> QED
      BY <1>5, <3>1, EmptySeq DEF ByteSeq
  <2> HIDE DEF b, m, p
  <2>2. whole \in Readers /\ whole.readOffset = p + m
    BY <1>0, <2>1 DEF Readers
  <2>3. part \in Readers /\ part.readOffset = p + m
    BY <1>0, <2>1 DEF Readers
  <2> QED
    BY <2>2, <2>3
<1>11. ReaderOK(s, c) /\ (m = Len(b) => BetweenBlocks(s, c))
  <2>1. CASE m = Len(b)
    <3> HIDE DEF b, m
    <3>1. s = whole
      BY <2>1
    <3>2. p + m = Len(c) \/ (Len(b) = BlockSize /\ p + m = Border(k + 1))
      BY <1>0, <1>5, <2>1 DEF Least
    <3>3. /\ s.lastBlock = <<>> /\ s.blockCursor = 0 /\ s.blockSize = Len(b)
          /\ s.readOffset = p + m /\ s.totalSize = p + m
      <4> HIDE DEF p, s
      <4>1. /\ whole.lastBlock = <<>> /\ whole.blockCursor = 0 /\ whole.blockSize = Len(b)
            /\ whole.readOffset = p + m /\ whole.totalSize = p + m
        BY <1>0 DEF Readers
      <4> QED
        BY <3>1, <4>1
    <3>4. BetweenBlocks(s, c)
      <4> HIDE DEF p, s
      <4>1. k + 1 \in Nat
        OBVIOUS
      <4> QED
        BY <3>2, <3>3, <4>1 DEF BetweenBlocks
    <3> QED
      BY <1>6, <1>10, <3>3, <3>4 DEF ReaderOK
  <2>2. CASE m # Len(b)
    <3> HIDE DEF b, m
    <3>1. s = part
      BY <2>2
    <3>2. /\ s.lastBlock = b /\ s.blockCursor = m /\ s.blockSize = Len(b)
          /\ s.readOffset = p + m /\ s.totalSize = p + m
      BY <1>0, <3>1 DEF Readers
    <3>3. m < Len(b)
      BY <1>5, <1>6, <2>2
    <3>4. (k + 1) - 1 = k
      OBVIOUS
    <3>5. InBlock(s, c, k + 1)
      BY <1>2, <3>2, <3>3, <3>4 DEF InBlock, b
    <3> QED
      BY <1>3, <1>6, <1>10, <2>2, <3>2, <3>5 DEF ReaderOK
  <2> QED
    BY <2>1, <2>2
<1>12. ASSUME n = BlockSize
       PROVE  /\ m = Len(b)
              /\ \A j \in Nat : p >= Border(j) => p + m >= Border(j + 1) \/ p + m = Len(c)
  <2>1. m = Len(b)
    BY <1>0, <1>5, <1>12 DEF Least
  <2>2. p + m = Len(c) \/ p + m = Border(k + 1)
    BY <1>0, <1>5, <2>1 DEF Least
  <2>3. ASSUME NEW j \in Nat, p >= Border(j)
        PROVE  Border(k + 1) >= Border(j + 1)
    <3>1. ~(k < j)
      <4>1. Border(j) \in Nat /\ (k < j => Border(k) + BlockSize <= Border(j))
        BY Borders
      <4> QED
        BY <1>0, <1>2, <2>3, <4>1
    <3>2. j + 1 <= k + 1 /\ j + 1 \in Nat /\ k + 1 \in Nat
      BY <3>1
    <3>3. Border(j + 1) <= Border(k + 1)
      BY <3>2, Borders
    <3>4. Border(j + 1) \in Nat /\ Border(k + 1) \in Nat
      BY <3>2, Borders
    <3> QED
      BY <3>3, <3>4
  <2> QED
    BY <2>1, <2>2, <2>3
<1> HIDE DEF s, m, b, N, f
<1>13. ReadNextBlock(r, n, FileOf(c), done) = Answer(s, done \o Slice(c, p, p + m), "nil")
  BY <1>8, <1>9 DEF f
<1> DEFINE a == ReadNextBlock(r, n, FileOf(c), done)
<1>14. a.reader = s
  BY <1>13 DEF Answer
<1> HIDE DEF a, p
<1>15. NextAnswers(a, c, p, n, done)
  BY <1>6, <1>10, <1>11, <1>12, <1>13, <1>14 DEF NextAnswers, a
<1> QED
  BY <1>15 DEF a, p

LEMMA FreshReader ==
    ASSUME NEW c \in ByteSeq
    PROVE  /\ ReaderOK(NewReader(FileOf(c)), c)
           /\ BetweenBlocks(NewReader(FileOf(c)), c)
           /\ NewReader(FileOf(c)).readOffset = 0
<1> DEFINE r == NewReader(FileOf(c))
<1>0. BlockSize \in Nat /\ Len(c) \in Nat /\ <<>> \in Seq(Nat)
  BY FileAssumption, ByteLen, EmptySeq
<1>1. r = [readOffset |-> 0, lastBlock |-> <<>>, blockSize |-> BlockSize,
           blockCursor |-> 0, totalSize |-> 0]
  BY DEF NewReader, FileOf
<1> HIDE DEF r
<1>2. r \in Readers
  BY <1>0, <1>1 DEF Readers
<1>3. BetweenBlocks(r, c) /\ r.readOffset = 0
  BY <1>1, Borders DEF BetweenBlocks
<1> QED
  BY <1>0, <1>1, <1>2, <1>3 DEF ReaderOK, r

\* Read gives the bytes at the reader's position, some of them or, with EOF,
\* all that are left.
LEMMA ReadAnswers ==
    ASSUME NEW c \in ByteSeq, NEW r, ReaderOK(r, c), NEW n \in Nat \ {0}
    PROVE  Answers(Read(r, n, FileOf(c)), c, r.readOffset, n)
<1> DEFINE p == r.readOffset
           f == FileOf(c)
           a == Read(r, n, f)
<1> SUFFICES Answers(a, c, p, n)
  OBVIOUS
<1>0. /\ BlockSize \in Nat /\ BlockSize > 0 /\ Len(c) \in Nat /\ r \in Readers /\ p \in Nat
      /\ r.totalSize = p /\ r.readOffset = p /\ p <= Len(c) /\ f.size = Len(c)
      /\ r.lastBlock \in Seq(Nat) /\ r.blockCursor \in Nat
  BY FileAssumption, ByteLen, FileParts DEF ReaderOK, Readers
<1>1. CASE p >= Len(c)
  <2>1. a = Answer(r, <<>>, "EOF") /\ p = Len(c)
    <3> HIDE DEF f
    <3> QED
      BY <1>0, <1>1 DEF Read
  <2>2. Slice(c, p, p + 0) = <<>> /\ p + 0 = p
    BY <1>0, SliceAll
  <2>3. 0 \in 0..n /\ p + 0 <= Len(c)
    BY <2>1, <2>2
  <2>4. a.data = Slice(c, p, p + 0) /\ a.reader = r /\ a.err = "EOF" /\ p + 0 = Len(c)
    BY <2>1, <2>2 DEF Answer
  <2>5. r.readOffset = p + 0
    BY <2>2
  <2> HIDE DEF a, p
  <2> QED
    BY <2>3, <2>4, <2>5 DEF Answers
<1>2. CASE p < Len(c) /\ BetweenBlocks(r, c)
  <2>1. a = ReadNextBlock(r, n, f, <<>>)
    <3> HIDE DEF f
    <3> QED
      BY <1>0, <1>2 DEF Read, BetweenBlocks
  <2>2. <<>> \in ByteSeq
    BY EmptySeq DEF ByteSeq
  <2>3. PICK m \in 1..n :
           /\ a = Answer(a.reader, <<>> \o Slice(c, p, p + m), "nil")
           /\ p + m <= Len(c)
           /\ ReaderOK(a.reader, c) /\ a.reader.readOffset = p + m
    <3>1. NextAnswers(ReadNextBlock(r, n, f, <<>>), c, p, n, <<>>)
      BY <1>2, <2>2, NextBlock
    <3> HIDE DEF a, p, f
    <3> QED
      BY <2>1, <3>1 DEF NextAnswers
  <2>4. <<>> \o Slice(c, p, p + m) = Slice(c, p, p + m)
    <3>1. p <= p + m /\ p + m \in Nat /\ p + m <= Len(c)
      BY <1>0, <2>3
    <3>2. Slice(c, p, p + m) \in ByteSeq
      BY <1>0, <3>1, SliceProperties
    <3> HIDE DEF p
    <3> QED
      BY <3>2, ConcatEmptySeq DEF ByteSeq
  <2>5. m \in 0..n /\ m > 0
    BY <2>3
  <2>6. a.data = Slice(c, p, p + m) /\ a.err = "nil"
    <3> HIDE DEF a, p
    <3> QED
      BY <2>3, <2>4 DEF Answer
  <2> HIDE DEF a, p
  <2> QED
    BY <2>3, <2>5, <2>6 DEF Answers
<1>3. ASSUME p < Len(c), ~BetweenBlocks(r, c)
      PROVE  Answers(a, c, p, n)
  <2>1. PICK k \in 1..Count(Len(c)) : InBlock(r, c, k)
    BY <1>3 DEF ReaderOK
  <2> DEFINE b == Block(c, k)
             q == Least(Border(k), Len(c))
             left == From(b, r.blockCursor)
             rest == DropBlock(Advance(r, Len(left)))
             l == q - p
  <2>2. /\ r.lastBlock = b /\ r.blockSize = Len(b) /\ r.blockCursor < Len(b)
        /\ p = Border(k - 1) + r.blockCursor
    BY <2>1 DEF InBlock
  <2>3. /\ b \in ByteSeq /\ Len(b) = q - Border(k - 1) /\ Len(b) \in 1..BlockSize
        /\ q \in Nat /\ q <= Len(c) /\ Border(k - 1) \in Nat
        /\ Border(k) = Border(k - 1) + BlockSize /\ k \in Nat
    BY BlockProperties
  <2> HIDE DEF b
  <2>4. l \in Nat /\ l > 0 /\ p + l = q /\ l = Len(b) - r.blockCursor
    <3> HIDE DEF p, q
    <3>1. q = Border(k - 1) + Len(b)
      BY <2>3
    <3>2. p = Border(k - 1) + r.blockCursor
      BY <2>2
    <3>3. r.blockCursor < Len(b)
      BY <2>2
    <3>4. p \in Nat /\ q \in Nat /\ r.blockCursor \in Nat /\ Len(b) \in Nat /\ Border(k - 1) \in Nat
      BY <1>0, <2>3
    <3> HIDE DEF b
    <3>5. l = Len(b) - r.blockCursor
      BY SMTT(40), <3>1, <3>2, <3>4
    <3>6. l \in Nat /\ l > 0 
      BY <3>3, <3>4, <3>5
    <3> QED
      BY <3>1, <3>2, <3>3, <3>4, <3>5, <3>6
  <2>5. left = Slice(c, p, q) /\ left \in ByteSeq /\ Len(left) = l
    <3>1. b = Slice(c, Border(k - 1), q)
      BY DEF b, Block
    <3> HIDE DEF p, q, l
    <3>2. left = Slice(b, r.blockCursor, Len(b))
      <4>1. r.blockCursor \in 0..Len(b)
        BY SMTT(40), <1>0, <2>2, <2>3
      <4> QED
        BY <2>3, <4>1, SliceAll
    <3>3. /\ Border(k - 1) <= q /\ Len(b) \in Nat /\ Len(b) <= q - Border(k - 1)
          /\ r.blockCursor <= Len(b) /\ Border(k - 1) + Len(b) = q
      BY SMTT(40), <1>0, <2>2, <2>3
    <3>4. Slice(b, r.blockCursor, Len(b)) = Slice(c, p, q)
      <4>1. Slice(Slice(c, Border(k - 1), q), r.blockCursor, Len(b))
              = Slice(c, Border(k - 1) + r.blockCursor, Border(k - 1) + Len(b))
        BY SMTT(40), <1>0, <2>3, <3>3, SliceOfSlice
      <4> QED
        BY <2>2, <3>1, <3>3, <4>1
    <3>5. p <= q
      BY <1>0, <2>4
    <3>6. Slice(c, p, q) \in ByteSeq /\ Len(Slice(c, p, q)) = q - p
      BY <1>0, <2>3, <3>5, SliceProperties
    <3> QED
      BY <3>2, <3>4, <3>6 DEF l
  <2>6. r.lastBlock # <<>>
    BY <2>2, <2>3, ByteLen
  <2>7. From(r.lastBlock, r.blockCursor) = left
    BY <2>2
  <2>8. q = Len(c) \/ (q = Border(k) /\ Len(b) = BlockSize)
    BY <1>0, <2>3 DEF Least
  <2> HIDE DEF l, q
  <2>a. p \in Nat /\ q \in Nat /\ l \in Nat /\ p + l = q /\ l > 0 /\ q <= Len(c) /\ Len(c) \in Nat
    BY <1>0, <2>3, <2>4
  <2>b. /\ r.blockCursor \in Nat /\ Len(b) \in Nat /\ Border(k - 1) \in Nat
        /\ l = Len(b) - r.blockCursor /\ p = Border(k - 1) + r.blockCursor
    BY <1>0, <2>2, <2>3, <2>4
  <2> HIDE DEF p
  \* The end of the block is out of reach, or the buffer ends there.
  <2>9. CASE n <= l
    <3> DEFINE s == Advance(r, n)
               t == IF n = l THEN DropBlock(s) ELSE [s EXCEPT !.blockCursor = @ + n]
    <3>1. a = Answer(t, Slice(left, 0, n), "nil")
      <4> HIDE DEF left, f
      <4> QED
        BY <1>0, <1>3, <2>5, <2>6, <2>7, <2>9 DEF Read
    <3>2. Slice(left, 0, n) = Slice(c, p, p + n)
      <4>1. p <= q /\ n <= q - p /\ 0 <= n /\ p + 0 = p
        BY <2>9, <2>a
      <4>2. Slice(Slice(c, p, q), 0, n) = Slice(c, p + 0, p + n)
        BY <1>0, <2>3, <4>1, SliceOfSlice
      <4>3. Slice(c, p + 0, p + n) = Slice(c, p, p + n)
        BY <4>1
      <4>4. left = Slice(c, p, q)
        BY <2>5
      <4> HIDE DEF left
      <4>5. Slice(left, 0, n) = Slice(Slice(c, p, q), 0, n)
        BY <4>4
      <4> QED
        BY <4>2, <4>3, <4>5
    <3>3. p + n <= Len(c) /\ p + n \in Nat /\ r.blockCursor + n \in Nat
      <4> HIDE DEF s, t, left, rest, a, f
      <4>1. n \in Nat
        OBVIOUS
      <4>2. p + n <= p + l
        BY <2>9, <2>a, <4>1
      <4>3. p + n \in Nat /\ p + n <= Len(c)
        BY <2>a, <4>1, <4>2
      <4>4. r.blockCursor + n \in Nat
        BY <2>b, <4>1
      <4> QED
        BY <4>3, <4>4
    <3>4. /\ t \in Readers /\ t.readOffset = p + n /\ t.totalSize = p + n
          /\ n = l => t.lastBlock = <<>> /\ t.blockCursor = 0 /\ t.blockSize = r.blockSize
          /\ n # l => /\ t.lastBlock = r.lastBlock /\ t.blockSize = r.blockSize
                      /\ t.blockCursor = r.blockCursor + n
      <4>1. s \in Readers /\ s = [r EXCEPT !.readOffset = p + n, !.totalSize = p + n]
        BY <1>0, <3>3 DEF Readers, Advance
      <4> HIDE DEF s
      <4>2. CASE n = l
        <5>1. t = [s EXCEPT !.lastBlock = <<>>, !.blockCursor = 0]
          BY <4>2 DEF DropBlock
        <5>2. /\ [s EXCEPT !.lastBlock = <<>>, !.blockCursor = 0] \in Readers
              /\ [s EXCEPT !.lastBlock = <<>>, !.blockCursor = 0].readOffset = s.readOffset
              /\ [s EXCEPT !.lastBlock = <<>>, !.blockCursor = 0].totalSize = s.totalSize
              /\ [s EXCEPT !.lastBlock = <<>>, !.blockCursor = 0].lastBlock = <<>>
              /\ [s EXCEPT !.lastBlock = <<>>, !.blockCursor = 0].blockCursor = 0
              /\ [s EXCEPT !.lastBlock = <<>>, !.blockCursor = 0].blockSize = s.blockSize
          <6>1. <<>> \in Seq(Nat)
            BY EmptySeq
          <6> QED
            BY <4>1, <6>1 DEF Readers
        <5>3. s.readOffset = p + n /\ s.totalSize = p + n /\ s.blockSize = r.blockSize
          BY <1>0, <4>1 DEF Readers
        <5> HIDE DEF t
        <5> QED
          BY <4>2, <5>1, <5>2, <5>3
      <4>3. CASE n # l
        <5>1. t = [s EXCEPT !.blockCursor = r.blockCursor + n]
          BY <1>0, <4>1, <4>3 DEF Readers
        <5> QED
          BY <1>0, <3>3, <4>1, <4>3, <5>1 DEF Readers
      <4> QED
        BY <4>2, <4>3
    <3> HIDE DEF t
    <3>5. ReaderOK(t, c)
      <4>1. CASE n = l
        <5>1. BetweenBlocks(t, c)
          BY <2>2, <2>3, <2>4, <2>8, <3>4, <4>1 DEF BetweenBlocks
        <5> QED
          BY <3>3, <3>4, <5>1 DEF ReaderOK
      <4>2. CASE n # l
        <5>1. r.blockCursor + n < Len(b) /\ p + n = Border(k - 1) + (r.blockCursor + n)
          <6> DEFINE z == Border(k - 1)
                     y == Len(b)
                     x == r.blockCursor
          <6>1. x \in Nat /\ y \in Nat /\ z \in Nat /\ l = y - x /\ p = z + x
            BY <2>b
          <6> HIDE DEF x, y, z
          <6>2. x + n < y /\ p + n = z + (x + n)
            BY <2>9, <2>a, <4>2, <6>1
          <6> QED
            BY <6>2 DEF x, y, z
        <5>2. InBlock(t, c, k)
          BY <2>2, <3>4, <4>2, <5>1 DEF InBlock, b
        <5> QED
          BY <3>3, <3>4, <5>2 DEF ReaderOK
      <4> QED
        BY <4>1, <4>2
    <3>6. n \in 0..n /\ n > 0
      OBVIOUS
    <3> HIDE DEF a
    <3> QED
      BY <3>1, <3>2, <3>3, <3>4, <3>5, <3>6 DEF Answers, Answer
  <2>10. CASE n > l
    <3>1. /\ rest \in Readers /\ rest.readOffset = q /\ rest.totalSize = q
          /\ rest.lastBlock = <<>> /\ rest.blockCursor = 0 /\ rest.blockSize = r.blockSize
      <4> DEFINE s == Advance(r, Len(left))
      <4> HIDE DEF left
      <4>1. s \in Readers /\ s = [r EXCEPT !.readOffset = q, !.totalSize = q]
        BY <1>0, <2>3, <2>4, <2>5 DEF Readers, Advance
      <4>2. rest = [s EXCEPT !.lastBlock = <<>>, !.blockCursor = 0]
        BY DEF DropBlock
      <4> HIDE DEF s, rest
      <4> QED
        BY <1>0, <4>1, <4>2, EmptySeq DEF Readers
    <3>2. BetweenBlocks(rest, c)
      <4> HIDE DEF rest
      <4> QED
        BY <2>2, <2>3, <2>8, <3>1 DEF BetweenBlocks
    <3>3. ReaderOK(rest, c)
      <4> HIDE DEF rest
      <4> QED
        BY <2>3, <3>1, <3>2 DEF ReaderOK
    <3>4. a = IF rest.totalSize >= f.size THEN Answer(rest, left, "EOF")
              ELSE ReadNextBlock(rest, n - Len(left), f, left)
      <4>1. ~(n <= Len(left))
        BY <2>4, <2>5, <2>10
      <4> HIDE DEF left, f
      <4> QED
        BY <1>0, <1>3, <2>6, <2>7, <4>1 DEF Read
    <3>5. CASE q >= Len(c)
      <4>1. a = Answer(rest, left, "EOF") /\ q = Len(c)
        <5> HIDE DEF left, rest, f
        <5> QED
          BY <1>0, <2>3, <3>1, <3>4, <3>5
      <4>2. l \in 0..n /\ p + l = Len(c)
        BY <2>4, <2>10, <4>1
      <4> HIDE DEF left, rest
      <4>3. a.data = Slice(c, p, p + l) /\ a.reader = rest /\ a.err = "EOF"
        BY <2>5, <2>a, <4>1 DEF Answer
      <4>4. rest.readOffset = p + l /\ p + l <= Len(c)
        BY <2>a, <3>1, <4>2
      <4> HIDE DEF a
      <4> QED
        BY <3>3, <4>2, <4>3, <4>4 DEF Answers
    <3>6. CASE q < Len(c)
      <4> HIDE DEF left, rest
      <4>1. n - l \in Nat \ {0}
        BY <2>4, <2>10
      <4>2. a = ReadNextBlock(rest, n - l, f, left)
        <5> HIDE DEF f
        <5> QED
          BY <1>0, <2>3, <2>5, <3>1, <3>4, <3>6
      <4>3. PICK m \in 1..(n - l) :
               /\ a = Answer(a.reader, left \o Slice(c, q, q + m), "nil")
               /\ q + m <= Len(c)
               /\ ReaderOK(a.reader, c) /\ a.reader.readOffset = q + m
        <5> HIDE DEF a, f
        <5>1. rest.readOffset < Len(c) /\ rest.readOffset = q
          BY <3>1, <3>6
        <5>2. NextAnswers(ReadNextBlock(rest, n - l, f, left), c, rest.readOffset, n - l, left)
          BY <2>5, <3>2, <3>3, <4>1, <5>1, NextBlock DEF f
        <5> QED
          BY <4>2, <5>1, <5>2 DEF NextAnswers
      <4>4. /\ l + m \in 0..n /\ l + m > 0 /\ p + (l + m) = q + m
            /\ p <= q /\ q <= q + m /\ q + m \in Nat
        BY <2>10, <2>a, <4>1, <4>3
      <4>5. left \o Slice(c, q, q + m) = Slice(c, p, p + (l + m))
        <5>1. Slice(c, p, q) \o Slice(c, q, q + m) = Slice(c, p, q + m)
          BY SMTT(40), <2>a, <4>3, <4>4, SliceConcat
        <5> QED
          BY <2>5, <4>4, <5>1
      <4> HIDE DEF a
      <4>6. a.data = Slice(c, p, p + (l + m)) /\ a.err = "nil"
        <5> HIDE DEF left
        <5>1. a.data = left \o Slice(c, q, q + m) /\ a.err = "nil"
          BY <4>3 DEF Answer
        <5> QED
          BY <4>5, <5>1
      <4> QED
        BY <4>3, <4>4, <4>6 DEF Answers
    <3> QED
      BY <1>0, <2>3, <3>5, <3>6
  <2> QED
    BY <2>4, <2>9, <2>10
<1> QED
  BY <1>0, <1>1, <1>2, <1>3

\* Seek sets the position of a fresh reader.
LEMMA SeekAnswers ==
    ASSUME NEW c \in ByteSeq, NEW r, r = NewReader(FileOf(c)), NEW o \in 0..(Len(c) - 1)
    PROVE  LET a == Seek(r, o, FileOf(c)) IN
           a.data = <<>> /\ a.err = "nil" /\ ReaderOK(a.reader, c) /\ a.reader.readOffset = o
<1> DEFINE f == FileOf(c)
           a == Seek(r, o, f)
           k == o \div BlockSize
           d == o % BlockSize
           N == Count(Len(c))
           s == [readOffset |-> o, lastBlock |-> Block(c, k + 1),
                 blockSize |-> Len(Block(c, k + 1)), blockCursor |-> d, totalSize |-> o]
<1>0. BlockSize \in Nat \ {0} /\ Len(c) \in Nat /\ o \in Nat /\ o < Len(c)
  BY FileAssumption, ByteLen
<1>1. k \in Nat /\ o = BlockSize * k + d /\ d \in 0..(BlockSize - 1)
  BY <1>0, Division
<1> HIDE DEF k, d
<1>2. o = Border(k) + d /\ Border(k) \in Nat
  <2>1. BlockSize * k = Border(k)
    BY <1>0, <1>1 DEF Border
  <2> QED
    BY <1>1, <2>1, Borders
<1>3. N \in Nat /\ k < N /\ k + 1 \in 1..N
  <2>1. Border(k) < Len(c)
    BY <1>0, <1>1, <1>2
  <2>2. N \in Nat /\ k < N
    BY <1>0, <1>1, <2>1, Counting
  <2> QED
    BY <1>1, <2>2
<1>4. /\ f.blocks[k + 1] = Block(c, k + 1) /\ Len(f.blocks) = N /\ f.size = Len(c)
      /\ r.blockSize = BlockSize
  BY <1>3, FileParts DEF NewReader
<1>5. a = Answer(s, <<>>, "nil")
  <2>1. o \div r.blockSize = k /\ o % r.blockSize = d
    BY <1>4 DEF k, d
  <2>2. ~(o > f.size) /\ ~(k >= N)
    BY <1>0, <1>1, <1>3, <1>4
  <2> HIDE DEF f, N
  <2> QED
    BY <1>4, <2>1, <2>2 DEF Seek
<1>6. /\ Block(c, k + 1) \in ByteSeq /\ Len(Block(c, k + 1)) \in 1..BlockSize
      /\ Len(Block(c, k + 1)) = Least(Border(k + 1), Len(c)) - Border(k)
      /\ Border(k + 1) = Border(k) + BlockSize
  <2>1. (k + 1) - 1 = k
    BY <1>1
  <2> QED
    BY <1>3, <2>1, BlockProperties
<1>7. d < Len(Block(c, k + 1))
  BY <1>0, <1>1, <1>2, <1>6 DEF Least
<1>8. s \in Readers
  BY <1>0, <1>1, <1>6 DEF Readers, ByteSeq
<1>9. InBlock(s, c, k + 1)
  <2>1. (k + 1) - 1 = k
    BY <1>1
  <2> QED
    BY <1>2, <1>7, <2>1 DEF InBlock
<1>10. ReaderOK(s, c)
  <2>1. s.totalSize = o /\ s.readOffset = o
    OBVIOUS
  <2> HIDE DEF s
  <2> QED
    BY <1>0, <1>3, <1>8, <1>9, <2>1 DEF ReaderOK
<1> QED
  BY <1>5, <1>10 DEF Answer

-----------------------------------------------------------------------------
\* Loops: functions of the number of rounds.
IsLoop(f, n, first, Step) == f = [i \in 0..n |-> IF i = 0 THEN first ELSE Step[f[i - 1]]]

LEMMA LoopExists ==
    ASSUME NEW n \in Nat, NEW V, NEW first \in V, NEW Step \in [V -> V]
    PROVE  \E f \in [0..n -> V] : IsLoop(f, n, first, Step)
<1> DEFINE Upto(m, f) == f[0] = first /\ \A i \in 1..m : f[i] = Step[f[i - 1]]
           T == {m \in 0..n : \E f \in [0..m -> V] : Upto(m, f)}
<1>1. 0 \in T
  <2>1. [i \in 0..0 |-> first] \in [0..0 -> V] /\ Upto(0, [i \in 0..0 |-> first])
    OBVIOUS
  <2>2. 0 \in 0..n
    OBVIOUS
  <2> QED
    BY <2>1, <2>2
<1>2. ASSUME NEW m \in 1..n, m - 1 \in T
      PROVE  m \in T
  <2>1. PICK f \in [0..(m - 1) -> V] : Upto(m - 1, f)
    BY <1>2
  <2> DEFINE g == [i \in 0..m |-> IF i = m THEN Step[f[m - 1]] ELSE f[i]]
  <2>2. \A i \in 0..m : i # m => i \in 0..(m - 1)
    OBVIOUS
  <2>3. m - 1 \in 0..(m - 1) /\ 0 \in 0..m /\ 0 # m
    OBVIOUS
  <2>4. f[m - 1] \in V
    BY <2>3
  <2>5. g \in [0..m -> V]
    BY <2>2, <2>4
  <2>6. g[0] = first
    BY <2>1, <2>3
  <2>7. ASSUME NEW i \in 1..m
        PROVE  g[i] = Step[g[i - 1]]
    <3>1. i \in 0..m /\ i - 1 \in 0..m /\ i - 1 # m
      OBVIOUS
    <3>2. g[i - 1] = f[i - 1]
      BY <3>1
    <3>3. CASE i = m
      BY <3>1, <3>2, <3>3
    <3>4. CASE i # m
      <4>1. i \in 1..(m - 1)
        BY <3>4
      <4>2. g[i] = f[i]
        BY <3>1, <3>4
      <4> QED
        BY <2>1, <3>2, <4>1, <4>2
    <3> QED
      BY <3>3, <3>4
  <2>8. m \in 0..n
    OBVIOUS
  <2> HIDE DEF g
  <2> QED
    BY <2>5, <2>6, <2>7, <2>8
<1> HIDE DEF T
<1>3. n \in T
  <2>1. \A m \in 0..n : m \in T
    BY <1>1, <1>2, LoopInduction
  <2>2. n \in 0..n
    OBVIOUS
  <2> QED
    BY <2>1, <2>2
<1>4. PICK f \in [0..n -> V] : Upto(n, f)
  BY <1>3 DEF T
<1>5. ASSUME NEW i \in 0..n
      PROVE  f[i] = IF i = 0 THEN first ELSE Step[f[i - 1]]
  <2>1. CASE i = 0
    BY <1>4, <2>1
  <2>2. CASE i # 0
    <3>1. i \in 1..n
      BY <2>2
    <3> QED
      BY <1>4, <2>2, <3>1
  <2> QED
    BY <2>1, <2>2
<1>6. f = [i \in 0..n |-> f[i]]
  OBVIOUS
<1>7. f = [i \in 0..n |-> IF i = 0 THEN first ELSE Step[f[i - 1]]]
  BY <1>5, <1>6
<1> QED
  BY <1>7 DEF IsLoop

\* A reader between two blocks takes the next one with a buffer of its size.
LEMMA ReadWhole ==
    ASSUME NEW c \in ByteSeq, NEW r, ReaderOK(r, c), BetweenBlocks(r, c)
    PROVE  LET a == Read(r, BlockSize, FileOf(c))
               p == r.readOffset
               q == a.reader.readOffset
           IN  /\ a.err \in {"nil", "EOF"}
               /\ ReaderOK(a.reader, c) /\ BetweenBlocks(a.reader, c)
               /\ p \in Nat /\ q \in Nat /\ p <= q /\ q <= Len(c) /\ a.data = Slice(c, p, q)
               /\ a.err = "EOF" => q = Len(c)
               /\ \A k \in Nat : p >= Border(k) => q >= Border(k + 1) \/ q = Len(c)
<1> DEFINE f == FileOf(c)
           a == Read(r, BlockSize, f)
           p == r.readOffset
           q == a.reader.readOffset
<1>0. /\ BlockSize \in Nat \ {0} /\ Len(c) \in Nat /\ r \in Readers /\ p \in Nat
      /\ r.totalSize = p /\ p <= Len(c) /\ f.size = Len(c) /\ r.lastBlock = <<>>
  BY FileAssumption, ByteLen, FileParts DEF ReaderOK, Readers, BetweenBlocks
<1>1. CASE p >= Len(c)
  <2>1. a = Answer(r, <<>>, "EOF") /\ p = Len(c)
    <3> HIDE DEF f
    <3> QED
      BY <1>0, <1>1 DEF Read
  <2>2. Slice(c, p, p) = <<>>
    BY <1>0, SliceAll
  <2>3. a.reader = r /\ a.data = <<>> /\ a.err = "EOF"
    BY <2>1 DEF Answer
  <2> QED
    BY <1>0, <2>1, <2>2, <2>3
<1>2. CASE p < Len(c)
  <2>1. a = ReadNextBlock(r, BlockSize, f, <<>>)
    <3> HIDE DEF f
    <3> QED
      BY <1>0, <1>2 DEF Read
  <2>2. <<>> \in ByteSeq
    BY EmptySeq DEF ByteSeq
  <2>3. NextAnswers(ReadNextBlock(r, BlockSize, f, <<>>), c, p, BlockSize, <<>>)
    BY <1>0, <1>2, <2>2, NextBlock
  <2> HIDE DEF a, f, p
  <2>4. PICK m \in 1..BlockSize :
           /\ a = Answer(a.reader, <<>> \o Slice(c, p, p + m), "nil")
           /\ p + m <= Len(c)
           /\ ReaderOK(a.reader, c) /\ a.reader.readOffset = p + m
           /\ BetweenBlocks(a.reader, c)
           /\ \A k \in Nat : p >= Border(k) => p + m >= Border(k + 1) \/ p + m = Len(c)
    BY <2>1, <2>3 DEF NextAnswers
  <2>5. p + m \in Nat /\ p <= p + m
    BY <1>0, <2>4
  <2>6. <<>> \o Slice(c, p, p + m) = Slice(c, p, p + m)
    <3>1. Slice(c, p, p + m) \in ByteSeq
      BY <1>0, <2>4, <2>5, SliceProperties
    <3> QED
      BY <3>1, ConcatEmptySeq DEF ByteSeq
  <2>7. a.err = "nil" /\ a.data = Slice(c, p, p + m)
    BY <2>4, <2>6 DEF Answer
  <2> QED
    BY <1>0, <2>4, <2>5, <2>7 DEF a, f, p
<1> QED
  BY <1>0, <1>1, <1>2

\* What ReadFrom has taken after some Reads.
Walked(c) ==
    {a \in [reader : Readers, data : ByteSeq, err : {"nil", "EOF"}] :
        /\ ReaderOK(a.reader, c) /\ BetweenBlocks(a.reader, c)
        /\ a.data = Slice(c, 0, a.reader.readOffset)
        /\ a.err = "EOF" => a.reader.readOffset = Len(c)}

ReadMore(a, f) ==
    LET more == Read(a.reader, f.blockSize, f)
    IN  IF a.err = "EOF" THEN a ELSE Answer(more.reader, a.data \o more.data, more.err)

Reads(f) ==
    CHOOSE g : g = [k \in 0..(Len(f.blocks) + 1) |->
                       IF k = 0 THEN Answer(NewReader(f), <<>>, "nil") ELSE ReadMore(g[k - 1], f)]

LEMMA ReadMoreWalks ==
    ASSUME NEW c \in ByteSeq, NEW a \in Walked(c)
    PROVE  /\ ReadMore(a, FileOf(c)) \in Walked(c)
           /\ \A k \in Nat : a.reader.readOffset >= Border(k) \/ a.reader.readOffset = Len(c) =>
                 \/ ReadMore(a, FileOf(c)).reader.readOffset >= Border(k + 1)
                 \/ ReadMore(a, FileOf(c)).reader.readOffset = Len(c)
<1> DEFINE f == FileOf(c)
           b == ReadMore(a, f)
           more == Read(a.reader, BlockSize, f)
           p == a.reader.readOffset
           q == more.reader.readOffset
<1>0. /\ a \in [reader : Readers, data : ByteSeq, err : {"nil", "EOF"}]
      /\ ReaderOK(a.reader, c) /\ BetweenBlocks(a.reader, c)
      /\ a.data = Slice(c, 0, p)
      /\ a.err = "EOF" => p = Len(c)
  BY DEF Walked
<1>1. CASE a.err = "EOF"
  <2>1. b = a
    BY <1>1 DEF ReadMore
  <2> QED
    BY <1>0, <1>1, <2>1
<1>2. CASE a.err # "EOF"
  <2>1. /\ more.err \in {"nil", "EOF"}
        /\ ReaderOK(more.reader, c) /\ BetweenBlocks(more.reader, c)
        /\ p \in Nat /\ q \in Nat /\ p <= q /\ q <= Len(c) /\ more.data = Slice(c, p, q)
        /\ more.err = "EOF" => q = Len(c)
        /\ \A k \in Nat : p >= Border(k) => q >= Border(k + 1) \/ q = Len(c)
    BY <1>0, ReadWhole
  <2>2. b = Answer(more.reader, a.data \o more.data, more.err)
    BY <1>2, FileParts DEF ReadMore
  <2> HIDE DEF more, p, b, f
  <2>3. Len(c) \in Nat
    BY ByteLen
  <2>4. a.data \o more.data = Slice(c, 0, q)
    <3>1. Slice(c, 0, p) \o Slice(c, p, q) = Slice(c, 0, q)
      <4>1. 0 <= p
        BY <2>1
      <4> QED
        BY <2>1, <4>1, SliceConcat
    <3> QED
      BY <1>0, <2>1, <3>1
  <2>5. Slice(c, 0, q) \in ByteSeq
    <3>1. 0 <= q
      BY <2>1
    <3> QED
      BY <2>1, <3>1, SliceProperties
  <2>6. b.reader = more.reader /\ b.data = Slice(c, 0, q) /\ b.err = more.err
    BY <2>2, <2>4 DEF Answer
  <2>7. b \in [reader : Readers, data : ByteSeq, err : {"nil", "EOF"}]
    <3>1. more.reader \in Readers
      BY <2>1 DEF ReaderOK
    <3> QED
      BY <2>1, <2>2, <2>4, <2>5, <3>1 DEF Answer
  <2>8. b \in Walked(c)
    BY <2>1, <2>6, <2>7 DEF Walked
  <2>9. ASSUME NEW k \in Nat, p >= Border(k) \/ p = Len(c)
        PROVE  q >= Border(k + 1) \/ q = Len(c)
    BY <2>1, <2>3, <2>9
  <2> QED
    BY <2>6, <2>8, <2>9 DEF p, b, f
<1> QED
  BY <1>1, <1>2

\* ReadFrom gives all bytes of the file.
LEMMA ReadAllReads ==
    ASSUME NEW c \in ByteSeq
    PROVE  ReadAll(FileOf(c)) = c
<1> DEFINE f == FileOf(c)
           n == Len(f.blocks) + 1
           V == Walked(c)
           first == Answer(NewReader(f), <<>>, "nil")
           Step == [a \in V |-> ReadMore(a, f)]
           g == Reads(f)
<1>0. Len(c) \in Nat /\ Count(Len(c)) \in Nat /\ n = Count(Len(c)) + 1 /\ n \in Nat
  <2>1. Len(c) \in Nat /\ Count(Len(c)) \in Nat
    BY ByteLen, Counting
  <2>2. Len(f.blocks) = Count(Len(c))
    BY FileParts
  <2> QED
    BY <2>1, <2>2
<1>1. first \in V /\ first.reader.readOffset = 0
  <2>1. ReaderOK(NewReader(f), c) /\ BetweenBlocks(NewReader(f), c) /\ NewReader(f).readOffset = 0
    BY FreshReader
  <2>2. Slice(c, 0, 0) = <<>> /\ <<>> \in ByteSeq
    <3>1. 0 \in 0..Len(c)
      BY <1>0
    <3> QED
      BY <3>1, SliceAll, EmptySeq DEF ByteSeq
  <2>3. NewReader(f) \in Readers
    BY <2>1 DEF ReaderOK
  <2> HIDE DEF f
  <2>4. first \in [reader : Readers, data : ByteSeq, err : {"nil", "EOF"}]
    BY <2>2, <2>3 DEF Answer
  <2>5. first.reader = NewReader(f) /\ first.data = <<>> /\ first.err = "nil"
    BY DEF Answer
  <2> HIDE DEF first
  <2> QED
    BY <2>1, <2>2, <2>4, <2>5 DEF Walked
<1>2. Step \in [V -> V]
  BY ReadMoreWalks
<1> HIDE DEF f, n, V, first
<1>3. PICK h \in [0..n -> V] : IsLoop(h, n, first, Step)
  <2> HIDE DEF Step
  <2> QED
    BY <1>0, <1>1, <1>2, LoopExists
<1>4. h = [i \in 0..n |-> IF i = 0 THEN first ELSE ReadMore(h[i - 1], f)]
  <2>1. ASSUME NEW i \in 0..n, i # 0
        PROVE  Step[h[i - 1]] = ReadMore(h[i - 1], f)
    <3>1. i - 1 \in 0..n
      BY <1>0, <2>1
    <3> QED
      BY <3>1
  <2> HIDE DEF Step
  <2> QED
    BY <1>3, <2>1 DEF IsLoop
<1>5. g = [i \in 0..n |-> IF i = 0 THEN first ELSE ReadMore(g[i - 1], f)]
  BY <1>4 DEF Reads, n, first
<1>6. ReadAll(f) = g[n].data
  BY DEF ReadAll, Reads, ReadMore, n
<1> HIDE DEF g
<1> DEFINE T == {i \in 0..n : /\ g[i] \in V
                              /\ \/ g[i].reader.readOffset >= Border(i)
                                 \/ g[i].reader.readOffset = Len(c)}
<1>7. 0 \in T
  <2>1. 0 \in 0..n
    BY <1>0
  <2>2. g[0] = first
    BY <1>5, <2>1
  <2>3. 0 >= Border(0)
    BY Borders
  <2> QED
    BY <1>1, <2>1, <2>2, <2>3
<1>8. ASSUME NEW i \in 1..n, i - 1 \in T
      PROVE  i \in T
  <2>1. i \in 0..n /\ i # 0 /\ i - 1 \in Nat /\ (i - 1) + 1 = i
    BY <1>0
  <2>2. g[i] = ReadMore(g[i - 1], f)
    BY <1>5, <2>1
  <2>3. g[i - 1] \in Walked(c)
    BY <1>8 DEF V
  <2>4. \/ g[i - 1].reader.readOffset >= Border(i - 1)
        \/ g[i - 1].reader.readOffset = Len(c)
    BY <1>8
  <2> HIDE DEF T
  <2>5. /\ ReadMore(g[i - 1], f) \in V
        /\ \/ ReadMore(g[i - 1], f).reader.readOffset >= Border((i - 1) + 1)
           \/ ReadMore(g[i - 1], f).reader.readOffset = Len(c)
    BY <2>1, <2>3, <2>4, ReadMoreWalks DEF f, V
  <2> QED
    BY <2>1, <2>2, <2>5 DEF T
<1> HIDE DEF T
<1>9. n \in T
  <2>1. \A i \in 0..n : i \in T
    BY <1>0, <1>7, <1>8, LoopInduction
  <2>2. n \in 0..n
    BY <1>0
  <2> QED
    BY <2>1, <2>2
<1>10. /\ g[n] \in Walked(c)
       /\ \/ g[n].reader.readOffset >= Border(n)
          \/ g[n].reader.readOffset = Len(c)
  BY <1>9 DEF T, V
<1> DEFINE p == g[n].reader.readOffset
<1>11. p <= Len(c) /\ p \in Nat /\ g[n].data = Slice(c, 0, p)
  BY <1>10 DEF Walked, ReaderOK, Readers
<1>12. Border(n) >= Len(c)
  <2>1. Len(c) <= Border(Count(Len(c))) /\ Border(Count(Len(c))) <= Border(n) /\ Border(n) \in Nat
        /\ Border(Count(Len(c))) \in Nat
    BY <1>0, Counting, Borders
  <2> QED
    BY <1>0, <2>1
<1>13. p = Len(c)
  <2>1. Border(n) \in Nat
    BY <1>0, Borders
  <2> QED
    BY <1>0, <1>10, <1>11, <1>12, <2>1
<1> HIDE DEF p
<1> QED
  BY <1>6, <1>11, <1>13, SliceAll DEF f

-----------------------------------------------------------------------------
\* WriteAt.  New is what it should leave of the content c.
New(c, u, o) == SubSeq(c, 1, o) \o u \o SubSeq(c, o + Len(u) + 1, Len(c))

LEMMA NewBytes ==
    ASSUME NEW c \in ByteSeq, NEW u \in ByteSeq, NEW o \in 0..Len(c)
    PROVE  /\ New(c, u, o) \in ByteSeq
           /\ Len(New(c, u, o)) = IF o + Len(u) > Len(c) THEN o + Len(u) ELSE Len(c)
           /\ \A k \in 1..o : New(c, u, o)[k] = c[k]
           /\ \A k \in (o + 1)..(o + Len(u)) : New(c, u, o)[k] = u[k - o]
           /\ \A k \in (o + Len(u) + 1)..Len(c) : New(c, u, o)[k] = c[k]
<1> DEFINE e == o + Len(u)
           s == SubSeq(c, 1, o)
           t == SubSeq(c, e + 1, Len(c))
<1>0. Len(c) \in Nat /\ Len(u) \in Nat /\ o \in Nat /\ o <= Len(c) /\ e \in Nat /\ e >= o
  BY ByteLen
<1>1. s \in ByteSeq /\ Len(s) = o /\ \A k \in 1..o : s[k] = c[k]
  <2>1. s = Slice(c, 0, o)
    BY DEF Slice
  <2>2. 0 <= o /\ o - 0 = o
    BY <1>0
  <2>3. /\ Slice(c, 0, o) \in ByteSeq /\ Len(Slice(c, 0, o)) = o - 0
        /\ \A k \in 1..(o - 0) : Slice(c, 0, o)[k] = c[0 + k]
    BY <1>0, <2>2, SliceProperties
  <2>4. \A k \in 1..o : 0 + k = k
    BY <1>0
  <2> QED
    BY <2>1, <2>2, <2>3, <2>4
<1>2. /\ t \in ByteSeq /\ Len(t) = IF e > Len(c) THEN 0 ELSE Len(c) - e
      /\ \A k \in 1..(Len(c) - e) : t[k] = c[e + k]
  <2>1. CASE e <= Len(c)
    <3>1. t = Slice(c, e, Len(c))
      BY DEF Slice
    <3>2. /\ Slice(c, e, Len(c)) \in ByteSeq /\ Len(Slice(c, e, Len(c))) = Len(c) - e
          /\ \A k \in 1..(Len(c) - e) : Slice(c, e, Len(c))[k] = c[e + k]
      <4>1. Len(c) <= Len(c)
        BY <1>0
      <4> QED
        BY <1>0, <2>1, <4>1, SliceProperties
    <3> HIDE DEF e, t
    <3>3. ~(e > Len(c))
      BY <1>0, <2>1
    <3> QED
      BY <3>1, <3>2, <3>3
  <2>2. CASE e > Len(c)
    <3>1. t = <<>>
      <4>1. e + 1 \in Int /\ Len(c) \in Int /\ Len(c) < e + 1
        BY <1>0, <2>2
      <4> QED
        BY <4>1, SubSeqEmpty
    <3>2. 1..(Len(c) - e) = {}
      BY <1>0, <2>2
    <3> HIDE DEF t, e
    <3> QED
      BY <2>2, <3>1, <3>2, EmptySeq DEF ByteSeq
  <2> QED
    BY <1>0, <2>1, <2>2
<1> HIDE DEF s, t
<1>3. /\ s \o u \in ByteSeq /\ Len(s \o u) = e
      /\ \A k \in 1..e : (s \o u)[k] = IF k <= o THEN s[k] ELSE u[k - o]
  BY <1>1, ByteConcat
<1>4. /\ (s \o u) \o t \in ByteSeq /\ Len((s \o u) \o t) = Len(s \o u) + Len(t)
      /\ \A k \in 1..(Len(s \o u) + Len(t)) :
            ((s \o u) \o t)[k] = IF k <= Len(s \o u) THEN (s \o u)[k] ELSE t[k - Len(s \o u)]
  BY <1>2, <1>3, ByteConcat
<1> DEFINE w == New(c, u, o)
<1>5. w = (s \o u) \o t
  BY DEF New, s, t
<1> HIDE DEF w
<1>6. Len(t) \in Nat /\ Len(w) = e + Len(t) /\ w \in ByteSeq
  BY <1>2, <1>3, <1>4, <1>5, ByteLen
<1>7. \A k \in 1..(e + Len(t)) : w[k] = IF k <= e THEN (s \o u)[k] ELSE t[k - e]
  BY <1>3, <1>4, <1>5
<1> HIDE DEF e
<1>8. ASSUME NEW k \in 1..e
      PROVE  w[k] = (s \o u)[k] /\ (k <= o => w[k] = c[k]) /\ (k > o => w[k] = u[k - o])
  <2>1. k \in 1..(e + Len(t)) /\ k <= e
    BY <1>0, <1>6
  <2>2. w[k] = (s \o u)[k]
    BY <1>7, <2>1
  <2>3. k <= o => k \in 1..o
    BY <1>0
  <2>4. ~(k <= o) <=> k > o
    BY <1>0
  <2> QED
    BY <1>1, <1>3, <2>2, <2>3, <2>4
<1>9. ASSUME NEW k \in (e + 1)..Len(c)
      PROVE  w[k] = c[k]
  <2>1. /\ k \in 1..(e + Len(t)) /\ ~(k <= e) /\ k - e \in 1..(Len(c) - e) /\ e + (k - e) = k
    BY <1>0, <1>2
  <2> QED
    BY <1>2, <1>7, <2>1
<1>10. Len(w) = IF e > Len(c) THEN e ELSE Len(c)
  BY <1>0, <1>2, <1>6
<1>11. \A k \in 1..o : k \in 1..e /\ k <= o
  BY <1>0
<1>12. \A k \in (o + 1)..e : k \in 1..e /\ k > o
  BY <1>0
<1> QED
  BY <1>6, <1>8, <1>9, <1>10, <1>11, <1>12 DEF w, e

\* The pieces of the new content are pieces of the old one or of the update.
LEMMA NewSlices ==
    ASSUME NEW c \in ByteSeq, NEW u \in ByteSeq, NEW o \in 0..Len(c),
           NEW i \in Nat, NEW j \in Nat, i <= j
    PROVE  /\ j <= o => Slice(New(c, u, o), i, j) = Slice(c, i, j)
           /\ o <= i /\ j <= o + Len(u) => Slice(New(c, u, o), i, j) = Slice(u, i - o, j - o)
           /\ o + Len(u) <= i /\ j <= Len(c) => Slice(New(c, u, o), i, j) = Slice(c, i, j)
<1> DEFINE w == New(c, u, o)
           e == o + Len(u)
           d == j - i
<1>0. Len(c) \in Nat /\ Len(u) \in Nat /\ o \in Nat /\ o <= Len(c) /\ e \in Nat /\ e >= o /\ d \in Nat
  BY ByteLen
<1>1. /\ w \in ByteSeq /\ Len(w) = IF e > Len(c) THEN e ELSE Len(c)
      /\ \A k \in 1..o : w[k] = c[k]
      /\ \A k \in (o + 1)..e : w[k] = u[k - o]
      /\ \A k \in (e + 1)..Len(c) : w[k] = c[k]
  BY NewBytes
<1> HIDE DEF w, e
<1>2. ASSUME j <= Len(w)
      PROVE  /\ Slice(w, i, j) \in ByteSeq /\ Len(Slice(w, i, j)) = d
             /\ \A k \in 1..d : Slice(w, i, j)[k] = w[i + k]
  BY <1>1, <1>2, SliceProperties
<1>3. ASSUME j <= Len(c)
      PROVE  /\ Slice(c, i, j) \in ByteSeq /\ Len(Slice(c, i, j)) = d
             /\ \A k \in 1..d : Slice(c, i, j)[k] = c[i + k]
  BY <1>3, SliceProperties
<1>4. ASSUME j <= o
      PROVE  Slice(w, i, j) = Slice(c, i, j)
  <2>1. j <= Len(w) /\ j <= Len(c)
    BY <1>0, <1>1, <1>4
  <2>2. \A k \in 1..d : i + k \in 1..o
    BY <1>0, <1>4
  <2>3. \A k \in 1..d : Slice(w, i, j)[k] = Slice(c, i, j)[k]
    BY <1>1, <1>2, <1>3, <2>1, <2>2
  <2> QED
    BY <1>2, <1>3, <2>1, <2>3, BytesEqual
<1>5. ASSUME o <= i, j <= e
      PROVE  Slice(w, i, j) = Slice(u, i - o, j - o)
  <2>1. j <= Len(w) /\ i - o \in Nat /\ j - o \in Nat /\ i - o <= j - o /\ j - o <= Len(u)
        /\ (j - o) - (i - o) = d
    BY <1>0, <1>1, <1>5 DEF e
  <2>2. /\ Slice(u, i - o, j - o) \in ByteSeq /\ Len(Slice(u, i - o, j - o)) = (j - o) - (i - o)
        /\ \A k \in 1..((j - o) - (i - o)) : Slice(u, i - o, j - o)[k] = u[(i - o) + k]
    BY <2>1, SliceProperties
  <2>3. \A k \in 1..d : i + k \in (o + 1)..e /\ (i + k) - o = (i - o) + k
    BY <1>0, <1>5
  <2>4. \A k \in 1..d : Slice(w, i, j)[k] = Slice(u, i - o, j - o)[k]
    BY <1>1, <1>2, <2>1, <2>2, <2>3
  <2> QED
    BY <1>2, <2>1, <2>2, <2>4, BytesEqual
<1>6. ASSUME e <= i, j <= Len(c)
      PROVE  Slice(w, i, j) = Slice(c, i, j)
  <2>1. j <= Len(w) /\ j <= Len(c)
    BY <1>0, <1>1, <1>6
  <2>2. \A k \in 1..d : i + k \in (e + 1)..Len(c)
    BY <1>0, <1>6
  <2>3. \A k \in 1..d : Slice(w, i, j)[k] = Slice(c, i, j)[k]
    BY <1>1, <1>2, <1>3, <2>1, <2>2
  <2> QED
    BY <1>2, <1>3, <2>1, <2>3, BytesEqual
<1> QED
  BY <1>4, <1>5, <1>6 DEF w, e

LEMMA FromProperties ==
    ASSUME NEW s \in ByteSeq, NEW i \in Nat
    PROVE  /\ From(s, i) \in ByteSeq
           /\ Len(From(s, i)) = IF i <= Len(s) THEN Len(s) - i ELSE 0
           /\ i >= Len(s) => From(s, i) = <<>>
           /\ \A j \in Nat : j <= Len(From(s, i)) => From(From(s, i), j) = From(s, i + j)
           /\ \A j \in Nat : i + j <= Len(s) => Slice(From(s, i), 0, j) = Slice(s, i, i + j)
<1>0. Len(s) \in Nat /\ <<>> \in ByteSeq /\ Len(<<>>) = 0
  BY ByteLen, EmptySeq DEF ByteSeq
<1>1. CASE i <= Len(s)
  <2>1. From(s, i) = Slice(s, i, Len(s))
    BY DEF From, Slice
  <2> DEFINE t == Slice(s, i, Len(s))
  <2>2. t \in ByteSeq /\ Len(t) = Len(s) - i
    <3>1. Len(s) <= Len(s)
      BY <1>0
    <3> QED
      BY <1>0, <1>1, <3>1, SliceProperties
  <2>3. i >= Len(s) => t = <<>>
    BY <1>0, <1>1, <2>2, ByteLen
  <2>4. ASSUME NEW j \in Nat, j <= Len(t)
        PROVE  From(t, j) = From(s, i + j)
    <3>1. From(t, j) = Slice(t, j, Len(t)) /\ From(s, i + j) = Slice(s, i + j, Len(s))
      BY DEF From, Slice
    <3>2. Len(t) \in Nat /\ Len(t) <= Len(s) - i /\ i + Len(t) = Len(s)
      BY <1>0, <1>1, <2>2
    <3>3. Slice(t, j, Len(t)) = Slice(s, i + j, i + Len(t))
      <4>1. Len(s) <= Len(s)
        BY <1>0
      <4>2. \A b \in Nat : j <= b /\ b <= Len(s) - i =>
                 Slice(Slice(s, i, Len(s)), j, b) = Slice(s, i + j, i + b)
        BY <1>0, <1>1, <4>1, SliceOfSlice
      <4> HIDE DEF t
      <4>3. Slice(Slice(s, i, Len(s)), j, Len(t)) = Slice(s, i + j, i + Len(t))
        BY <2>4, <3>2, <4>2
      <4> QED
        BY <4>3 DEF t
    <3> QED
      BY <3>1, <3>2, <3>3
  <2>5. ASSUME NEW j \in Nat, i + j <= Len(s)
        PROVE  Slice(t, 0, j) = Slice(s, i, i + j)
    <3>1. 0 <= j /\ j <= Len(s) - i /\ i + 0 = i
      BY <1>0, <2>5
    <3>2. Slice(t, 0, j) = Slice(s, i + 0, i + j)
      BY <1>0, <1>1, <3>1, SliceOfSlice
    <3> QED
      BY <3>1, <3>2
  <2> HIDE DEF t
  <2> QED
    BY <1>1, <2>1, <2>2, <2>3, <2>4, <2>5 DEF t
<1>2. CASE i > Len(s)
  <2>1. From(s, i) = <<>>
    <3>1. i + 1 \in Int /\ Len(s) \in Int /\ Len(s) < i + 1
      BY <1>0, <1>2
    <3> QED
      BY <3>1, SubSeqEmpty DEF From
  <2>2. ASSUME NEW j \in Nat, j <= 0
        PROVE  From(<<>>, j) = From(s, i + j)
    <3>1. j = 0 /\ i + j = i
      BY <2>2
    <3>2. From(<<>>, 0) = <<>>
      <4>1. 0 + 1 \in Int /\ 0 \in Int /\ 0 < 0 + 1
        OBVIOUS
      <4> QED
        BY <1>0, <4>1, SubSeqEmpty DEF From
    <3> QED
      BY <2>1, <3>1, <3>2
  <2>3. \A j \in Nat : ~(i + j <= Len(s))
    BY <1>0, <1>2
  <2>4. ~(i <= Len(s))
    BY <1>0, <1>2
  <2> QED
    BY <1>0, <2>1, <2>2, <2>3, <2>4
<1> QED
  BY <1>0, <1>1, <1>2

\* A state of the loop, and where it stands: the bytes of block i + 1 up to
\* position z are in data, and what is left to read and to write starts at z.
Rounds == [reader : ByteSeq, updater : ByteSeq, data : ByteSeq, totalLength : Nat, i : Nat,
           blocks : Seq(ByteSeq)]

Reached(x, i, z, c, u, o) ==
    /\ x \in Rounds
    /\ x.totalLength = z /\ x.updater = From(u, z - o) /\ x.reader = From(c, z)
    /\ x.data = Slice(New(c, u, o), Border(i), z)
    /\ z \in Nat /\ o <= z /\ z <= o + Len(u)
    /\ Border(i) <= z /\ z <= Border(i) + BlockSize

\* Between two rounds there is more to write, or nothing.
Running(x, c, u, o) ==
    /\ x \in Rounds
    /\ x.totalLength = Border(x.i) /\ x.reader = From(c, Border(x.i))
    /\ u # <<>> /\ Border(x.i) < o + Len(u) /\ o < Border(x.i) + BlockSize
    /\ \/ Border(x.i) <= o /\ x.updater = u
       \/ Border(x.i) > o /\ x.updater = From(u, Border(x.i) - o)

Finished(x, u, o) == x.updater = <<>> /\ o + Len(u) <= Border(x.i)

\* The blocks that were written are new, the others old.
Placed(x, c, w) ==
    /\ x.i <= Len(x.blocks) /\ Count(Len(c)) <= Len(x.blocks)
    /\ Len(x.blocks) = x.i \/ Len(x.blocks) = Count(Len(c))
    /\ x.i <= Count(Len(w))
    /\ \A k \in 1..x.i : x.blocks[k] = Block(w, k)
    /\ \A k \in (x.i + 1)..Len(x.blocks) : x.blocks[k] = Block(c, k)

LEMMA HeadReaches ==
    ASSUME NEW c \in ByteSeq, NEW u \in ByteSeq, NEW o \in 0..Len(c),
           NEW x, Running(x, c, u, o)
    PROVE  LET h == HeadPart(x, o, o % BlockSize)
               z == IF Border(x.i) < o THEN o ELSE Border(x.i)
           IN  /\ Reached(h, x.i, z, c, u, o)
               /\ z < Border(x.i) + BlockSize /\ z < o + Len(u)
               /\ h.i = x.i /\ h.blocks = x.blocks
<1> DEFINE t == Border(x.i)
           w == New(c, u, o)
           h == HeadPart(x, o, o % BlockSize)
<1>0. /\ BlockSize \in Nat /\ BlockSize > 0 /\ Len(c) \in Nat /\ Len(u) \in Nat
      /\ o \in Nat /\ o <= Len(c) /\ x \in Rounds /\ x.i \in Nat /\ t \in Nat
      /\ t < o + Len(u) /\ o < t + BlockSize
  <2>1. x \in Rounds /\ t < o + Len(u) /\ o < t + BlockSize
    BY DEF Running
  <2>2. x.i \in Nat
    BY <2>1 DEF Rounds
  <2>3. BlockSize \in Nat /\ BlockSize > 0
    BY FileAssumption
  <2>4. Len(c) \in Nat /\ Len(u) \in Nat
    BY ByteLen
  <2>5. o \in Nat /\ o <= Len(c)
    BY <2>4
  <2>6. t \in Nat
    BY <2>2, Borders
  <2> HIDE DEF t
  <2> QED
    BY <2>1, <2>2, <2>3, <2>4, <2>5, <2>6
<1>1. x.totalLength = t /\ x.reader = From(c, t)
  BY DEF Running
<1>2. CASE t < o
  <2> DEFINE d == o - t
  <2>1. d \in Nat /\ d < BlockSize /\ t + d = o
    BY <1>0, <1>2
  <2>2. o % BlockSize = d
    <3>1. (Border(x.i) + d) % BlockSize = d
      BY <1>0, <2>1, BorderQuotient
    <3> QED
      BY <2>1, <3>1
  <2>3. x.updater = u
    BY <1>0, <1>2 DEF Running
  <2>4. /\ Slice(From(c, t), 0, d) = Slice(c, t, o) /\ From(From(c, t), d) = From(c, o)
    <3>1. t + d <= Len(c) /\ t <= Len(c) /\ d <= Len(c) - t
      BY <1>0, <2>1
    <3> HIDE DEF t, d
    <3>2. /\ Slice(From(c, t), 0, d) = Slice(c, t, t + d)
          /\ Len(From(c, t)) = Len(c) - t
      BY <1>0, <2>1, <3>1, FromProperties
    <3>3. From(From(c, t), d) = From(c, t + d)
      BY <1>0, <2>1, <3>1, <3>2, FromProperties
    <3> QED
      BY <2>1, <3>2, <3>3
  <2>5. Slice(c, t, o) = Slice(w, t, o) /\ Slice(c, t, o) \in ByteSeq
    <3>1. t <= o /\ o <= o
      BY <1>0, <1>2
    <3>2. Slice(w, t, o) = Slice(c, t, o)
      BY <1>0, <3>1, NewSlices
    <3>3. Slice(c, t, o) \in ByteSeq
      BY <1>0, <3>1, SliceProperties
    <3> QED
      BY <3>2, <3>3
  <2>6. h = [x EXCEPT !.data = Slice(c, t, o), !.reader = From(c, o), !.totalLength = o]
    <3> HIDE DEF t, d
    <3> QED
      BY <1>0, <1>1, <1>2, <2>1, <2>2, <2>4 DEF HeadPart, Rounds
  <2>7. From(c, o) \in ByteSeq
    BY <1>0, FromProperties
  <2>8. From(u, o - o) = u
    <3>1. o - o = 0 /\ 0 \in 0..Len(u)
      BY <1>0
    <3>2. From(u, 0) = u
      BY <3>1, SliceAll
    <3> QED
      BY <3>1, <3>2
  <2> HIDE DEF h, t, w, d
  <2>9. /\ h \in Rounds /\ h.totalLength = o /\ h.updater = u /\ h.reader = From(c, o)
        /\ h.data = Slice(c, t, o) /\ h.i = x.i /\ h.blocks = x.blocks
    BY <1>0, <2>3, <2>5, <2>6, <2>7 DEF Rounds
  <2>10. o <= o /\ o <= o + Len(u) /\ t <= o /\ o <= t + BlockSize
    BY <1>0, <1>2
  <2>11. Reached(h, x.i, o, c, u, o)
    <3>1. h.updater = From(u, o - o) /\ h.data = Slice(w, t, o)
      BY <2>5, <2>8, <2>9
    <3>2. o \in Nat
      BY <1>0
    <3> QED
      BY <2>9, <2>10, <3>1, <3>2 DEF Reached, t, w
  <2>12. o < o + Len(u)
    <3>1. Len(u) # 0
      BY ByteLen DEF Running
    <3> QED
      BY <1>0, <3>1
  <2> QED
    BY <1>0, <1>2, <2>9, <2>11, <2>12 DEF h, t
<1>3. CASE ~(t < o)
  <2>1. h = [x EXCEPT !.data = <<>>]
    <3> HIDE DEF t
    <3> QED
      BY <1>0, <1>1, <1>3 DEF HeadPart
  <2>2. x.updater = From(u, t - o)
    <3>1. CASE t = o
      <4>1. t - o = 0 /\ 0 \in 0..Len(u)
        BY <1>0, <3>1
      <4>2. From(u, 0) = u
        BY <4>1, SliceAll
      <4>3. x.updater = u
        <5>1. ~(t > o)
          BY <1>0, <3>1
        <5> QED
          BY <5>1 DEF Running
      <4> QED
        BY <4>1, <4>2, <4>3
    <3>2. CASE t # o
      <4>1. ~(t <= o)
        BY <1>0, <1>3, <3>2
      <4> QED
        BY <4>1 DEF Running
    <3> QED
      BY <3>1, <3>2
  <2>3. Slice(w, t, t) = <<>> /\ <<>> \in ByteSeq
    <3>1. w \in ByteSeq /\ Len(w) = IF o + Len(u) > Len(c) THEN o + Len(u) ELSE Len(c)
      BY NewBytes
    <3>2. t \in 0..Len(w)
      BY <1>0, <3>1
    <3> QED
      BY <3>1, <3>2, SliceAll, EmptySeq DEF ByteSeq
  <2> HIDE DEF h, t, w
  <2>4. /\ h \in Rounds /\ h.totalLength = t /\ h.updater = From(u, t - o) /\ h.reader = From(c, t)
        /\ h.data = <<>> /\ h.i = x.i /\ h.blocks = x.blocks
    BY <1>0, <1>1, <2>1, <2>2, <2>3 DEF Rounds
  <2>5. o <= t /\ t <= o + Len(u) /\ t <= t /\ t <= t + BlockSize
    BY <1>0, <1>3
  <2>6. Reached(h, x.i, t, c, u, o)
    BY <1>0, <2>3, <2>4, <2>5 DEF Reached, t, w
  <2>7. t < t + BlockSize
    BY <1>0
  <2> QED
    BY <1>0, <1>3, <2>4, <2>6, <2>7 DEF h, t
<1> QED
  BY <1>2, <1>3

LEMMA UpdateReaches ==
    ASSUME NEW c \in ByteSeq, NEW u \in ByteSeq, NEW o \in 0..Len(c), NEW i \in Nat,
           NEW z \in Nat, NEW h, Reached(h, i, z, c, u, o),
           z < Border(i) + BlockSize, z < o + Len(u)
    PROVE  LET g == WritePart(h, FileOf(c), o, o + Len(u))
               y == Least(Border(i) + BlockSize, o + Len(u))
           IN  /\ Reached(g, i, y, c, u, o) /\ z < y
               /\ g.i = h.i /\ g.blocks = h.blocks
<1> DEFINE t == Border(i)
           e == o + Len(u)
           w == New(c, u, o)
           y == Least(t + BlockSize, e)
           g == WritePart(h, FileOf(c), o, e)
           p == y - z
<1>0. /\ BlockSize \in Nat /\ BlockSize > 0 /\ Len(c) \in Nat /\ Len(u) \in Nat
      /\ o \in Nat /\ t \in Nat /\ e \in Nat /\ e = o + Len(u)
      /\ o <= z /\ t <= z /\ z < t + BlockSize /\ z < e
  <2>1. /\ o <= z /\ t <= z /\ z < t + BlockSize /\ z < e
    BY DEF Reached
  <2>3. BlockSize \in Nat /\ BlockSize > 0
    BY FileAssumption
  <2>4. Len(c) \in Nat /\ Len(u) \in Nat
    BY ByteLen
  <2>5. o \in Nat /\ e \in Nat
    BY <2>4
  <2>6. t \in Nat
    BY Borders
  <2> HIDE DEF t
  <2> QED
    BY <2>1, <2>3, <2>4, <2>5, <2>6
<1>1. /\ h \in Rounds /\ h.totalLength = z /\ h.updater = From(u, z - o) /\ h.reader = From(c, z)
      /\ h.data = Slice(w, t, z)
  BY DEF Reached
<1>2. w \in ByteSeq /\ Len(w) \in Nat /\ e <= Len(w)
  <2>1. w \in ByteSeq /\ Len(w) = IF o + Len(u) > Len(c) THEN o + Len(u) ELSE Len(c)
    BY NewBytes
  <2> QED
    BY <1>0, <2>1
<1>3. /\ y \in Nat /\ z < y /\ y <= t + BlockSize /\ y <= e /\ p \in Nat /\ p > 0 /\ z + p = y
      /\ y = e \/ y = t + BlockSize
  <2> HIDE DEF e, t
  <2> QED
    BY <1>0 DEF Least
<1> HIDE DEF e, t, w, y
<1>4. Len(h.data) = z - t /\ Len(h.updater) = e - z /\ z - o \in Nat
  <2>1. z <= Len(w) /\ z - o \in Nat /\ z - o <= Len(u) /\ Len(u) - (z - o) = e - z
    BY <1>0, <1>2
  <2>2. Len(Slice(w, t, z)) = z - t
    BY <1>0, <1>2, <2>1, SliceProperties
  <2>3. Len(From(u, z - o)) = Len(u) - (z - o)
    BY <1>0, <2>1, FromProperties
  <2> QED
    BY <1>1, <2>1, <2>2, <2>3
<1>5. Least(BlockSize - Len(h.data), Len(h.updater)) = p
  <2>1. BlockSize - (z - t) = (t + BlockSize) - z
    BY <1>0
  <2>2. Least((t + BlockSize) - z, e - z) = y - z
    BY <1>0 DEF Least, y
  <2> QED
    BY <1>4, <2>1, <2>2
<1> DEFINE part == Slice(h.updater, 0, p)
<1>6. part = Slice(w, z, y) /\ part \in ByteSeq /\ Len(part) = p
  <2>1. /\ (z - o) + p = y - o /\ y - o <= Len(u) /\ y - o \in Nat /\ (z - o) + p <= Len(u)
        /\ z <= y /\ y <= Len(w) /\ y - z = p /\ y <= o + Len(u)
    BY <1>0, <1>2, <1>3, <1>4
  <2>2. Slice(From(u, z - o), 0, p) = Slice(u, z - o, (z - o) + p)
    BY <1>3, <1>4, <2>1, FromProperties
  <2>3. Slice(w, z, y) = Slice(u, z - o, y - o)
    BY <1>0, <1>3, <2>1, NewSlices DEF w
  <2>4. Slice(w, z, y) \in ByteSeq /\ Len(Slice(w, z, y)) = y - z
    BY <1>2, <1>3, <2>1, SliceProperties
  <2> QED
    BY <1>1, <2>1, <2>2, <2>3, <2>4
<1>7. From(h.updater, p) = From(u, y - o)
  <2>1. p <= Len(From(u, z - o)) /\ (z - o) + p = y - o
    BY <1>0, <1>1, <1>3, <1>4
  <2>2. From(From(u, z - o), p) = From(u, (z - o) + p)
    BY <1>3, <1>4, <2>1, FromProperties
  <2> QED
    BY <1>1, <2>1, <2>2
<1>8. From(h.reader, Least(p, Len(h.reader))) = From(c, y)
  <2>1. /\ From(c, z) \in ByteSeq /\ Len(From(c, z)) = IF z <= Len(c) THEN Len(c) - z ELSE 0
        /\ Len(From(c, z)) \in Nat
    BY FromProperties, ByteLen
  <2> DEFINE q == Least(p, Len(From(c, z)))
  <2>2. q \in Nat /\ q <= Len(From(c, z)) /\ (q = p \/ (q < p /\ q = Len(From(c, z))))
    BY <1>3, <2>1 DEF Least
  <2> HIDE DEF q
  <2>3. From(From(c, z), q) = From(c, z + q)
    BY <2>2, FromProperties
  <2>4. CASE q = p
    BY <1>1, <1>3, <2>3, <2>4 DEF q
  <2>5. CASE q # p
    <3>1. z + q >= Len(c) /\ y >= Len(c) /\ z + q \in Nat
      BY <1>0, <1>3, <2>1, <2>2, <2>5
    <3>2. From(c, z + q) = <<>> /\ From(c, y) = <<>>
      BY <1>3, <3>1, FromProperties
    <3> QED
      BY <1>1, <2>3, <3>2 DEF q
  <2> QED
    BY <2>4, <2>5
<1>9. h.data \o part = Slice(w, t, y) /\ Slice(w, t, y) \in ByteSeq
  <2>1. t <= z /\ z <= y /\ y <= Len(w) /\ t <= y
    BY <1>0, <1>2, <1>3
  <2>2. Slice(w, t, z) \o Slice(w, z, y) = Slice(w, t, y)
    <3>1. t \in Nat /\ z \in Nat /\ y \in Nat /\ w \in ByteSeq
      BY <1>0, <1>2, <1>3
    <3> QED
      BY <2>1, <3>1, SliceConcat
  <2>3. Slice(w, t, y) \in ByteSeq
    BY <1>0, <1>2, <1>3, <2>1, SliceProperties
  <2> QED
    BY <1>1, <1>6, <2>2, <2>3
<1> HIDE DEF part, p
<1>10. /\ From(u, y - o) \in ByteSeq /\ From(c, y) \in ByteSeq
  <2>1. y - o \in Nat
    BY <1>0, <1>3
  <2> QED
    BY <1>3, <2>1, FromProperties
<1>11. g = [h EXCEPT !.data = Slice(w, t, y), !.updater = From(u, y - o), !.totalLength = y,
                     !.reader = From(c, y)]
  <2>1. FileOf(c).blockSize = BlockSize
    BY FileParts
  <2>2. h.totalLength >= o /\ h.totalLength < e /\ BlockSize - Len(h.data) > 0
    BY <1>0, <1>1, <1>4
  <2>3. h.totalLength + p = y
    BY <1>1, <1>3
  <2>4. g = [h EXCEPT !.data = h.data \o part, !.updater = From(h.updater, Len(part)),
                      !.totalLength = h.totalLength + Len(part),
                      !.reader = From(h.reader, Least(Len(part), Len(h.reader)))]
    BY <1>1, <1>5, <2>1, <2>2 DEF WritePart, part, Rounds
  <2> HIDE DEF g
  <2> QED
    BY <1>6, <1>7, <1>8, <1>9, <2>3, <2>4
<1> HIDE DEF g
<1>12. /\ g \in Rounds /\ g.totalLength = y /\ g.updater = From(u, y - o) /\ g.reader = From(c, y)
       /\ g.data = Slice(w, t, y) /\ g.i = h.i /\ g.blocks = h.blocks
  BY <1>1, <1>3, <1>9, <1>10, <1>11 DEF Rounds
<1>13. o <= y /\ t <= y
  BY <1>0, <1>3
<1>14. Reached(g, i, y, c, u, o)
  BY <1>3, <1>12, <1>13 DEF Reached, e, t, w
<1> QED
  BY <1>3, <1>12, <1>14 DEF g, y, e, t

LEMMA NoZeros ==
    ASSUME NEW s \in ByteSeq
    PROVE  s \o Zeros(0) = s
<1>1. Zeros(0) \in Seq(Nat) /\ Len(Zeros(0)) = 0
  BY DEF Zeros
<1>2. Zeros(0) = <<>>
  BY <1>1, EmptySeq
<1> QED
  BY <1>2, ConcatEmptySeq DEF ByteSeq

\* d is g with all of block i + 1 in data.
Completed(d, g, i, w) ==
    /\ d \in Rounds /\ d.data = Block(w, i + 1)
    /\ d.i = g.i /\ d.blocks = g.blocks /\ d.updater = g.updater

\* The old bytes behind the update fill the rest of the block, or end in it.
LEMMA TailCompletes ==
    ASSUME NEW c \in ByteSeq, NEW u \in ByteSeq, NEW o \in 0..Len(c), NEW i \in Nat,
           EndsWell(FileOf(c), o + Len(u)),
           NEW y \in Nat, y = Least(Border(i) + BlockSize, o + Len(u)), Border(i) < y,
           NEW g, Reached(g, i, y, c, u, o)
    PROVE  LET d == TailPart(g, FileOf(c), Len(c), FALSE)
           IN  Completed(d, g, i, New(c, u, o)) /\ (y < o + Len(u) => d = g)
<1> DEFINE t == Border(i)
           e == o + Len(u)
           w == New(c, u, o)
           L == Len(c)
           d == TailPart(g, FileOf(c), L, FALSE)
<1>0. /\ BlockSize \in Nat /\ BlockSize > 0 /\ L \in Nat /\ Len(u) \in Nat
      /\ o \in Nat /\ o <= L /\ t \in Nat /\ e \in Nat /\ o <= e
  <2>1. BlockSize \in Nat /\ BlockSize > 0
    BY FileAssumption
  <2>2. L \in Nat /\ Len(u) \in Nat
    BY ByteLen
  <2>3. o \in Nat /\ e \in Nat /\ o <= L /\ o <= e
    BY <2>2
  <2>4. t \in Nat
    BY Borders
  <2> HIDE DEF t, e, L
  <2> QED
    BY <2>1, <2>2, <2>3, <2>4
<1>1. /\ g \in Rounds /\ g.totalLength = y /\ g.updater = From(u, y - o) /\ g.reader = From(c, y)
      /\ g.data = Slice(w, t, y) /\ o <= y
  BY DEF Reached
<1>2. w \in ByteSeq /\ Len(w) = IF e > L THEN e ELSE L
  BY NewBytes
<1>3. /\ y <= t + BlockSize /\ y <= e /\ t < y
      /\ y = e \/ y = t + BlockSize
  <2> HIDE DEF e, t
  <2> QED
    BY <1>0 DEF Least, e, t
<1>4. Border(i + 1) = t + BlockSize /\ (i + 1) - 1 = i
  BY Borders
<1>5. Block(w, i + 1) = Slice(w, t, Least(t + BlockSize, Len(w)))
  BY <1>4 DEF Block
<1>6. FileOf(c).blockSize = BlockSize /\ FileOf(c).size = L
  BY FileParts
<1> HIDE DEF w, L
<1>7. Len(g.data) = y - t /\ g.data \in ByteSeq
  <2>1. t <= y /\ y <= Len(w)
    BY <1>0, <1>2, <1>3
  <2>2. Slice(w, t, y) \in ByteSeq /\ Len(Slice(w, t, y)) = y - t
    BY <1>0, <1>2, <2>1, SliceProperties
  <2> QED
    BY <1>1, <2>2
<1> HIDE DEF e, t
<1>8. CASE Len(g.data) # BlockSize /\ y < L
  <2>1. y = e /\ e < t + BlockSize
    BY <1>0, <1>3, <1>7, <1>8
  <2>2. Len(w) = L
    BY <1>0, <1>2, <1>8, <2>1
  <2> DEFINE room == (IF L < BlockSize THEN L ELSE BlockSize) - Len(g.data)
             j == Least(t + BlockSize, L)
             part == Slice(g.reader, 0, Least(room, Len(g.reader)))
  \* The update ends well: no byte is missing.
  <2>3. room = j - y /\ j \in Nat /\ y <= j /\ j <= L
    <3>1. \/ e >= L \/ L < BlockSize
          \/ e % BlockSize = 0
          \/ e \div BlockSize < L \div BlockSize
      BY <1>6 DEF EndsWell, e
    <3>2. CASE L < BlockSize
      <4>1. i = 0 /\ t = 0
        <5>1. ~(0 < i)
          <6>1. 0 < i => Border(0) + BlockSize <= Border(i) /\ Border(0) = 0
            BY Borders
          <6> QED
            BY <1>0, <1>3, <1>8, <2>1, <3>2, <6>1 DEF t
        <5>2. i = 0
          BY <5>1
        <5> QED
          BY <5>2, Borders DEF t
      <4> QED
        BY <1>0, <1>7, <1>8, <3>2, <4>1 DEF Least
    <3>3. ASSUME e % BlockSize = 0
          PROVE  FALSE
      <4> DEFINE q == e - t
      <4>1. q \in Nat /\ q < BlockSize /\ q > 0 /\ t + q = e
        BY <1>0, <1>3, <2>1
      <4> HIDE DEF q
      <4>2. (Border(i) + q) % BlockSize = q
        BY <4>1, BorderQuotient
      <4> QED
        BY <3>3, <4>1, <4>2 DEF t
    <3>4. ASSUME e \div BlockSize < L \div BlockSize, ~(L < BlockSize)
          PROVE  room = j - y /\ j \in Nat /\ y <= j /\ j <= L
      <4> DEFINE q == e - t
                 m == L \div BlockSize
      <4>1. q \in Nat /\ q < BlockSize /\ t + q = e
        BY <1>0, <1>3, <2>1
      <4> HIDE DEF q
      <4>2. (Border(i) + q) \div BlockSize = i
        BY <4>1, BorderQuotient
      <4>3. i < m
        BY <3>4, <4>1, <4>2 DEF t
      <4>4. m \in Nat /\ BlockSize * m <= L
        <5>1. BlockSize \in Nat \ {0}
          BY <1>0
        <5>2. /\ m \in Nat /\ L = BlockSize * m + (L % BlockSize)
              /\ (L % BlockSize) \in 0..(BlockSize - 1)
          BY <1>0, <5>1, Division
        <5> HIDE DEF m
        <5>3. BlockSize * m \in Nat
          BY <1>0, <5>2
        <5> QED
          BY <1>0, <5>2, <5>3
      <4> HIDE DEF m
      <4>5. Border(m) = BlockSize * m
        BY <1>0, <4>4 DEF Border
      <4>6. t + BlockSize <= L
        <5>1. Border(i) + BlockSize <= Border(m) /\ Border(m) \in Nat
          BY <4>3, <4>4, Borders
        <5> QED
          BY <1>0, <4>4, <4>5, <5>1 DEF t
      <4>7. j = t + BlockSize
        BY <1>0, <4>6 DEF Least
      <4>8. room = BlockSize - (y - t)
        BY <1>0, <1>7, <3>4
      <4> HIDE DEF room, j
      <4> QED
        BY <1>0, <1>3, <4>6, <4>7, <4>8
    <3>5. ~(e >= L)
      BY <1>0, <1>8, <2>1
    <3> QED
      BY <3>1, <3>2, <3>3, <3>4, <3>5
  <2>4. g.reader \in ByteSeq /\ Len(g.reader) = L - y
    <3>1. From(c, y) \in ByteSeq /\ Len(From(c, y)) = IF y <= L THEN L - y ELSE 0
      BY FromProperties DEF L
    <3>2. y <= L
      BY <1>0, <1>8
    <3> QED
      BY <1>1, <3>1, <3>2
  <2> HIDE DEF room, j
  <2>5. Least(room, Len(g.reader)) = room /\ room \in Nat /\ y + room = j
    <3>1. room \in Nat /\ y + room = j /\ room <= L - y /\ L - y \in Int
      BY <1>0, <2>3
    <3>2. Least(room, L - y) = room
      BY <3>1 DEF Least
    <3> QED
      BY <2>4, <3>1, <3>2
  <2>6. part = Slice(w, y, j) /\ part \in ByteSeq /\ Len(part) = room
    <3>1. y + room <= L
      BY <2>3, <2>5
    <3>2. Slice(From(c, y), 0, room) = Slice(c, y, y + room)
      BY <2>5, <3>1, FromProperties DEF L
    <3>3. Slice(w, y, j) = Slice(c, y, j)
      <4>1. o + Len(u) <= y /\ j <= Len(c) /\ y <= j
        BY <1>0, <2>1, <2>3 DEF e, L
      <4> QED
        BY <2>3, <4>1, NewSlices DEF w
    <3>4. Slice(w, y, j) \in ByteSeq /\ Len(Slice(w, y, j)) = j - y
      BY <1>2, <2>2, <2>3, SliceProperties
    <3> QED
      BY <1>1, <2>3, <2>5, <3>2, <3>3, <3>4
  <2>7. g.data \o part = Slice(w, t, j) /\ Slice(w, t, j) \in ByteSeq
    <3>1. t <= y /\ y <= j /\ j <= Len(w) /\ t <= j
      BY <1>0, <1>3, <2>2, <2>3
    <3>2. t \in Nat /\ j \in Nat /\ w \in ByteSeq
      BY <1>0, <1>2, <2>3
    <3>3. Slice(w, t, y) \o Slice(w, y, j) = Slice(w, t, j)
      BY SMTT(40), <3>1, <3>2, SliceConcat
    <3>4. Slice(w, t, j) \in ByteSeq
      BY <3>1, <3>2, SliceProperties
    <3> QED
      BY <1>1, <2>6, <3>3, <3>4
  <2>8. d = [g EXCEPT !.data = Slice(w, t, j), !.reader = From(g.reader, room), !.totalLength = j]
    <3>1. room = (IF L < BlockSize THEN L ELSE BlockSize) - Len(g.data)
      BY DEF room
    <3> HIDE DEF part
    <3>2. d = [g EXCEPT !.data = g.data \o part \o Zeros(room - Len(part)),
                        !.reader = From(g.reader, Len(part)),
                        !.totalLength = g.totalLength + Len(part)]
      BY <1>1, <1>6, <1>8, <3>1 DEF TailPart, Rounds, part
    <3>3. room - Len(part) = 0 /\ g.totalLength + Len(part) = j
      BY <1>1, <2>5, <2>6
    <3>4. (g.data \o part) \o Zeros(0) = Slice(w, t, j)
      BY <2>7, NoZeros
    <3> HIDE DEF d
    <3> QED
      BY <2>6, <3>2, <3>3, <3>4
  <2>9. From(g.reader, room) \in ByteSeq
    BY <2>4, <2>5, FromProperties
  <2> HIDE DEF d
  <2>10. /\ d \in Rounds /\ d.data = Slice(w, t, j) /\ d.i = g.i /\ d.blocks = g.blocks
         /\ d.updater = g.updater
    BY <1>1, <2>3, <2>7, <2>8, <2>9 DEF Rounds
  <2>11. Slice(w, t, j) = Block(w, i + 1)
    BY <1>5, <2>2 DEF j
  <2>12. ~(y < e)
    BY <1>0, <2>1
  <2> QED
    BY <2>10, <2>11, <2>12 DEF Completed, d, w, e, L
<1>9. CASE ~(Len(g.data) # BlockSize /\ y < L)
  <2>1. d = g
    BY <1>1, <1>6, <1>9 DEF TailPart
  <2>2. Least(t + BlockSize, Len(w)) = y
    <3>1. CASE y = t + BlockSize
      BY <1>0, <1>2, <1>3, <3>1 DEF Least
    <3>2. CASE y # t + BlockSize
      <4>1. y >= L /\ y = e
        BY SMTT(40), <1>0, <1>3, <1>7, <1>9, <3>2
      <4>2. Len(w) = y
        BY <1>0, <1>2, <4>1
      <4> QED
        BY <1>0, <1>3, <4>2 DEF Least
    <3> QED
      BY <3>1, <3>2
  <2>3. g.data = Block(w, i + 1)
    BY <1>1, <1>5, <2>2
  <2> HIDE DEF d
  <2> QED
    BY <1>1, <2>1, <2>3 DEF Completed, d, w, L
<1> QED
  BY <1>8, <1>9

\* What a round does with the blocks.
LEMMA BlockReplaced ==
    ASSUME NEW c \in ByteSeq, NEW w \in ByteSeq, NEW x \in Rounds, Placed(x, c, w),
           x.i < Count(Len(w)), NEW s \in Rounds, s.i = x.i + 1,
           s.blocks = IF x.i < Len(x.blocks) THEN [x.blocks EXCEPT ![x.i + 1] = Block(w, x.i + 1)]
                      ELSE Append(x.blocks, Block(w, x.i + 1))
    PROVE  Placed(s, c, w)
<1> DEFINE i == x.i
           bs == x.blocks
           b == Block(w, i + 1)
           N == Count(Len(c))
           M == Count(Len(w))
<1>0. i \in Nat /\ N \in Nat /\ M \in Nat /\ i < M /\ bs \in Seq(ByteSeq) /\ Len(bs) \in Nat
  <2>1. Len(c) \in Nat /\ Len(w) \in Nat
    BY ByteLen
  <2>2. N \in Nat /\ M \in Nat
    BY <2>1, Counting
  <2>3. i \in Nat /\ bs \in Seq(ByteSeq)
    BY DEF Rounds
  <2> QED
    BY <2>2, <2>3, LenProperties
<1>1. /\ i <= Len(bs) /\ N <= Len(bs) /\ (Len(bs) = i \/ Len(bs) = N)
      /\ \A k \in 1..i : bs[k] = Block(w, k)
      /\ \A k \in (i + 1)..Len(bs) : bs[k] = Block(c, k)
  BY DEF Placed
<1>2. i + 1 \in 1..M
  BY <1>0
<1>3. b \in ByteSeq
  BY <1>2, BlockProperties
<1> HIDE DEF b, N, M, i, bs
<1>4. CASE i < Len(bs)
  <2>1. s.blocks = [bs EXCEPT ![i + 1] = b] /\ i + 1 \in 1..Len(bs)
    BY <1>0, <1>4 DEF b, i, bs
  <2>2. /\ Len(s.blocks) = Len(bs)
        /\ \A k \in 1..Len(bs) : s.blocks[k] = IF k = i + 1 THEN b ELSE bs[k]
    <3>1. /\ Len([bs EXCEPT ![i + 1] = b]) = Len(bs)
          /\ \A k \in 1..Len(bs) : [bs EXCEPT ![i + 1] = b][k] = IF k = i + 1 THEN b ELSE bs[k]
      BY <1>0, <1>3, <2>1, ExceptSeq
    <3> QED
      BY <2>1, <3>1
  <2>3. s.i <= Len(s.blocks) /\ N <= Len(s.blocks) /\ Len(s.blocks) = N /\ s.i <= M
    BY <1>0, <1>1, <1>4, <2>2 DEF i
  <2>4. ASSUME NEW k \in 1..(i + 1)
        PROVE  s.blocks[k] = Block(w, k)
    <3>1. k \in 1..Len(bs) /\ (k # i + 1 => k \in 1..i)
      BY <1>0, <1>4
    <3>2. CASE k = i + 1
      BY <2>2, <3>1, <3>2 DEF b, i
    <3>3. CASE k # i + 1
      BY <1>1, <2>2, <3>1, <3>3
    <3> QED
      BY <3>2, <3>3
  <2>5. ASSUME NEW k \in ((i + 1) + 1)..Len(bs)
        PROVE  s.blocks[k] = Block(c, k)
    <3>1. k \in 1..Len(bs) /\ k # i + 1 /\ k \in (i + 1)..Len(bs)
      BY <1>0, <1>4
    <3> QED
      BY <1>1, <2>2, <3>1
  <2>6. s.i = i + 1
    BY DEF i
  <2> QED
    BY <2>2, <2>3, <2>4, <2>5, <2>6 DEF Placed, N, M
<1>5. CASE ~(i < Len(bs))
  <2>1. s.blocks = Append(bs, b) /\ Len(bs) = i
    BY <1>0, <1>1, <1>5 DEF b, i, bs
  <2>2. /\ Len(s.blocks) = i + 1 /\ s.blocks[i + 1] = b
        /\ \A k \in 1..i : s.blocks[k] = bs[k]
    <3>1. /\ Len(Append(bs, b)) = Len(bs) + 1 /\ Append(bs, b)[Len(bs) + 1] = b
          /\ \A k \in 1..Len(bs) : Append(bs, b)[k] = bs[k]
      BY <1>0, <1>3, AppendProperties
    <3> QED
      BY <2>1, <3>1
  <2>3. s.i = i + 1
    BY DEF i
  <2>4. s.i <= Len(s.blocks) /\ N <= Len(s.blocks) /\ Len(s.blocks) = s.i /\ s.i <= M
    BY <1>0, <1>1, <2>1, <2>2, <2>3
  <2>5. ASSUME NEW k \in 1..(i + 1)
        PROVE  s.blocks[k] = Block(w, k)
    <3>1. k # i + 1 => k \in 1..i
      BY <1>0
    <3>2. CASE k = i + 1
      BY <2>2, <3>2 DEF b, i
    <3>3. CASE k # i + 1
      BY <1>1, <2>2, <3>1, <3>3
    <3> QED
      BY <3>2, <3>3
  <2>6. ((i + 1) + 1)..(i + 1) = {}
    BY <1>0
  <2> QED
    BY <2>2, <2>3, <2>4, <2>5, <2>6 DEF Placed, N, M
<1> QED
  BY <1>4, <1>5

\* The length WriteAt computes before it starts.
NewSize(c, u, o) == IF o + Len(u) > Len(c) THEN o + Len(u) ELSE Len(c)

Round(x, c, u, o) ==
    WriteBlock(x, FileOf(c), o, o + Len(u), Len(c), NewSize(c, u, o), FALSE)

\* A round writes the next block, and some of the update.
LEMMA RoundWrites ==
    ASSUME NEW c \in ByteSeq, NEW u \in ByteSeq, NEW o \in 0..Len(c),
           EndsWell(FileOf(c), o + Len(u)),
           NEW x, Running(x, c, u, o), Placed(x, c, New(c, u, o))
    PROVE  LET s == Round(x, c, u, o)
           IN  /\ s \in Rounds /\ Placed(s, c, New(c, u, o))
               /\ Running(s, c, u, o) \/ Finished(s, u, o)
               /\ Len(s.updater) < Len(x.updater)
<1> DEFINE i == x.i
           t == Border(i)
           e == o + Len(u)
           w == New(c, u, o)
           h == HeadPart(x, o, o % BlockSize)
           z == IF t < o THEN o ELSE t
           g == WritePart(h, FileOf(c), o, e)
           y == Least(t + BlockSize, e)
           d == TailPart(g, FileOf(c), Len(c), FALSE)
           s == Round(x, c, u, o)
<1>0. /\ BlockSize \in Nat /\ BlockSize > 0 /\ Len(c) \in Nat /\ Len(u) \in Nat
      /\ o \in Nat /\ e \in Nat /\ i \in Nat /\ t \in Nat /\ x \in Rounds /\ z \in Nat
  <2>1. BlockSize \in Nat /\ BlockSize > 0
    BY FileAssumption
  <2>2. Len(c) \in Nat /\ Len(u) \in Nat
    BY ByteLen
  <2>3. o \in Nat /\ e \in Nat
    BY <2>2
  <2>4. x \in Rounds /\ i \in Nat
    BY DEF Running, Rounds
  <2>5. t \in Nat
    BY <2>4, Borders
  <2> HIDE DEF t, e, i
  <2> QED
    BY <2>1, <2>2, <2>3, <2>4, <2>5
<1>1. x.totalLength = t /\ t < e /\ u # <<>> /\ o < t + BlockSize
  BY DEF Running
<1>2. w \in ByteSeq /\ Len(w) = NewSize(c, u, o) /\ Len(w) \in Nat /\ e <= Len(w) /\ Len(c) <= Len(w)
  <2>1. w \in ByteSeq /\ Len(w) = IF e > Len(c) THEN e ELSE Len(c)
    BY NewBytes
  <2> HIDE DEF w
  <2>2. Len(w) \in Nat /\ e <= Len(w) /\ Len(c) <= Len(w)
    BY <1>0, <2>1
  <2> QED
    BY <2>1, <2>2 DEF NewSize
<1>3. /\ Reached(h, i, z, c, u, o) /\ z < t + BlockSize /\ z < e
      /\ h.i = i /\ h.blocks = x.blocks
  BY HeadReaches
<1> HIDE DEF h
<1>4. Reached(g, i, y, c, u, o) /\ z < y /\ g.i = i /\ g.blocks = x.blocks
  <2> HIDE DEF z
  <2> QED
    BY <1>0, <1>3, UpdateReaches
<1> HIDE DEF g
<1>5. /\ y \in Nat /\ t < y /\ y <= e /\ y <= t + BlockSize /\ (y = e \/ y = t + BlockSize)
      /\ t <= z /\ o <= z
  <2> HIDE DEF t, e, i
  <2> QED
    BY <1>0, <1>1 DEF Least
<1>6. /\ d \in Rounds /\ d.data = Block(w, i + 1)
      /\ d.i = i /\ d.blocks = x.blocks /\ d.updater = g.updater
      /\ y < e => d = g
  <2>1. y = Least(Border(i) + BlockSize, o + Len(u)) /\ Border(i) < y
    BY <1>5
  <2> HIDE DEF y
  <2>2. /\ d \in Rounds /\ d.data = Block(New(c, u, o), i + 1)
        /\ d.i = g.i /\ d.blocks = g.blocks /\ d.updater = g.updater
        /\ y < o + Len(u) => d = g
    <3>1. i \in Nat /\ y \in Nat /\ Reached(g, i, y, c, u, o)
      BY <1>0, <1>4, <1>5 DEF y
    <3> HIDE DEF i, d
    <3>2. /\ Completed(TailPart(g, FileOf(c), Len(c), FALSE), g, i, New(c, u, o))
          /\ y < o + Len(u) => TailPart(g, FileOf(c), Len(c), FALSE) = g
      BY <2>1, <3>1, TailCompletes
    <3> QED
      BY <3>2 DEF Completed, d
  <2> QED
    BY <1>4, <2>2
<1> HIDE DEF d
<1>7. x.updater # <<>> /\ x.updater \in ByteSeq /\ Len(x.updater) = e - z
  <2>1. x.updater = From(u, z - o)
    <3>1. CASE t <= o
      <4>1. z - o = 0 /\ 0 \in 0..Len(u)
        BY <1>0, <3>1
      <4>2. x.updater = u
        <5>1. ~(t > o)
          BY <1>0, <3>1
        <5> QED
          BY <5>1 DEF Running
      <4> QED
        BY <4>1, <4>2, SliceAll
    <3>2. CASE ~(t <= o)
      <4>1. z = t
        BY <1>0, <3>2
      <4> QED
        BY <3>2, <4>1 DEF Running
    <3> QED
      BY <3>1, <3>2
  <2> HIDE DEF z
  <2>2. z - o \in Nat /\ z - o <= Len(u) /\ Len(u) - (z - o) = e - z /\ e - z > 0
    BY <1>0, <1>3, <1>5
  <2>3. From(u, z - o) \in ByteSeq /\ Len(From(u, z - o)) = Len(u) - (z - o)
    BY <2>2, FromProperties
  <2> HIDE DEF e
  <2>4. Len(x.updater) # 0
    BY <2>1, <2>2, <2>3
  <2> QED
    BY <2>1, <2>2, <2>3, <2>4, ByteLen
<1>8. s = [d EXCEPT !.blocks = IF i < Len(x.blocks) THEN [x.blocks EXCEPT ![i + 1] = Block(w, i + 1)]
                               ELSE Append(x.blocks, Block(w, i + 1)),
                    !.i = i + 1]
  <2>1. FileOf(c).blockSize = BlockSize
    BY FileParts
  <2>2. x.totalLength < NewSize(c, u, o)
    BY <1>0, <1>1, <1>2
  <2>3. s = [d EXCEPT !.blocks = IF x.i < Len(d.blocks) THEN [d.blocks EXCEPT ![x.i + 1] = d.data]
                                 ELSE Append(d.blocks, d.data),
                      !.i = d.i + 1]
    BY <1>7, <2>1, <2>2 DEF Round, WriteBlock, h, g, d
  <2> QED
    BY <1>6, <2>3
<1>9. i < Count(Len(w)) /\ Block(w, i + 1) \in ByteSeq
  <2>1. t < Len(w)
    BY <1>0, <1>1, <1>2
  <2>2. i < Count(Len(w)) /\ Count(Len(w)) \in Nat
    BY <1>0, <1>2, <2>1, Counting
  <2>3. i + 1 \in 1..Count(Len(w))
    BY <1>0, <2>2
  <2> QED
    BY <1>2, <2>2, <2>3, BlockProperties
<1> HIDE DEF w
<1>10. /\ (IF i < Len(x.blocks) THEN [x.blocks EXCEPT ![i + 1] = Block(w, i + 1)]
           ELSE Append(x.blocks, Block(w, i + 1))) \in Seq(ByteSeq)
  <2>1. x.blocks \in Seq(ByteSeq) /\ Len(x.blocks) \in Nat
    BY <1>0, LenProperties DEF Rounds
  <2>2. CASE i < Len(x.blocks)
    <3>1. i + 1 \in 1..Len(x.blocks)
      BY <1>0, <2>1, <2>2
    <3> QED
      BY <1>9, <2>1, <2>2, <3>1, ExceptSeq
  <2>3. CASE ~(i < Len(x.blocks))
    BY <1>9, <2>1, <2>3, AppendProperties
  <2> QED
    BY <2>2, <2>3
<1> DEFINE bs == IF i < Len(x.blocks) THEN [x.blocks EXCEPT ![i + 1] = Block(w, i + 1)]
                 ELSE Append(x.blocks, Block(w, i + 1))
<1>11. /\ s \in Rounds /\ s.i = i + 1 /\ s.updater = d.updater /\ s.totalLength = d.totalLength
       /\ s.reader = d.reader /\ s.blocks = bs
  <2>1. s = [d EXCEPT !.blocks = bs, !.i = i + 1] /\ bs \in Seq(ByteSeq)
    BY <1>8, <1>10
  <2> HIDE DEF bs, s
  <2>2. i + 1 \in Nat
    BY <1>0
  <2> QED
    BY <1>6, <2>1, <2>2 DEF Rounds
<1>12. Placed(s, c, w)
  <2> HIDE DEF s
  <2>1. Placed(x, c, w)
    BY DEF w
  <2> QED
    BY <1>0, <1>2, <1>9, <1>11, <2>1, BlockReplaced
<1>13. Border(s.i) = t + BlockSize
  <2> HIDE DEF s
  <2> QED
    BY <1>0, <1>11, Borders
<1>14. d.updater = From(u, y - o)
  BY <1>4, <1>6 DEF Reached
<1> HIDE DEF s, bs
<1>15. y - o \in Nat /\ y - o <= Len(u) /\ Len(u) - (y - o) = e - y
  <2> HIDE DEF y, z, t
  <2>1. y \in Nat /\ y <= e /\ z \in Nat /\ z < y /\ o <= z
    BY <1>0, <1>4, <1>5
  <2>2. o \in Nat /\ Len(u) \in Nat
    BY <1>0
  <2> QED
    BY <2>1, <2>2
<1>16. Len(s.updater) = e - y /\ s.updater \in ByteSeq
  BY <1>11, <1>14, <1>15, FromProperties
<1>17. Len(s.updater) < Len(x.updater)
  <2> HIDE DEF y, z, t, e
  <2> QED
    BY <1>0, <1>4, <1>5, <1>7, <1>16
<1>18. CASE y < e
  <2>1. d = g /\ y = t + BlockSize
    BY <1>5, <1>6, <1>18
  <2>2. d.totalLength = y /\ d.reader = From(c, y)
    BY <1>4, <2>1 DEF Reached
  <2> HIDE DEF y, z, t
  <2>3. /\ s.totalLength = Border(s.i) /\ s.reader = From(c, Border(s.i))
        /\ s.updater = From(u, Border(s.i) - o)
    BY <1>11, <1>13, <1>14, <2>1, <2>2
  <2>4. Border(s.i) < o + Len(u) /\ o < Border(s.i) + BlockSize /\ Border(s.i) > o
    BY <1>0, <1>1, <1>13, <1>18, <2>1
  <2>5. Running(s, c, u, o)
    BY <1>1, <1>11, <2>3, <2>4 DEF Running
  <2> QED
    BY <1>11, <1>12, <1>17, <2>5 DEF s, w
<1>19. CASE ~(y < e)
  <2>1. y = e
    BY <1>0, <1>5, <1>19
  <2>2. s.updater = <<>>
    <3>1. Len(s.updater) = 0
      BY <1>0, <1>16, <2>1
    <3> QED
      BY <1>16, <3>1, ByteLen
  <2>3. o + Len(u) <= Border(s.i)
    BY <1>5, <1>13, <2>1
  <2>4. Finished(s, u, o)
    BY <2>2, <2>3 DEF Finished
  <2> QED
    BY <1>11, <1>12, <1>17, <2>4 DEF s, w
<1> QED
  BY <1>18, <1>19

LEMMA FinishedIsNew ==
    ASSUME NEW c \in ByteSeq, NEW u \in ByteSeq, NEW o \in 0..Len(c),
           NEW x \in Rounds, Placed(x, c, New(c, u, o)), Finished(x, u, o)
    PROVE  x.blocks = Split(New(c, u, o), BlockSize)
<1> DEFINE i == x.i
           bs == x.blocks
           w == New(c, u, o)
           e == o + Len(u)
           L == Len(c)
           N == Count(L)
           M == Count(Len(w))
<1>0. /\ L \in Nat /\ e \in Nat /\ o \in Nat /\ o <= e /\ i \in Nat /\ bs \in Seq(ByteSeq)
      /\ Len(bs) \in Nat
  <2>1. Len(c) \in Nat /\ Len(u) \in Nat
    BY ByteLen
  <2>2. i \in Nat /\ bs \in Seq(ByteSeq)
    BY DEF Rounds
  <2>3. o \in Nat /\ e \in Nat /\ o <= e
    BY <2>1
  <2> QED
    BY <2>1, <2>2, <2>3, LenProperties
<1>1. w \in ByteSeq /\ Len(w) = (IF e > L THEN e ELSE L)
  BY NewBytes
<1>2. e <= Border(i)
  BY DEF Finished
<1>3. /\ i <= Len(bs) /\ N <= Len(bs) /\ (Len(bs) = i \/ Len(bs) = N) /\ i <= M
      /\ \A k \in 1..i : bs[k] = Block(w, k)
      /\ \A k \in (i + 1)..Len(bs) : bs[k] = Block(c, k)
  BY DEF Placed
<1> HIDE DEF w, e, L
<1>4. N \in Nat /\ M \in Nat /\ Len(w) \in Nat /\ L <= Len(w)
  <2>1. Len(w) \in Nat /\ L <= Len(w)
    BY <1>0, <1>1
  <2> QED
    BY <1>0, <2>1, Counting
<1>5. N <= M
  <2>1. CASE N = 0
    BY <1>4, <2>1
  <2>2. CASE N # 0
    <3>1. N - 1 \in Nat /\ N > 0
      BY <1>4, <2>2
    <3>2. Border(N - 1) < L /\ Border(N - 1) \in Nat
      BY <1>0, <3>1, Counting, Borders
    <3>3. Border(N - 1) < Len(w)
      BY <1>0, <1>4, <3>2
    <3>4. N - 1 < M
      BY <1>4, <3>1, <3>3, Counting
    <3> QED
      BY <1>4, <3>4
  <2> QED
    BY <2>1, <2>2
<1>6. ASSUME i < M
      PROVE  e <= L /\ Len(w) = L
  <2>1. Border(i) < Len(w) /\ Border(i) \in Nat
    BY <1>0, <1>4, <1>6, Counting, Borders
  <2> QED
    BY <1>0, <1>1, <1>2, <2>1
<1> HIDE DEF i, bs
<1>7. Len(bs) = M
  <2>1. CASE i < M
    <3>1. M = N
      BY <1>6, <2>1 DEF M, N
    <3> HIDE DEF M, N
    <3> QED
      BY <1>0, <1>3, <1>4, <2>1, <3>1
  <2>2. CASE ~(i < M)
    <3> HIDE DEF M, N
    <3> QED
      BY <1>0, <1>3, <1>4, <1>5, <2>2
  <2> QED
    BY <2>1, <2>2
<1>8. ASSUME NEW k \in 1..M
      PROVE  bs[k] = Block(w, k)
  <2>1. CASE k <= i
    <3>1. k \in 1..i
      BY <1>0, <1>4, <2>1
    <3> QED
      BY <1>3, <3>1
  <2>2. CASE ~(k <= i)
    <3>1. k \in (i + 1)..Len(bs) /\ i < M /\ i <= k - 1 /\ k - 1 \in Nat
      BY <1>0, <1>4, <1>7, <2>2
    <3>2. e <= L /\ Len(w) = L
      BY <1>6, <3>1
    <3>3. k \in 1..Count(Len(c))
      BY <3>2 DEF L
    <3>4. /\ Border(k - 1) \in Nat /\ Least(Border(k), L) \in Nat
          /\ Border(k - 1) < Least(Border(k), L) /\ Least(Border(k), L) <= L
      BY <3>3, BlockProperties DEF L
    <3>5. e <= Border(k - 1)
      <4>1. Border(i) <= Border(k - 1) /\ Border(i) \in Nat
        BY <1>0, <3>1, Borders
      <4> QED
        BY <1>0, <1>2, <3>4, <4>1
    <3> DEFINE a == Border(k - 1)
               b == Least(Border(k), L)
    <3>6. Slice(w, a, b) = Slice(c, a, b)
      <4>1. a \in Nat /\ b \in Nat /\ a <= b /\ o + Len(u) <= a /\ b <= Len(c)
        BY <3>4, <3>5 DEF e, L
      <4> HIDE DEF a, b
      <4> QED
        BY <4>1, NewSlices DEF w
    <3>7. Block(w, k) = Block(c, k)
      BY <3>2, <3>6 DEF Block, L
    <3> QED
      BY <1>3, <3>1, <3>7
  <2> QED
    BY <2>1, <2>2
<1>9. bs = Split(w, BlockSize)
  BY <1>0, <1>1, <1>7, <1>8, SplitIs
<1> QED
  BY <1>9 DEF bs, w

\* The state before the first round.
First(c, u, o) ==
    LET t == (o \div BlockSize) * BlockSize
    IN  [reader |-> From(c, t), updater |-> u, data |-> <<>>, totalLength |-> t,
         i |-> o \div BlockSize, blocks |-> Split(c, BlockSize)]

LEMMA FirstRuns ==
    ASSUME NEW c \in ByteSeq, NEW u \in ByteSeq, NEW o \in 0..Len(c), u # <<>>
    PROVE  /\ Running(First(c, u, o), c, u, o)
           /\ Placed(First(c, u, o), c, New(c, u, o))
<1> DEFINE i == o \div BlockSize
           t == Border(i)
           x == First(c, u, o)
           w == New(c, u, o)
           N == Count(Len(c))
           M == Count(Len(w))
<1>0. /\ BlockSize \in Nat \ {0} /\ Len(c) \in Nat /\ Len(u) \in Nat /\ Len(u) > 0
      /\ o \in Nat /\ o <= Len(c)
  <2>1. Len(c) \in Nat /\ Len(u) \in Nat /\ Len(u) # 0
    BY ByteLen
  <2> QED
    BY <2>1, FileAssumption
<1>1. i \in Nat /\ t \in Nat /\ t <= o /\ o < t + BlockSize
  <2> DEFINE d == o % BlockSize
  <2>1. i \in Nat /\ o = BlockSize * i + d /\ d \in 0..(BlockSize - 1)
    BY <1>0, Division
  <2> HIDE DEF i, d
  <2>2. BlockSize * i = Border(i) /\ Border(i) \in Nat
    BY <1>0, <2>1, Borders DEF Border
  <2> QED
    BY <1>0, <2>1, <2>2
<1>2. x = [reader |-> From(c, t), updater |-> u, data |-> <<>>, totalLength |-> t,
           i |-> i, blocks |-> Split(c, BlockSize)]
  BY DEF First, Border
<1>3. From(c, t) \in ByteSeq /\ <<>> \in ByteSeq /\ Split(c, BlockSize) \in Seq(ByteSeq)
  BY <1>1, FromProperties, EmptySeq, SplitProperties DEF ByteSeq
<1> HIDE DEF i, t, x
<1>4. x \in Rounds
  BY <1>1, <1>2, <1>3 DEF Rounds
<1>5. x.i = i /\ x.totalLength = t /\ x.reader = From(c, t) /\ x.updater = u
      /\ x.blocks = Split(c, BlockSize)
  BY <1>2
<1>6. t < o + Len(u)
  BY <1>0, <1>1
<1>7. Running(x, c, u, o)
  BY <1>1, <1>4, <1>5, <1>6 DEF Running, t
<1>8. /\ w \in ByteSeq /\ Len(w) \in Nat /\ o <= Len(w) /\ Len(c) <= Len(w)
  <2>1. w \in ByteSeq /\ Len(w) = IF o + Len(u) > Len(c) THEN o + Len(u) ELSE Len(c)
    BY NewBytes
  <2> HIDE DEF w
  <2> QED
    BY <1>0, <2>1
<1>9. N \in Nat /\ M \in Nat /\ Len(c) <= Border(N) /\ Border(N) \in Nat
      /\ Len(w) <= Border(M) /\ Border(M) \in Nat
  BY <1>0, <1>8, Counting, Borders
<1>10. /\ Len(Split(c, BlockSize)) = N
       /\ \A k \in 1..N : Split(c, BlockSize)[k] = Block(c, k)
  BY SplitProperties
<1> HIDE DEF w, N, M
<1>11. i <= N
  <2>1. ASSUME N < i PROVE FALSE
    <3>1. Border(N) + BlockSize <= Border(i)
      BY <1>1, <1>9, <2>1, Borders
    <3> QED
      BY <1>0, <1>1, <1>9, <3>1 DEF t
  <2> QED
    BY <1>1, <1>9, <2>1
<1>12. i <= M
  <2>1. ASSUME M < i PROVE FALSE
    <3>1. Border(M) + BlockSize <= Border(i)
      BY <1>1, <1>9, <2>1, Borders
    <3> QED
      BY <1>0, <1>1, <1>8, <1>9, <3>1 DEF t
  <2> QED
    BY <1>1, <1>9, <2>1
<1>13. ASSUME NEW k \in 1..i
       PROVE  Block(c, k) = Block(w, k)
  <2>1. k \in 1..N /\ k \in Nat /\ k <= i
    BY <1>1, <1>9, <1>11
  <2>2. Border(k) <= t /\ Border(k) \in Nat
    BY <1>1, <2>1, Borders DEF t
  <2>3. Border(k) <= o /\ Border(k) <= Len(c) /\ Border(k) <= Len(w)
    BY <1>0, <1>1, <1>8, <2>2
  <2>4. Least(Border(k), Len(c)) = Border(k) /\ Least(Border(k), Len(w)) = Border(k)
    BY <1>0, <1>8, <2>2, <2>3 DEF Least
  <2>5. Border(k - 1) \in Nat /\ Border(k) = Border(k - 1) + BlockSize
    BY <2>1, BlockProperties DEF N
  <2>6. Border(k - 1) <= Border(k)
    BY <1>0, <2>5
  <2>7. Slice(w, Border(k - 1), Border(k)) = Slice(c, Border(k - 1), Border(k))
    BY <2>2, <2>3, <2>5, <2>6, NewSlices DEF w
  <2> QED
    BY <2>4, <2>7 DEF Block
<1>14. \A k \in 1..i : k \in 1..N
  BY <1>1, <1>9, <1>11
<1>15. \A k \in (i + 1)..N : k \in 1..N
  BY <1>1, <1>9
<1>16. Placed(x, c, w)
  <2>1. x.i <= Len(x.blocks) /\ Len(x.blocks) = N /\ N <= N /\ x.i <= M
    BY <1>5, <1>9, <1>10, <1>11, <1>12
  <2>2. \A k \in 1..x.i : x.blocks[k] = Block(w, k)
    BY <1>5, <1>10, <1>13, <1>14
  <2>3. \A k \in (x.i + 1)..Len(x.blocks) : x.blocks[k] = Block(c, k)
    BY <1>5, <1>10, <1>15, <2>1
  <2> QED
    BY <2>1, <2>2, <2>3 DEF Placed, N, M
<1> QED
  BY <1>7, <1>16 DEF x, w

\* An inode with other blocks.
WithBlocks(f, bs, n) == [f EXCEPT !.blocks = bs, !.size = n]

\* The loop of WriteAt, with the old data read.
Rewrites(old, f, u, o) ==
    CHOOSE g : g = [n \in 0..Len(u) |->
        IF n = 0
        THEN [reader |-> From(old, (o \div f.blockSize) * f.blockSize), updater |-> u,
              data |-> <<>>, totalLength |-> (o \div f.blockSize) * f.blockSize,
              i |-> o \div f.blockSize, blocks |-> f.blocks]
        ELSE WriteBlock(g[n - 1], f, o, o + Len(u), Len(old), NewSize(old, u, o), FALSE)]

Rewritten(old, f, u, o) ==
    WithBlocks(f, Slice(Rewrites(old, f, u, o)[Len(u)].blocks, 0,
                        Len(Rewrites(old, f, u, o)[Len(u)].blocks)),
               NewSize(old, u, o))

LEMMA WriteAtIsRewritten ==
    ASSUME NEW f, NEW u, NEW o
    PROVE  WriteAt(f, u, o, FALSE) = Rewritten(ReadAll(f), f, u, o)
BY DEF WriteAt, Rewritten, Rewrites, NewSize, WithBlocks

\* Between two rounds.
Loop(c, u, o) ==
    {x \in Rounds : Placed(x, c, New(c, u, o)) /\ (Running(x, c, u, o) \/ Finished(x, u, o))}

LEMMA RoundKeepsLoop ==
    ASSUME NEW c \in ByteSeq, NEW u \in ByteSeq, NEW o \in 0..Len(c),
           EndsWell(FileOf(c), o + Len(u)),
           NEW x \in Loop(c, u, o)
    PROVE  /\ Round(x, c, u, o) \in Loop(c, u, o)
           /\ x.updater = <<>> \/ Len(Round(x, c, u, o).updater) < Len(x.updater)
           /\ x.updater = <<>> => Round(x, c, u, o).updater = <<>>
<1>1. x \in Rounds /\ Placed(x, c, New(c, u, o))
  BY DEF Loop
<1>2. CASE Running(x, c, u, o)
  <2>1. /\ Round(x, c, u, o) \in Rounds /\ Placed(Round(x, c, u, o), c, New(c, u, o))
        /\ Running(Round(x, c, u, o), c, u, o) \/ Finished(Round(x, c, u, o), u, o)
        /\ Len(Round(x, c, u, o).updater) < Len(x.updater)
    BY <1>1, <1>2, RoundWrites
  <2>2. x.updater # <<>>
    <3>1. Round(x, c, u, o).updater \in ByteSeq /\ x.updater \in ByteSeq
      BY <1>1, <2>1 DEF Rounds
    <3>2. Len(Round(x, c, u, o).updater) \in Nat /\ Len(x.updater) \in Nat
      BY <3>1, ByteLen
    <3>3. Len(x.updater) # 0
      BY <2>1, <3>2
    <3> QED
      BY <3>1, <3>3, ByteLen
  <2> QED
    BY <2>1, <2>2 DEF Loop
<1>3. CASE Finished(x, u, o)
  <2>1. x.updater = <<>>
    BY <1>3 DEF Finished
  <2>2. Round(x, c, u, o) = x
    BY <2>1 DEF Round, WriteBlock
  <2> QED
    BY <2>1, <2>2
<1> QED
  BY <1>2, <1>3 DEF Loop

\* After as many rounds as the update has bytes it is all written.
LEMMA LoopWrites ==
    ASSUME NEW c \in ByteSeq, NEW u \in ByteSeq, NEW o \in 0..Len(c), u # <<>>,
           EndsWell(FileOf(c), o + Len(u))
    PROVE  Rewrites(c, FileOf(c), u, o)[Len(u)].blocks = Split(New(c, u, o), BlockSize)
<1> DEFINE f == FileOf(c)
           n == Len(u)
           V == Loop(c, u, o)
           first == First(c, u, o)
           Step == [x \in V |-> Round(x, c, u, o)]
           g == Rewrites(c, f, u, o)
<1>0. n \in Nat
  BY ByteLen
<1>1. first \in V
  <2>1. Running(first, c, u, o) /\ Placed(first, c, New(c, u, o))
    BY FirstRuns
  <2>2. first \in Rounds
    BY <2>1 DEF Running
  <2> QED
    BY <2>1, <2>2 DEF Loop
<1>2. Step \in [V -> V]
  BY RoundKeepsLoop
<1>3. first.updater = u
  BY DEF First
<1> HIDE DEF n, V, first
<1>4. PICK h \in [0..n -> V] : IsLoop(h, n, first, Step)
  <2> HIDE DEF Step
  <2> QED
    BY <1>0, <1>1, <1>2, LoopExists
<1>5. h = [i \in 0..n |-> IF i = 0 THEN first ELSE Round(h[i - 1], c, u, o)]
  <2>1. ASSUME NEW i \in 0..n, i # 0
        PROVE  Step[h[i - 1]] = Round(h[i - 1], c, u, o)
    <3>1. i - 1 \in 0..n
      BY <1>0, <2>1
    <3> QED
      BY <3>1
  <2> HIDE DEF Step
  <2> QED
    BY <1>4, <2>1 DEF IsLoop
<1>6. g = [i \in 0..n |-> IF i = 0 THEN first ELSE Round(g[i - 1], c, u, o)]
  <2>1. /\ first = [reader |-> From(c, (o \div f.blockSize) * f.blockSize), updater |-> u,
                    data |-> <<>>, totalLength |-> (o \div f.blockSize) * f.blockSize,
                    i |-> o \div f.blockSize, blocks |-> f.blocks]
    BY DEF first, First, FileOf
  <2> DEFINE After(x) == WriteBlock(x, f, o, o + Len(u), Len(c), NewSize(c, u, o), FALSE)
  <2>2. ASSUME NEW x
        PROVE  Round(x, c, u, o) = After(x)
    BY DEF Round
  <2>3. g = CHOOSE k : k = [i \in 0..n |-> IF i = 0 THEN first ELSE After(k[i - 1])]
    BY <2>1 DEF Rewrites, n
  <2> HIDE DEF After, f, g
  <2>4. h = [i \in 0..n |-> IF i = 0 THEN first ELSE After(h[i - 1])]
    BY <1>5, <2>2
  <2>5. g = [i \in 0..n |-> IF i = 0 THEN first ELSE After(g[i - 1])]
    BY <2>3, <2>4
  <2> QED
    BY <2>2, <2>5
<1> HIDE DEF g
<1> DEFINE T == {i \in 0..n : /\ g[i] \in V
                              /\ g[i].updater = <<>> \/ Len(g[i].updater) + i <= n}
<1>7. 0 \in T
  <2>1. 0 \in 0..n
    BY <1>0
  <2>2. g[0] = first
    BY <1>6, <2>1
  <2>3. Len(u) + 0 <= n
    BY <1>0 DEF n
  <2> QED
    BY <1>1, <1>3, <2>1, <2>2, <2>3
<1>8. ASSUME NEW i \in 1..n, i - 1 \in T
      PROVE  i \in T
  <2>1. i \in 0..n /\ i # 0 /\ i - 1 \in Nat
    BY <1>0
  <2> DEFINE x == g[i - 1]
             y == Round(x, c, u, o)
  <2>2. g[i] = y
    BY <1>6, <2>1
  <2>3. x \in V /\ (x.updater = <<>> \/ Len(x.updater) + (i - 1) <= n)
    BY <1>8
  <2> HIDE DEF x, y, T
  <2>4. /\ y \in V
        /\ x.updater = <<>> \/ Len(y.updater) < Len(x.updater)
        /\ x.updater = <<>> => y.updater = <<>>
    BY <2>3, RoundKeepsLoop DEF y, V
  <2>5. Len(x.updater) \in Nat /\ Len(y.updater) \in Nat
    <3>1. x.updater \in ByteSeq /\ y.updater \in ByteSeq
      BY <2>3, <2>4 DEF V, Loop, Rounds
    <3> QED
      BY <3>1, ByteLen
  <2>6. y.updater = <<>> \/ Len(y.updater) + i <= n
    <3>1. CASE x.updater = <<>>
      BY <2>4, <3>1
    <3>2. CASE x.updater # <<>>
      <4>1. Len(y.updater) < Len(x.updater) /\ Len(x.updater) + (i - 1) <= n
        BY <2>3, <2>4, <3>2
      <4> QED
        BY <1>0, <2>1, <2>5, <4>1
    <3> QED
      BY <3>1, <3>2
  <2> QED
    BY <2>1, <2>2, <2>4, <2>6 DEF T
<1>9. n \in T
  <2> HIDE DEF T
  <2>1. \A i \in 0..n : i \in T
    BY <1>0, <1>7, <1>8, LoopInduction
  <2>2. n \in 0..n
    BY <1>0
  <2> QED
    BY <2>1, <2>2
<1> DEFINE x == g[n]
<1>10. x \in V /\ (x.updater = <<>> \/ Len(x.updater) + n <= n)
  BY <1>9
<1> HIDE DEF x, T
<1>11. x \in Rounds /\ Placed(x, c, New(c, u, o)) /\ (Running(x, c, u, o) \/ Finished(x, u, o))
  BY <1>10 DEF V, Loop
<1>12. x.updater = <<>>
  <2>1. x.updater \in ByteSeq
    BY <1>11 DEF Rounds
  <2>2. Len(x.updater) \in Nat /\ (x.updater = <<>> <=> Len(x.updater) = 0)
    BY <2>1, ByteLen
  <2> QED
    BY <1>0, <1>10, <2>2
<1>13. Finished(x, u, o)
  <2>1. ASSUME Running(x, c, u, o)
        PROVE  FALSE
    <3>1. Len(Round(x, c, u, o).updater) < Len(x.updater) /\ Round(x, c, u, o) \in Rounds
      BY <1>11, <2>1, RoundWrites
    <3>2. x.updater \in ByteSeq /\ Round(x, c, u, o).updater \in ByteSeq
      BY <1>11, <3>1 DEF Rounds
    <3>3. Len(x.updater) = 0 /\ Len(Round(x, c, u, o).updater) \in Nat
      BY <1>12, <3>2, ByteLen
    <3> QED
      BY <3>1, <3>3
  <2> QED
    BY <1>11, <2>1
<1>14. x.blocks = Split(New(c, u, o), BlockSize)
  BY <1>11, <1>13, FinishedIsNew
<1> QED
  BY <1>14 DEF x, g, f, n

LEMMA InodeReplaced ==
    ASSUME NEW a, NEW k, NEW m, NEW b, NEW n,
           NEW f, f = [blocks |-> a, blockSize |-> k, size |-> m]
    PROVE  WithBlocks(f, b, n) = [blocks |-> b, blockSize |-> k, size |-> n]
<1> DEFINE g == WithBlocks(f, b, n)
<1>1. f \in [blocks : {a}, blockSize : {k}, size : {m}]
  OBVIOUS
<1>2. g \in [blocks : {b}, blockSize : {k}, size : {n}]
  BY <1>1 DEF WithBlocks
<1> HIDE DEF g
<1>3. g = [blocks |-> b, blockSize |-> k, size |-> n]
  BY <1>2
<1> QED
  BY <1>3 DEF g

\* WriteAt puts the update into the content, and nothing else.
LEMMA WriteAtWrites ==
    ASSUME NEW c \in ByteSeq, NEW u \in ByteSeq, NEW o \in 0..Len(c),
           EndsWell(FileOf(c), o + Len(u))
    PROVE  WriteAt(FileOf(c), u, o, FALSE) = FileOf(New(c, u, o))
<1> DEFINE f == FileOf(c)
           w == New(c, u, o)
           bs == Rewrites(c, f, u, o)[Len(u)].blocks
<1>0. Len(c) \in Nat /\ Len(u) \in Nat /\ o \in Nat /\ o <= Len(c)
  BY ByteLen
<1>1. w \in ByteSeq /\ Len(w) = NewSize(c, u, o)
  BY NewBytes DEF NewSize
<1>2. bs = Split(w, BlockSize)
  <2>1. CASE u # <<>>
    BY <2>1, LoopWrites
  <2>2. CASE u = <<>>
    <3>1. Len(u) = 0
      BY <2>2, ByteLen
    <3> DEFINE g == Rewrites(c, f, u, o)
               x == [reader |-> From(c, (o \div f.blockSize) * f.blockSize), updater |-> u,
                     data |-> <<>>, totalLength |-> (o \div f.blockSize) * f.blockSize,
                     i |-> o \div f.blockSize, blocks |-> f.blocks]
               h == [n \in 0..0 |-> x]
    <3>2. g = CHOOSE k : k = [n \in 0..0 |->
              IF n = 0 THEN x
              ELSE WriteBlock(k[n - 1], f, o, o + 0, Len(c), NewSize(c, u, o), FALSE)]
      BY <3>1 DEF Rewrites
    <3> HIDE DEF g, x
    <3>3. h = [n \in 0..0 |->
              IF n = 0 THEN x
              ELSE WriteBlock(h[n - 1], f, o, o + 0, Len(c), NewSize(c, u, o), FALSE)]
      <4>1. \A n \in 0..0 : n = 0
        OBVIOUS
      <4> QED
        BY <4>1
    <3> HIDE DEF h
    <3>4. g = [n \in 0..0 |->
              IF n = 0 THEN x
              ELSE WriteBlock(g[n - 1], f, o, o + 0, Len(c), NewSize(c, u, o), FALSE)]
      BY <3>2, <3>3
    <3>5. g[0] = x
      <4>1. 0 \in 0..0
        OBVIOUS
      <4> QED
        BY <3>4, <4>1
    <3>6. bs = Split(c, BlockSize)
      BY <3>1, <3>5 DEF g, x, FileOf
    <3>7. w = c
      <4>1. Len(w) = Len(c)
        <5>1. NewSize(c, u, o) = Len(c)
          BY <1>0, <3>1 DEF NewSize
        <5> QED
          BY <1>1, <5>1
      <4>2. \A k \in 1..Len(c) : k \in 1..o \/ k \in (o + Len(u) + 1)..Len(c)
        BY <1>0, <3>1
      <4>3. \A k \in 1..Len(c) : w[k] = c[k]
        BY <4>2, NewBytes
      <4> QED
        BY <1>1, <4>1, <4>3, BytesEqual
    <3> QED
      BY <3>6, <3>7
  <2> QED
    BY <2>1, <2>2
<1>3. Slice(bs, 0, Len(bs)) = bs
  <2>1. bs \in Seq(ByteSeq)
    BY <1>1, <1>2, SplitProperties
  <2> HIDE DEF bs
  <2> QED
    BY <2>1 DEF Slice
<1>4. WriteAt(f, u, o, FALSE) = Rewritten(c, f, u, o)
  BY WriteAtIsRewritten, ReadAllReads
<1> HIDE DEF w
<1>5. Rewritten(c, f, u, o) = WithBlocks(f, Split(w, BlockSize), Len(w))
  <2>1. Rewritten(c, f, u, o) = WithBlocks(f, Slice(bs, 0, Len(bs)), NewSize(c, u, o))
    BY DEF Rewritten
  <2>2. Slice(bs, 0, Len(bs)) = Split(w, BlockSize)
    BY <1>2, <1>3
  <2>3. NewSize(c, u, o) = Len(w)
    BY <1>1
  <2> HIDE DEF f, bs
  <2> QED
    BY <2>1, <2>2, <2>3
<1>6. WithBlocks(f, Split(w, BlockSize), Len(w)) = FileOf(w)
  <2>1. f = [blocks |-> Split(c, BlockSize), blockSize |-> BlockSize, size |-> Len(c)]
    BY DEF FileOf
  <2> HIDE DEF f
  <2> QED
    BY <2>1, InodeReplaced DEF FileOf
<1> HIDE DEF f
<1> QED
  BY <1>4, <1>5, <1>6 DEF w, f

-----------------------------------------------------------------------------
(***************************************************************************)
(* The safety of an upload, for every number of blocks and of workers: the *)
(* WaitGroup counts what still runs, so that the caller builds the inode   *)
(* when nothing can change it, and from all blocks if the store took all.  *)
(***************************************************************************)
Active == {k \in Blocks : worker[k] \in {"uploading", "ending"}}

\* What the WaitGroup counts besides the workers: the reading goroutine, and
\* the block it has read and not handed to a worker yet.
ReaderCount == IF reader = "start" THEN 2 ELSE IF reader = "ended" THEN 0 ELSE 1

\* An upload that failed to read its data keeps one count for ever.
CountsRunning ==
    \/ wg = Cardinality(Active) + ReaderCount
    \/ caller = "error" /\ reader = "ended" /\ wg = Cardinality(Active) + 1

WorkersInOrder ==
    /\ \A k \in Blocks : worker[k] = "none" <=> next <= k
    /\ reader = "start" => next < size
    /\ reader = "ended" /\ caller # "error" => next = size

BlocksKept ==
    \A k \in Blocks : k \in refMap \/ mainErr \/ worker[k] \in {"none", "uploading"}

BlocksRead == \A k \in refMap : k < next

IInv ==
    /\ UploadTypeOK
    /\ CountsRunning
    /\ WorkersInOrder
    /\ BlocksKept
    /\ BlocksRead
    /\ QuietWhenDone
    /\ BlocksInOrder
    /\ caller = "inode" /\ ~mainErr => Complete

-----------------------------------------------------------------------------
LEMMA BlocksAreFinite ==
  ASSUME NEW S \in SUBSET Blocks
  PROVE  IsFiniteSet(S) /\ Cardinality(S) \in Nat
<1>1. IsFiniteSet(Blocks)
  BY UploadAssumption, FS_Interval DEF Blocks
<1> QED
  BY <1>1, FS_Subset, FS_CardinalityType

LEMMA ActiveIsFinite == IsFiniteSet(Active) /\ Cardinality(Active) \in Nat
BY BlocksAreFinite DEF Active

LEMMA StartedCounts ==
  ASSUME UploadTypeOK, NEW k \in Blocks, worker[k] = "none",
         worker' = [worker EXCEPT ![k] = "uploading"]
  PROVE  Cardinality(Active') = Cardinality(Active) + 1
<1>1. Active' = Active \cup {k} /\ k \notin Active
  BY DEF Active, Blocks, UploadTypeOK
<1> QED
  BY <1>1, ActiveIsFinite, FS_AddElement

LEMMA EndedCounts ==
  ASSUME UploadTypeOK, NEW k \in Blocks, worker[k] = "ending",
         worker' = [worker EXCEPT ![k] = "ended"]
  PROVE  Cardinality(Active') = Cardinality(Active) - 1 /\ Cardinality(Active) > 0
<1>1. Active' = Active \ {k} /\ k \in Active
  BY DEF Active, Blocks, UploadTypeOK
<1>2. Cardinality(Active) # 0
  BY <1>1, ActiveIsFinite, FS_EmptySet
<1> QED
  BY <1>1, <1>2, ActiveIsFinite, FS_RemoveElement

LEMMA UploadingStaysCounted ==
  ASSUME UploadTypeOK, NEW k \in Blocks, worker[k] = "uploading",
         worker' = [worker EXCEPT ![k] = "ending"]
  PROVE  Active' = Active
BY DEF Active, Blocks, UploadTypeOK

LEMMA SameWorkersSameCount ==
  ASSUME UNCHANGED worker
  PROVE  Active' = Active
BY DEF Active, Blocks

\* When the wait is over, nothing runs and every block was given to a worker.
LEMMA WaitIsOver ==
  ASSUME IInv, caller = "select", wg = 0
  PROVE  /\ reader = "ended" /\ Active = {}
         /\ next = size
         /\ \A k \in Blocks : worker[k] \in {"none", "ended"}
<1>1. wg = Cardinality(Active) + ReaderCount
  BY DEF IInv, CountsRunning
<1>2. ReaderCount = 0 /\ Cardinality(Active) = 0
  BY <1>1, ActiveIsFinite DEF ReaderCount, IInv, UploadTypeOK
<1>3. reader = "ended"
  BY <1>2 DEF ReaderCount, IInv, UploadTypeOK
<1>4. Active = {}
  BY <1>2, ActiveIsFinite, FS_EmptySet
<1> QED
  BY <1>3, <1>4 DEF IInv, WorkersInOrder, UploadTypeOK, Active

\* The inode lists what is in refMap, if that is an initial segment.
LEMMA InodeOfAll ==
  ASSUME NEW n \in Nat, NEW refs, refs = 0..(n - 1)
  PROVE  BlocksOf(refs) = [i \in 1..n |-> i - 1]
<1>1. Cardinality(refs) = n
  BY FS_Interval
<1>2. \A i \in 1..n : i - 1 \in refs
  OBVIOUS
<1> QED
  BY <1>1, <1>2 DEF BlocksOf

LEMMA InodeTyped ==
  ASSUME NEW refs \in SUBSET Blocks
  PROVE  BlocksOf(refs) \in Seq(Blocks \cup {Missing})
BY BlocksAreFinite DEF BlocksOf

-----------------------------------------------------------------------------
LEMMA IInvInit == UploadInit => IInv
<1> SUFFICES ASSUME UploadInit PROVE IInv
  OBVIOUS
<1>0. /\ inode \in Seq(Blocks \cup {Missing}) /\ refMap \in SUBSET Blocks
      /\ worker \in [Blocks -> {"none", "uploading", "ending", "ended"}]
  BY DEF UploadInit
<1>1. UploadTypeOK
  <2>1. next \in 0..size /\ wg \in Nat
    BY UploadAssumption DEF UploadInit
  <2>2. mainErr \in BOOLEAN
    BY DEF UploadInit
  <2> QED
    BY <1>0, <2>1, <2>2 DEF UploadInit, UploadTypeOK
<1>2. Active = {}
  BY DEF UploadInit, Active
<1>3. CountsRunning
  BY <1>2, FS_EmptySet DEF UploadInit, CountsRunning, ReaderCount
<1>4. WorkersInOrder
  BY UploadAssumption DEF UploadInit, WorkersInOrder, Blocks
<1> QED
  BY <1>1, <1>3, <1>4
  DEF IInv, UploadInit, BlocksKept, BlocksRead, QuietWhenDone, BlocksInOrder

\* What a step of the reading goroutine, of a worker and of the caller keeps.
LEMMA ReaderStepKeepsIInv ==
  ASSUME IInv, ReaderStep
  PROVE  IInv'
<1>1. CASE CheckMainErr
  <2>1. Active' = Active
    BY <1>1, SameWorkersSameCount DEF CheckMainErr
  <2> QED
    BY <1>1, <2>1
    DEF CheckMainErr, IInv, UploadTypeOK, CountsRunning, ReaderCount, WorkersInOrder,
        BlocksKept, BlocksRead, QuietWhenDone, BlocksInOrder, Complete
<1>2. CASE ReadBlock
  <2>1. Active' = Active
    BY <1>2, SameWorkersSameCount DEF ReadBlock
  <2> QED
    BY <1>2, <2>1, ActiveIsFinite
    DEF ReadBlock, IInv, UploadTypeOK, CountsRunning, ReaderCount, WorkersInOrder,
        BlocksKept, BlocksRead, QuietWhenDone, BlocksInOrder, Complete
<1>3. CASE ReadEOF
  <2>1. Active' = Active
    BY <1>3, SameWorkersSameCount DEF ReadEOF
  <2> QED
    BY <1>3, <2>1, ActiveIsFinite
    DEF ReadEOF, IInv, UploadTypeOK, CountsRunning, ReaderCount, WorkersInOrder,
        BlocksKept, BlocksRead, QuietWhenDone, BlocksInOrder, Complete
<1>4. CASE ReadFails
  <2>1. Active' = Active
    BY <1>4, SameWorkersSameCount DEF ReadFails
  <2> QED
    BY <1>4, <2>1
    DEF ReadFails, IInv, UploadTypeOK, CountsRunning, ReaderCount, WorkersInOrder,
        BlocksKept, BlocksRead, QuietWhenDone, BlocksInOrder, Complete
<1>5. CASE StartWorker
  <2>1. next \in Blocks /\ worker[next] = "none"
    BY <1>5, UploadAssumption DEF StartWorker, IInv, UploadTypeOK, WorkersInOrder, Blocks
  <2>2. Cardinality(Active') = Cardinality(Active) + 1
    BY <1>5, <2>1, StartedCounts DEF StartWorker, IInv
  <2>3. UploadTypeOK'
    BY <1>5, <2>1 DEF StartWorker, IInv, UploadTypeOK, WorkersInOrder
  <2>4. CountsRunning'
    BY <1>5, <2>2, ActiveIsFinite
    DEF StartWorker, IInv, UploadTypeOK, CountsRunning, ReaderCount
  <2>5. WorkersInOrder'
    BY <1>5, <2>1 DEF StartWorker, IInv, UploadTypeOK, WorkersInOrder, Blocks
  <2>6. BlocksKept' /\ BlocksRead'
    BY <1>5, <2>1 DEF StartWorker, IInv, UploadTypeOK, BlocksKept, BlocksRead, Blocks
  <2> QED
    BY <1>5, <2>3, <2>4, <2>5, <2>6
    DEF StartWorker, IInv, QuietWhenDone, BlocksInOrder, Complete
<1> QED
  BY <1>1, <1>2, <1>3, <1>4, <1>5 DEF ReaderStep

LEMMA WorkerStepKeepsIInv ==
  ASSUME IInv, NEW k \in Blocks, WorkerStep(k)
  PROVE  IInv'
<1>1. worker[k] \in {"uploading", "ending"}
  BY DEF WorkerStep, UploadBlock, EndWorker
<1>2. caller \in {"select", "ok", "error"} /\ caller' = caller
  BY <1>1 DEF WorkerStep, UploadBlock, EndWorker, IInv, QuietWhenDone, UploadTypeOK
<1>3. caller # "ok" /\ k < next
  BY <1>1 DEF IInv, QuietWhenDone, WorkersInOrder, UploadTypeOK, Blocks
<1>4. QuietWhenDone' /\ BlocksInOrder' /\ caller' # "inode"
  BY <1>2, <1>3 DEF QuietWhenDone, BlocksInOrder
<1>5. CASE UploadBlock(k)
  <2>1. Active' = Active
    BY <1>5, UploadingStaysCounted DEF UploadBlock, IInv
  <2>2. UploadTypeOK'
    BY <1>5 DEF UploadBlock, IInv, UploadTypeOK
  <2>3. CountsRunning' /\ WorkersInOrder'
    BY <1>5, <2>1
    DEF UploadBlock, IInv, UploadTypeOK, CountsRunning, ReaderCount, WorkersInOrder
  <2>4. BlocksKept' /\ BlocksRead'
    BY <1>3, <1>5 DEF UploadBlock, IInv, UploadTypeOK, BlocksKept, BlocksRead
  <2> QED
    BY <1>4, <2>2, <2>3, <2>4 DEF IInv
<1>6. CASE EndWorker(k)
  <2>1. Cardinality(Active') = Cardinality(Active) - 1 /\ Cardinality(Active) > 0
    BY <1>6, EndedCounts DEF EndWorker, IInv
  <2>2. CountsRunning' /\ wg' \in Nat
    BY <1>6, <2>1, ActiveIsFinite
    DEF EndWorker, IInv, UploadTypeOK, CountsRunning, ReaderCount
  <2>3. UploadTypeOK'
    BY <1>6, <2>2 DEF EndWorker, IInv, UploadTypeOK
  <2>4. WorkersInOrder' /\ BlocksKept' /\ BlocksRead'
    BY <1>6 DEF EndWorker, IInv, UploadTypeOK, WorkersInOrder, BlocksKept, BlocksRead
  <2> QED
    BY <1>4, <2>2, <2>3, <2>4 DEF IInv
<1> QED
  BY <1>5, <1>6 DEF WorkerStep

LEMMA CallerStepKeepsIInv ==
  ASSUME IInv, CallerStep
  PROVE  IInv'
<1>1. Active' = Active
  BY SameWorkersSameCount DEF CallerStep, ReceiveError, ReceiveDone, StoreInode, StoreMeta
<1>2. CASE ReceiveError
  BY <1>1, <1>2, ActiveIsFinite
  DEF ReceiveError, IInv, UploadTypeOK, CountsRunning, ReaderCount, WorkersInOrder,
      BlocksKept, BlocksRead, QuietWhenDone, BlocksInOrder, Complete
<1>3. CASE ReceiveDone
  <2>1. /\ reader = "ended" /\ next = size
        /\ \A k \in Blocks : worker[k] \in {"none", "ended"}
    BY <1>3, WaitIsOver DEF ReceiveDone
  <2>2. UploadTypeOK'
    BY <1>3, InodeTyped DEF ReceiveDone, IInv, UploadTypeOK
  <2>3. CountsRunning' /\ WorkersInOrder' /\ BlocksKept' /\ BlocksRead' /\ QuietWhenDone'
    BY <1>1, <1>3, <2>1
    DEF ReceiveDone, IInv, UploadTypeOK, CountsRunning, ReaderCount, WorkersInOrder,
        BlocksKept, BlocksRead, QuietWhenDone
  <2>4. ASSUME ~mainErr PROVE Complete'
    <3>1. size \in Nat /\ size <= MaxBlocks /\ refMap \subseteq Blocks
      BY UploadAssumption DEF IInv, UploadTypeOK
    <3>2. \A k \in Blocks : k < size => k \in refMap
      BY <2>1, <2>4, <3>1 DEF IInv, BlocksKept, WorkersInOrder, Blocks
    <3>3. \A k \in refMap : k < size
      BY <2>1 DEF IInv, BlocksRead
    <3>4. refMap = 0..(size - 1)
      <4>1. \A k \in 0..(size - 1) : k \in Blocks /\ k < size
        BY <3>1, UploadAssumption DEF Blocks
      <4>2. \A k \in refMap : k \in 0..(size - 1)
        BY <3>1, <3>3, UploadAssumption DEF Blocks
      <4> QED
        BY <3>2, <4>1, <4>2
    <3>5. BlocksOf(refMap) = [i \in 1..size |-> i - 1]
      BY <3>1, <3>4, InodeOfAll
    <3> QED
      BY <1>3, <3>5 DEF ReceiveDone, Complete
  <2>5. BlocksInOrder'
    BY <1>3 DEF ReceiveDone, BlocksInOrder
  <2> QED
    BY <1>3, <2>2, <2>3, <2>4, <2>5 DEF ReceiveDone, IInv
<1>4. CASE StoreInode \/ StoreMeta
  BY <1>1, <1>4
  DEF StoreInode, StoreMeta, IInv, UploadTypeOK, CountsRunning, ReaderCount, WorkersInOrder,
      BlocksKept, BlocksRead, QuietWhenDone, BlocksInOrder, Complete
<1> QED
  BY <1>2, <1>3, <1>4 DEF CallerStep

LEMMA IInvStep == IInv /\ [UploadNext]_uploadVars => IInv'
<1> SUFFICES ASSUME IInv, [UploadNext]_uploadVars PROVE IInv'
  OBVIOUS
<1>1. CASE UNCHANGED uploadVars
  BY <1>1
  DEF uploadVars, IInv, UploadTypeOK, CountsRunning, Active, ReaderCount, WorkersInOrder,
      BlocksKept, BlocksRead, QuietWhenDone, BlocksInOrder, Complete
<1> QED
  BY <1>1, ReaderStepKeepsIInv, WorkerStepKeepsIInv, CallerStepKeepsIInv DEF UploadNext

LEMMA IInvHolds == UploadSpec => []IInv
BY IInvInit, IInvStep, PTL DEF UploadSpec

\* Type correctness of an upload; that the WaitGroup never goes below zero,
\* which panics in Go, is part of it.
THEOREM UploadTyped == UploadSpec => []UploadTypeOK
<1>1. IInv => UploadTypeOK
  BY DEF IInv
<1> QED
  BY <1>1, IInvHolds, PTL

\* When the caller copies refMap without its lock, no goroutine that writes to
\* it is left.
THEOREM UploadIsQuietWhenDone == UploadSpec => []QuietWhenDone
<1>1. IInv => QuietWhenDone
  BY DEF IInv
<1> QED
  BY <1>1, IInvHolds, PTL

\* The inode of an upload without a failed block lists every block in order.
THEOREM UploadKeepsBlocksInOrder == UploadSpec => []BlocksInOrder
<1>1. IInv => BlocksInOrder
  BY DEF IInv
<1> QED
  BY <1>1, IInvHolds, PTL

-----------------------------------------------------------------------------
(***************************************************************************)
(* FileIO implements ByteFile.  A file is always the blocks of some bytes, *)
(* and a reader stands at one of the bytes of the file it was opened with. *)
(***************************************************************************)
FileOK == file = NoFile \/ \E c \in ByteSeq : file = FileOf(c)

HandleOf(r, c) == [reader |-> r, file |-> FileOf(c)]

HandleOK ==
    \/ handle = NoHandle
    \/ \E c \in ByteSeq, r \in Readers : handle = HandleOf(r, c) /\ ReaderOK(r, c)

FInv ==
    /\ FileOK
    /\ HandleOK
    /\ writes \in 0..MaxWrites
    /\ got.err \in {"nil", "EOF"}

\* The mapping to the variables of ByteFile.
Content == IF file = NoFile THEN <<>> ELSE FlattenSeq(file.blocks)
View == IF handle = NoHandle THEN <<>> ELSE FlattenSeq(handle.file.blocks)
Pos == IF handle = NoHandle THEN 0 ELSE handle.reader.readOffset

LEMMA FileIsInode ==
    ASSUME NEW c \in ByteSeq
    PROVE  FileOf(c) \in Inodes /\ FileOf(c) # NoFile /\ FlattenSeq(FileOf(c).blocks) = c
<1>1. Split(c, BlockSize) \in Seq(Seq(Nat))
  BY SplitProperties DEF ByteSeq
<1>2. Len(c) \in Nat /\ BlockSize \in Nat
  BY ByteLen, FileAssumption
<1>3. FileOf(c) \in Inodes
  BY <1>1, <1>2 DEF FileOf, Inodes
<1>4. FileOf(c).blocks = Split(c, BlockSize)
  BY DEF FileOf
<1> QED
  BY <1>3, <1>4, SplitJoined, FileAssumption

LEMMA HandleIsReader ==
    ASSUME NEW c \in ByteSeq, NEW r \in Readers
    PROVE  /\ HandleOf(r, c) # NoHandle
           /\ HandleOf(r, c).reader = r /\ HandleOf(r, c).file = FileOf(c)
<1>1. FileOf(c) \in Inodes
  BY FileIsInode
<1>2. HandleOf(r, c) \in [reader : Readers, file : Inodes]
  BY <1>1 DEF HandleOf
<1> QED
  BY <1>2, FileAssumption DEF HandleOf

\* What the mapping is of a file and of a handle.
LEMMA FileMaps ==
    ASSUME NEW c \in ByteSeq, file = FileOf(c)
    PROVE  file # NoFile /\ Content = c /\ FileOK
BY FileIsInode DEF Content, FileOK

LEMMA HandleMaps ==
    ASSUME NEW c \in ByteSeq, NEW r \in Readers, handle = HandleOf(r, c), ReaderOK(r, c)
    PROVE  handle # NoHandle /\ View = c /\ Pos = r.readOffset /\ HandleOK
BY FileIsInode, HandleIsReader DEF View, Pos, HandleOK

LEMMA FileMapsNext ==
    ASSUME NEW c \in ByteSeq, file' = FileOf(c)
    PROVE  Content' = c /\ FileOK'
BY FileIsInode DEF Content, FileOK

LEMMA HandleMapsNext ==
    ASSUME NEW c \in ByteSeq, NEW r \in Readers, handle' = HandleOf(r, c), ReaderOK(r, c)
    PROVE  View' = c /\ Pos' = r.readOffset /\ HandleOK'
BY FileIsInode, HandleIsReader DEF View, Pos, HandleOK

LEMMA UpdatesAreBytes ==
    ASSUME NEW k \in Nat, NEW n \in Nat
    PROVE  Update(k, n) \in ByteSeq /\ Len(Update(k, n)) = n
<1>1. \A i \in 1..n : 100 * k + i \in Nat
  OBVIOUS
<1> QED
  BY <1>1, IsASeq DEF Update, ByteSeq

LEMMA ContentsAreBytes == Contents \subseteq ByteSeq
<1> SUFFICES ASSUME NEW n \in 0..MaxLength
             PROVE  [i \in 1..n |-> i] \in ByteSeq
  BY DEF Contents
<1>1. MaxLength \in Nat
  BY FileAssumption, UploadAssumption DEF MaxLength
<1>2. n \in Nat /\ \A i \in 1..n : i \in Nat
  BY <1>1
<1> QED
  BY <1>2, IsASeq DEF ByteSeq

-----------------------------------------------------------------------------
\* The steps of the file, each with the step of ByteFile that it is.

\* Upload: the blocks of the inode are those of the data, in order.
LEMMA UploadedIsUpload ==
    ASSUME IInv, FInv, Uploaded
    PROVE  FInv' /\ Content' \in Contents /\ UNCHANGED <<View, Pos, got>>
<1>1. PICK data \in Contents :
         /\ Len(Split(data, BlockSize)) = size
         /\ file' = [blocks |-> [i \in DOMAIN inode |-> Split(data, BlockSize)[inode[i] + 1]],
                     blockSize |-> BlockSize, size |-> Len(data)]
  BY DEF Uploaded
<1>2. data \in ByteSeq
  BY ContentsAreBytes
<1>3. inode = [i \in 1..size |-> i - 1] /\ size \in Nat
  <2>1. BlocksInOrder /\ caller = "ok" /\ ~mainErr
    BY DEF IInv, Uploaded
  <2>2. size \in Nat
    BY UploadAssumption DEF IInv, UploadTypeOK
  <2> QED
    BY <2>1, <2>2 DEF BlocksInOrder, Complete
<1> DEFINE bs == Split(data, BlockSize)
<1>4. [i \in DOMAIN inode |-> bs[inode[i] + 1]] = bs
  <2>1. bs = [k \in 1..size |-> Block(data, k)]
    BY <1>1, <1>2, SplitProperties
  <2> HIDE DEF bs
  <2>2. DOMAIN inode = 1..size
    BY <1>3
  <2>3. ASSUME NEW i \in 1..size
        PROVE  inode[i] + 1 = i
    BY <1>3
  <2>4. [i \in DOMAIN inode |-> bs[inode[i] + 1]] = [i \in 1..size |-> bs[i]]
    BY <2>2, <2>3
  <2>5. [i \in 1..size |-> bs[i]] = bs
    BY <2>1
  <2> QED
    BY <2>4, <2>5
<1>5. file' = FileOf(data)
  BY <1>1, <1>4 DEF FileOf
<1>6. Content' = data /\ FileOK'
  BY <1>2, <1>5, FileMapsNext
<1>7. UNCHANGED <<writes, handle, got>>
  BY DEF Uploaded
<1>8. HandleOK' /\ UNCHANGED <<View, Pos>>
  BY <1>7 DEF FInv, HandleOK, View, Pos
<1> QED
  BY <1>6, <1>7, <1>8 DEF FInv

LEMMA WriteAtFileIsWriteAt ==
    ASSUME ~PartialTails, FInv, WriteAtFile
    PROVE  /\ FInv'
           /\ \E u \in {Update(k, n) : k \in 1..MaxWrites, n \in UpdateSizes} :
                 \E offset \in 0..Len(Content) : Content' = New(Content, u, offset)
           /\ UNCHANGED <<View, Pos, got>>
<1>1. PICK c \in ByteSeq : file = FileOf(c)
  BY DEF WriteAtFile, FInv, FileOK
<1>2. Content = c /\ file.size = Len(c)
  BY <1>1, FileMaps, FileParts
<1>3. PICK offset \in 0..Len(c), n \in UpdateSizes :
         /\ EndsWell(FileOf(c), offset + n)
         /\ file' = WriteAt(FileOf(c), Update(writes + 1, n), offset, FALSE)
  BY <1>1, <1>2 DEF WriteAtFile
<1>4. writes + 1 \in 1..MaxWrites /\ writes' = writes + 1 /\ writes + 1 \in Nat
  BY FileAssumption DEF WriteAtFile, FInv
<1> DEFINE u == Update(writes + 1, n)
<1>5. u \in ByteSeq /\ Len(u) = n
  BY <1>4, UpdatesAreBytes, FileAssumption
<1>6. u \in {Update(k, m) : k \in 1..MaxWrites, m \in UpdateSizes}
  BY <1>4
<1> HIDE DEF u
<1>7. file' = FileOf(New(c, u, offset))
  <2>1. WriteAt(FileOf(c), u, offset, FALSE) = FileOf(New(c, u, offset))
    BY <1>3, <1>5, WriteAtWrites
  <2> QED
    BY <1>3, <2>1 DEF u
<1>8. New(c, u, offset) \in ByteSeq
  BY <1>5, NewBytes
<1>9. Content' = New(c, u, offset) /\ FileOK'
  BY <1>7, <1>8, FileMapsNext
<1>10. UNCHANGED <<handle, got>>
  BY DEF WriteAtFile
<1>11. HandleOK' /\ UNCHANGED <<View, Pos>>
  BY <1>10 DEF FInv, HandleOK, View, Pos
<1>12. writes' \in 0..MaxWrites
  BY <1>4, FileAssumption
<1>13. FInv'
  BY <1>9, <1>10, <1>11, <1>12 DEF FInv
<1> QED
  BY <1>2, <1>6, <1>9, <1>10, <1>11, <1>13

LEMMA DownloadIsOpen ==
    ASSUME FInv, Download
    PROVE  FInv' /\ View' = Content /\ Pos' = 0 /\ got' = Nothing /\ UNCHANGED Content
<1>1. PICK c \in ByteSeq : file = FileOf(c)
  BY DEF Download, FInv, FileOK
<1>2. Content = c
  BY <1>1, FileMaps
<1> DEFINE r == NewReader(FileOf(c))
<1>3. ReaderOK(r, c) /\ r.readOffset = 0 /\ r \in Readers
  BY FreshReader DEF ReaderOK
<1> HIDE DEF r
<1>4. handle' = HandleOf(r, c)
  BY <1>1 DEF Download, HandleOf, r
<1>5. View' = c /\ Pos' = 0 /\ HandleOK'
  BY <1>3, <1>4, HandleMapsNext
<1>6. got' = Nothing /\ UNCHANGED <<file, writes>>
  BY DEF Download
<1>7. FileOK' /\ UNCHANGED Content
  BY <1>6 DEF FInv, FileOK, Content
<1>8. got'.err = "nil"
  BY <1>6 DEF Nothing
<1> QED
  BY <1>2, <1>5, <1>6, <1>7, <1>8 DEF FInv

\* What a Read or a Seek returned is kept.
LEMMA TookReader ==
    ASSUME FInv, NEW c \in ByteSeq, NEW r, handle = HandleOf(r, c), NEW a, Took(a),
           ReaderOK(a.reader, c), a.err \in {"nil", "EOF"}
    PROVE  /\ FInv' /\ View' = c /\ Pos' = a.reader.readOffset
           /\ got' = [data |-> a.data, err |-> a.err] /\ UNCHANGED Content
<1>1. handle' = HandleOf(a.reader, c)
  BY DEF Took, HandleOf
<1>2. a.reader \in Readers
  BY DEF ReaderOK
<1>3. View' = c /\ Pos' = a.reader.readOffset /\ HandleOK'
  BY <1>1, <1>2, HandleMapsNext
<1>4. got' = [data |-> a.data, err |-> a.err] /\ UNCHANGED <<file, writes>>
  BY DEF Took
<1>5. FileOK' /\ UNCHANGED Content
  BY <1>4 DEF FInv, FileOK, Content
<1>6. got'.err \in {"nil", "EOF"}
  BY <1>4
<1> QED
  BY <1>3, <1>4, <1>5, <1>6 DEF FInv

LEMMA ReadSomeIsRead ==
    ASSUME FInv, ReadSome
    PROVE  /\ FInv'
           /\ \E n \in BufferSizes : \E m \in 0..n :
                 /\ Pos + m <= Len(View)
                 /\ Pos' = Pos + m
                 /\ got' = [data |-> SubSeq(View, Pos + 1, Pos + m), err |-> got'.err]
                 /\ IF got'.err = "EOF" THEN Pos + m = Len(View) ELSE got'.err = "nil" /\ m > 0
           /\ UNCHANGED <<Content, View>>
<1>1. PICK c \in ByteSeq, r \in Readers : handle = HandleOf(r, c) /\ ReaderOK(r, c)
  BY DEF ReadSome, FInv, HandleOK
<1>2. View = c /\ Pos = r.readOffset
  BY <1>1, HandleMaps
<1>3. PICK n \in BufferSizes : Took(Read(r, n, FileOf(c)))
  BY <1>1, HandleIsReader DEF ReadSome
<1> DEFINE a == Read(r, n, FileOf(c))
<1>4. Answers(a, c, Pos, n)
  <2>1. n \in Nat \ {0}
    BY FileAssumption
  <2> QED
    BY <1>1, <1>2, <2>1, ReadAnswers
<1>5. Took(a)
  BY <1>3
<1> HIDE DEF a
<1>6. PICK m \in 0..n :
         /\ Pos + m <= Len(c)
         /\ a.data = Slice(c, Pos, Pos + m)
         /\ ReaderOK(a.reader, c) /\ a.reader.readOffset = Pos + m
         /\ \/ a.err = "EOF" /\ Pos + m = Len(c)
            \/ a.err = "nil" /\ m > 0
  BY <1>4 DEF Answers
<1>7. a.err \in {"nil", "EOF"}
  BY <1>6
<1>8. /\ FInv' /\ View' = c /\ Pos' = a.reader.readOffset
      /\ got' = [data |-> a.data, err |-> a.err] /\ UNCHANGED Content
  BY <1>1, <1>5, <1>6, <1>7, TookReader
<1>9. a.data = SubSeq(View, Pos + 1, Pos + m)
  BY <1>2, <1>6 DEF Slice
<1>10. /\ Pos + m <= Len(View) /\ Pos' = Pos + m
       /\ IF a.err = "EOF" THEN Pos + m = Len(View) ELSE a.err = "nil" /\ m > 0
  BY <1>2, <1>6, <1>8
<1>11. got' = [data |-> SubSeq(View, Pos + 1, Pos + m), err |-> got'.err] /\ got'.err = a.err
  BY <1>8, <1>9
<1> QED
  BY <1>2, <1>8, <1>10, <1>11

LEMMA SeekToIsSeek ==
    ASSUME ~SeekLater, FInv, SeekTo
    PROVE  FInv' /\ Pos' \in 0..Len(View) /\ got' = Nothing /\ UNCHANGED <<Content, View>>
<1>1. PICK c \in ByteSeq, r \in Readers : handle = HandleOf(r, c) /\ ReaderOK(r, c)
  BY DEF SeekTo, FInv, HandleOK
<1>2. View = c /\ handle.reader = r /\ handle.file = FileOf(c) /\ FileOf(c).size = Len(c)
  BY <1>1, HandleMaps, HandleIsReader, FileParts
<1>3. r = NewReader(FileOf(c))
  BY <1>2 DEF SeekTo
<1>4. PICK o \in 0..(Len(c) - 1) : Took(Seek(r, o, FileOf(c)))
  BY <1>2 DEF SeekTo
<1> DEFINE a == Seek(r, o, FileOf(c))
<1>5. a.data = <<>> /\ a.err = "nil" /\ ReaderOK(a.reader, c) /\ a.reader.readOffset = o
  BY <1>3, SeekAnswers
<1>6. Took(a)
  BY <1>4
<1> HIDE DEF a
<1>7. /\ FInv' /\ View' = c /\ Pos' = a.reader.readOffset
      /\ got' = [data |-> a.data, err |-> a.err] /\ UNCHANGED Content
  BY <1>1, <1>5, <1>6, TookReader
<1>8. o \in 0..Len(c)
  <2>1. Len(c) \in Nat
    BY ByteLen
  <2> QED
    BY <2>1
<1> QED
  BY <1>2, <1>5, <1>7, <1>8 DEF Nothing

-----------------------------------------------------------------------------
LEMMA FileInit == Init => FInv /\ Bytes!Init
<1> SUFFICES ASSUME Init
             PROVE  FInv /\ Bytes!Init
  OBVIOUS
<1>1. file = NoFile /\ handle = NoHandle /\ got = Nothing /\ writes = 0
  BY DEF Init
<1>2. FInv
  BY <1>1, FileAssumption DEF FInv, FileOK, HandleOK, Nothing
<1>3. Bytes!Init
  BY <1>1 DEF Bytes!Init, Bytes!Nothing, Nothing
<1> QED
  BY <1>2, <1>3

LEMMA NewIsOverwrite ==
    ASSUME NEW c, NEW u, NEW o
    PROVE  New(c, u, o) = Bytes!Overwrite(c, u, o)
BY DEF New, Bytes!Overwrite

LEMMA FileStep ==
    ASSUME ~PartialTails, ~SeekLater, IInv, FInv, [Next]_vars
    PROVE  FInv' /\ [Bytes!Next]_(Bytes!vars)
<1> DEFINE Same == UNCHANGED <<Content, View, Pos, got>>
<1>1. CASE UNCHANGED vars \/ Uploading
  <2>1. UNCHANGED <<file, writes, handle, got>>
    BY <1>1 DEF vars, Uploading
  <2>2. FInv' /\ Same
    BY <2>1 DEF FInv, FileOK, HandleOK, Content, View, Pos
  <2> QED
    BY <2>2 DEF Bytes!vars, Content, View, Pos
<1>2. CASE Uploaded
  <2>1. FInv' /\ Content' \in Contents /\ UNCHANGED <<View, Pos, got>>
    BY <1>2, UploadedIsUpload
  <2>2. Bytes!Upload
    BY <2>1 DEF Bytes!Upload, Content, View, Pos
  <2> QED
    BY <2>1, <2>2 DEF Bytes!Next
<1>3. CASE WriteAtFile
  <2>1. /\ FInv'
        /\ \E u \in {Update(k, n) : k \in 1..MaxWrites, n \in UpdateSizes} :
              \E offset \in 0..Len(Content) : Content' = New(Content, u, offset)
        /\ UNCHANGED <<View, Pos, got>>
    BY <1>3, WriteAtFileIsWriteAt
  <2>2. PICK u \in {Update(k, n) : k \in 1..MaxWrites, n \in UpdateSizes} :
           \E offset \in 0..Len(Content) : Content' = New(Content, u, offset)
    BY <2>1
  <2>3. \E offset \in 0..Len(Content) : Content' = Bytes!Overwrite(Content, u, offset)
    BY <2>2, NewIsOverwrite
  <2>4. Bytes!WriteAt
    BY <2>1, <2>3 DEF Bytes!WriteAt, Content, View, Pos
  <2> QED
    BY <2>1, <2>4 DEF Bytes!Next
<1>4. CASE Download
  <2>1. FInv' /\ View' = Content /\ Pos' = 0 /\ got' = Nothing /\ UNCHANGED Content
    BY <1>4, DownloadIsOpen
  <2>2. Bytes!Open
    BY <2>1 DEF Bytes!Open, Bytes!Nothing, Nothing, Content, View, Pos
  <2> QED
    BY <2>1, <2>2 DEF Bytes!Next
<1>5. CASE ReadSome
  <2>1. /\ FInv'
        /\ \E n \in BufferSizes : \E m \in 0..n :
              /\ Pos + m <= Len(View)
              /\ Pos' = Pos + m
              /\ got' = [data |-> SubSeq(View, Pos + 1, Pos + m), err |-> got'.err]
              /\ IF got'.err = "EOF" THEN Pos + m = Len(View) ELSE got'.err = "nil" /\ m > 0
        /\ UNCHANGED <<Content, View>>
    BY <1>5, ReadSomeIsRead
  <2>2. Bytes!Read
    BY <2>1 DEF Bytes!Read, Content, View, Pos
  <2> QED
    BY <2>1, <2>2 DEF Bytes!Next
<1>6. CASE SeekTo
  <2>1. FInv' /\ Pos' \in 0..Len(View) /\ got' = Nothing /\ UNCHANGED <<Content, View>>
    BY <1>6, SeekToIsSeek
  <2>2. Bytes!Seek
    BY <2>1 DEF Bytes!Seek, Bytes!Nothing, Nothing, Content, View, Pos
  <2> QED
    BY <2>1, <2>2 DEF Bytes!Next
<1> QED
  BY <1>1, <1>2, <1>3, <1>4, <1>5, <1>6 DEF Next

LEMMA FileIsUploaded == Spec => UploadSpec
<1>1. Init => UploadInit
  BY DEF Init
<1>2. [Next]_vars => [UploadNext]_uploadVars
  BY DEF Next, vars, uploadVars, Uploading, Uploaded, WriteAtFile, Download, ReadSome, SeekTo, Took
<1> QED
  BY <1>1, <1>2, PTL DEF Spec, UploadSpec

\* The goroutines of an upload are quiet when its inode is built, whatever is
\* done with the file afterwards.
THEOREM FileIsQuietWhenDone == Spec => []QuietWhenDone
BY FileIsUploaded, UploadIsQuietWhenDone, PTL

\* The inode of the file lists every block in order.
THEOREM FileKeepsBlocksInOrder == Spec => []BlocksInOrder
BY FileIsUploaded, UploadKeepsBlocksInOrder, PTL

LEMMA FInvHolds ==
    ASSUME ~PartialTails, ~SeekLater
    PROVE  Spec => [](IInv /\ FInv)
<1>1. Init => FInv
  BY FileInit
<1>2. IInv /\ FInv /\ [Next]_vars => FInv'
  BY FileStep
<1>3. Spec => []IInv
  BY FileIsUploaded, IInvHolds, PTL
<1> QED
  BY <1>1, <1>2, <1>3, PTL DEF Spec

\* A file is never longer than its blocks and no reader is past the end of its
\* file: Seek and Read never index a block that is not there.
THEOREM FilesAreTyped ==
    ASSUME ~PartialTails, ~SeekLater
    PROVE  Spec => []TypeOK
<1>1. ASSUME IInv, FInv
      PROVE  TypeOK
  <2>1. UploadTypeOK
    BY <1>1 DEF IInv
  <2>2. file = NoFile \/ file.size <= Len(FlattenSeq(file.blocks))
    <3>1. CASE file # NoFile
      <4>1. PICK c \in ByteSeq : file = FileOf(c)
        BY <1>1, <3>1 DEF FInv, FileOK
      <4>2. file.size = Len(c) /\ FlattenSeq(file.blocks) = c
        BY <4>1, FileIsInode, FileParts
      <4>3. Len(c) <= Len(c)
        BY ByteLen
      <4> QED
        BY <4>2, <4>3
    <3> QED
      BY <3>1
  <2>3. handle = NoHandle \/ handle.reader.readOffset \in 0..Len(FlattenSeq(handle.file.blocks))
    <3>1. CASE handle # NoHandle
      <4>1. PICK c \in ByteSeq, r \in Readers : handle = HandleOf(r, c) /\ ReaderOK(r, c)
        BY <1>1, <3>1 DEF FInv, HandleOK
      <4>2. handle.reader = r /\ FlattenSeq(handle.file.blocks) = c
        BY <4>1, HandleIsReader, FileIsInode
      <4>3. r.readOffset \in Nat /\ r.readOffset <= Len(c) /\ Len(c) \in Nat
        BY <4>1, ByteLen DEF ReaderOK, Readers
      <4>4. r.readOffset \in 0..Len(c)
        BY <4>3
      <4> QED
        BY <4>2, <4>4
    <3> QED
      BY <3>1
  <2>4. writes \in 0..MaxWrites /\ got.err \in {"nil", "EOF", "panic"}
    BY <1>1 DEF FInv
  <2> QED
    BY <2>1, <2>2, <2>3, <2>4 DEF TypeOK
<1> QED
  BY <1>1, FInvHolds, PTL

\* Upload, WriteAt and Reader are a file of bytes, for every block size, every
\* length of data, updates and buffers and every order of the calls: if no
\* update ends inside the last, short block and no reader is sought after it
\* was read from, which is how the program uses them.
THEOREM FileIsByteFile ==
    ASSUME ~PartialTails, ~SeekLater
    PROVE  Spec => IsByteFile
<1>1. Init => Bytes!Init
  BY FileInit
<1>2. IInv /\ FInv /\ [Next]_vars => [Bytes!Next]_(Bytes!vars)
  BY FileStep
<1> QED
  BY <1>1, <1>2, FInvHolds, PTL DEF Spec, IsByteFile, Bytes!Spec

-----------------------------------------------------------------------------
(***************************************************************************)
(* The lines of a file, which are read with the reader above.  A text is   *)
(* the bytes of a file, whether its last byte ends a line or not.          *)
(***************************************************************************)
Texts == ByteSeq

\* Where block k ends, and where its reader is.
BlockEnd(c, k) == Least(Border(k), Len(c))

ReaderAt(c, k) ==
    [readOffset |-> BlockEnd(c, k), lastBlock |-> <<>>,
     blockSize |-> IF k = 0 THEN BlockSize ELSE Len(Block(c, k)), blockCursor |-> 0,
     totalSize |-> BlockEnd(c, k)]

LEMMA ReaderIs ==
    ASSUME NEW x \in Readers, NEW y \in Readers,
           x.readOffset = y.readOffset, x.lastBlock = y.lastBlock, x.blockSize = y.blockSize,
           x.blockCursor = y.blockCursor, x.totalSize = y.totalSize
    PROVE  x = y
BY DEF Readers

LEMMA TextParts ==
    ASSUME NEW c \in Texts
    PROVE  /\ c \in ByteSeq /\ Len(c) \in Nat
           /\ Count(Len(c)) \in Nat
           /\ BlockEnd(c, 0) = 0 /\ BlockEnd(c, Count(Len(c))) = Len(c)
<1> DEFINE N == Count(Len(c))
<1>1. c \in ByteSeq
  BY DEF Texts
<1>2. Len(c) \in Nat
  BY <1>1, ByteLen
<1>3. N \in Nat /\ Len(c) <= Border(N) /\ Border(N) \in Nat
  BY <1>2, Counting, Borders
<1>4. BlockEnd(c, 0) = 0
  BY <1>2, Borders DEF BlockEnd, Least
<1>5. BlockEnd(c, N) = Len(c)
  BY <1>2, <1>3 DEF BlockEnd, Least
<1> QED
  BY <1>1, <1>2, <1>3, <1>4, <1>5

LEMMA BlockParts ==
    ASSUME NEW c \in Texts, NEW k \in 1..Count(Len(c))
    PROVE  /\ Border(k - 1) \in Nat /\ Border(k - 1) < Len(c) /\ Border(k - 1) = BlockEnd(c, k - 1)
           /\ BlockEnd(c, k) \in Nat /\ BlockEnd(c, k) <= Len(c)
           /\ Block(c, k) \in ByteSeq
           /\ Len(Block(c, k)) \in 1..BlockSize /\ Border(k - 1) + Len(Block(c, k)) = BlockEnd(c, k)
           /\ Block(c, k) = Slice(c, Border(k - 1), BlockEnd(c, k))
           /\ \A i \in 1..Len(Block(c, k)) : Block(c, k)[i] = c[Border(k - 1) + i]
           /\ k < Count(Len(c)) => /\ BlockEnd(c, k) = Border(k) /\ BlockEnd(c, k) < Len(c)
                                   /\ Len(Block(c, k)) = BlockSize
           /\ k = Count(Len(c)) => BlockEnd(c, k) = Len(c)
<1> DEFINE N == Count(Len(c))
           b == Block(c, k)
           e == BlockEnd(c, k)
<1>0. c \in ByteSeq /\ Len(c) \in Nat /\ N \in Nat /\ BlockEnd(c, N) = Len(c)
  BY TextParts
<1>1. /\ Border(k - 1) \in Nat /\ Border(k) = Border(k - 1) + BlockSize
      /\ Border(k - 1) < Len(c)
      /\ e \in Nat /\ Border(k - 1) < e /\ e <= Len(c)
      /\ b \in ByteSeq
      /\ Len(b) = e - Border(k - 1) /\ Len(b) \in 1..BlockSize
  BY <1>0, BlockProperties DEF BlockEnd
<1>2. Border(k - 1) = BlockEnd(c, k - 1)
  BY <1>0, <1>1 DEF BlockEnd, Least
<1>3. b = Slice(c, Border(k - 1), e)
  BY DEF Block, BlockEnd
<1>4. \A i \in 1..Len(b) : b[i] = c[Border(k - 1) + i]
  <2>1. Border(k - 1) <= e
    BY <1>1
  <2>2. \A i \in 1..(e - Border(k - 1)) : Slice(c, Border(k - 1), e)[i] = c[Border(k - 1) + i]
    BY <1>0, <1>1, <2>1, SliceProperties
  <2> QED
    BY <1>1, <1>3, <2>2
<1>5. ASSUME k < N
      PROVE  e = Border(k) /\ e < Len(c) /\ Len(b) = BlockSize
  <2>1. k \in Nat /\ Border(k) < Len(c) /\ Border(k) \in Nat
    BY <1>0, <1>5, Counting, Borders
  <2>2. e = Border(k)
    BY <1>0, <2>1 DEF BlockEnd, Least
  <2> HIDE DEF e
  <2> QED
    BY <1>1, <2>1, <2>2, FileAssumption
<1>6. Border(k - 1) + Len(b) = e
  <2> HIDE DEF e, b
  <2> QED
    BY <1>1
<1> HIDE DEF e, b, N
<1> QED
  BY <1>0, <1>1, <1>2, <1>3, <1>4, <1>5, <1>6 DEF e, b, N

LEMMA ReadersAt ==
    ASSUME NEW c \in Texts, NEW k \in 0..Count(Len(c))
    PROVE  ReaderAt(c, k) \in Readers /\ BlockEnd(c, k) \in Nat
<1> DEFINE width == IF k = 0 THEN BlockSize ELSE Len(Block(c, k))
<1>0. Count(Len(c)) \in Nat /\ BlockEnd(c, 0) = 0 /\ BlockSize \in Nat
  BY TextParts, FileAssumption
<1>1. width \in Nat /\ BlockEnd(c, k) \in Nat
  <2>1. CASE k = 0
    BY <1>0, <2>1
  <2>2. CASE k # 0
    <3>1. k \in 1..Count(Len(c))
      BY <2>2
    <3>2. Block(c, k) \in ByteSeq /\ BlockEnd(c, k) \in Nat
      BY <3>1, BlockParts
    <3>3. Len(Block(c, k)) \in Nat
      BY <3>2, ByteLen
    <3> QED
      BY <2>2, <3>2, <3>3
  <2> QED
    BY <2>1, <2>2
<1>2. ReaderAt(c, k) = [readOffset |-> BlockEnd(c, k), lastBlock |-> <<>>, blockSize |-> width,
                        blockCursor |-> 0, totalSize |-> BlockEnd(c, k)]
  BY DEF ReaderAt
<1> HIDE DEF width
<1>3. <<>> \in Seq(Nat)
  BY EmptySeq
<1> QED
  BY <1>1, <1>2, <1>3 DEF Readers

\* A new reader.
LEMMA StartsAt ==
    ASSUME NEW c \in Texts
    PROVE  NewReader(FileOf(c)) = ReaderAt(c, 0)
<1>1. FileOf(c).blockSize = BlockSize /\ BlockEnd(c, 0) = 0
  BY TextParts, FileParts
<1> QED
  BY <1>1 DEF NewReader, ReaderAt

\* A reader at the end of a block reads the next one whole.
LEMMA ReadsBlock ==
    ASSUME NEW c \in Texts, NEW k \in 0..Count(Len(c)), k < Count(Len(c))
    PROVE  Read(ReaderAt(c, k), ReaderAt(c, k).blockSize, FileOf(c))
           = Answer(ReaderAt(c, k + 1), Block(c, k + 1), "nil")
<1> DEFINE f == FileOf(c)
           r == ReaderAt(c, k)
           s == ReaderAt(c, k + 1)
           N == Count(Len(c))
           b == Block(c, k + 1)
           n == r.blockSize
<1>0. /\ BlockSize \in Nat \ {0} /\ c \in ByteSeq /\ Len(c) \in Nat
      /\ N \in Nat /\ BlockEnd(c, 0) = 0 /\ k \in Nat
  BY TextParts, FileAssumption
<1>1. k + 1 \in 1..N /\ k + 1 \in 0..N /\ (k + 1) - 1 = k /\ k + 1 # 0
  BY <1>0
<1>2. r \in Readers /\ s \in Readers /\ BlockEnd(c, k) \in Nat /\ BlockEnd(c, k + 1) \in Nat
  BY <1>1, ReadersAt
<1>3. /\ b \in ByteSeq /\ Len(b) \in 1..BlockSize
      /\ Border(k) \in Nat /\ Border(k) < Len(c) /\ Border(k) = BlockEnd(c, k)
      /\ Border(k) + Len(b) = BlockEnd(c, k + 1)
  BY <1>1, BlockParts
<1>4. /\ r.readOffset = BlockEnd(c, k) /\ r.totalSize = BlockEnd(c, k) /\ r.blockCursor = 0
      /\ r.lastBlock = <<>> /\ n = IF k = 0 THEN BlockSize ELSE Len(Block(c, k))
  BY DEF ReaderAt
<1>5. /\ s.readOffset = BlockEnd(c, k + 1) /\ s.totalSize = BlockEnd(c, k + 1)
      /\ s.lastBlock = <<>> /\ s.blockSize = Len(b) /\ s.blockCursor = 0
  BY <1>1 DEF ReaderAt
<1>6. f.size = Len(c) /\ Len(f.blocks) = N /\ f.blocks[k + 1] = b
  BY <1>0, <1>1, FileParts
<1> HIDE DEF f, r, s, b, n
<1>7. r.totalSize < f.size /\ ~(r.totalSize >= f.size) /\ Len(b) \in Nat
  BY <1>0, <1>3, <1>4, <1>6
<1>8. <<>> \in ByteSeq /\ Slice(b, 0, Len(b)) = b /\ From(b, 0) = b /\ b # <<>>
  <2>1. 0 \in 0..Len(b)
    BY <1>7
  <2>2. Len(b) # 0
    BY <1>3
  <2> QED
    BY <1>3, <2>1, <2>2, SliceAll, EmptySeq DEF ByteSeq
<1>9. QED
  <2>1. r.lastBlock = <<>> /\ n = BlockSize
    <3>1. CASE k = 0
      BY <1>4, <3>1
    <3>2. CASE k # 0
      <4>1. k \in 1..N
        BY <1>0, <3>2
      <4>2. Len(Block(c, k)) = BlockSize
        BY <4>1, BlockParts
      <4> QED
        BY <1>4, <3>2, <4>2
    <3> QED
      BY <3>1, <3>2
  <2>2. Read(r, n, f) = ReadNextBlock(r, n, f, <<>>)
    BY <1>7, <2>1 DEF Read
  <2>3. r.readOffset \div r.blockSize = k /\ ~(k >= Len(f.blocks))
    <3>1. (Border(k) + 0) \div BlockSize = k
      <4>1. 0 < BlockSize
        BY <1>0
      <4> QED
        BY <1>0, <4>1, BorderQuotient
    <3>2. Border(k) + 0 = Border(k)
      BY <1>3
    <3>3. r.blockSize = BlockSize
      BY <2>1 DEF n
    <3>4. ~(k >= Len(f.blocks))
      BY <1>0, <1>6
    <3> QED
      BY <1>3, <1>4, <3>1, <3>2, <3>3, <3>4
  <2>4. Least(n, Len(b)) = Len(b)
    BY <1>0, <1>3, <2>1 DEF Least
  <2> DEFINE t == DropBlock(Advance([r EXCEPT !.blockSize = Len(b)], Len(b)))
  <2>5. Read(r, n, f) = Answer(t, <<>> \o Slice(b, 0, Len(b)), "nil")
    <3> HIDE DEF t
    <3> QED
      BY <1>6, <2>2, <2>3, <2>4 DEF ReadNextBlock, t
  <2>6. <<>> \o b = b
    BY <1>3, ConcatEmptySeq DEF ByteSeq
  <2>7. t = s
    <3>1. t = [[[r EXCEPT !.blockSize = Len(b)] EXCEPT !.readOffset = @ + Len(b), !.totalSize = @ + Len(b)]
                 EXCEPT !.lastBlock = <<>>, !.blockCursor = 0]
      BY DEF DropBlock, Advance
    <3>2. r.readOffset + Len(b) = BlockEnd(c, k + 1) /\ r.totalSize + Len(b) = BlockEnd(c, k + 1)
      BY <1>3, <1>4
    <3>3. <<>> \in Seq(Nat)
      BY <1>8 DEF ByteSeq
    <3> HIDE DEF t
    <3>4. t \in Readers
      BY <1>2, <1>7, <3>1, <3>2, <3>3 DEF Readers
    <3>5. /\ t.readOffset = BlockEnd(c, k + 1) /\ t.totalSize = BlockEnd(c, k + 1)
          /\ t.lastBlock = <<>> /\ t.blockSize = Len(b) /\ t.blockCursor = 0
      BY <1>2, <1>7, <3>1, <3>2 DEF Readers
    <3> QED
      BY <1>2, <1>5, <3>4, <3>5, ReaderIs
  <2> HIDE DEF t
  <2>8. Read(r, n, f) = Answer(s, b, "nil")
    BY <1>8, <2>5, <2>6, <2>7
  <2> QED
    BY <2>8 DEF f, r, s, b, n

\* Behind the last block there is nothing.
LEMMA ReadsEnd ==
    ASSUME NEW c \in Texts, NEW n
    PROVE  Read(ReaderAt(c, Count(Len(c))), n, FileOf(c))
           = Answer(ReaderAt(c, Count(Len(c))), <<>>, "EOF")
<1> DEFINE r == ReaderAt(c, Count(Len(c)))
           f == FileOf(c)
<1>1. r.totalSize = Len(c) /\ f.size = Len(c) /\ Len(c) \in Nat
  BY TextParts, FileParts DEF ReaderAt
<1> HIDE DEF r, f
<1>2. r.totalSize >= f.size
  BY <1>1
<1>3. Read(r, n, f) = Answer(r, <<>>, "EOF")
  BY <1>1, <1>2 DEF Read
<1> QED
  BY <1>3 DEF r, f

-----------------------------------------------------------------------------
\* The buffer of a reader of lines, which only the last block does not fill.
BufferOf(c, k) == Block(c, k) \o Zeros(BlockSize - Len(Block(c, k)))

LineReaders == [reader : Readers, buffer : ByteSeq, length : Nat, at : Nat, first : BOOLEAN]

\* The buffer holds block k and the reader is behind it; Place is how far its lines are read.
Holds(l, c, k) ==
    /\ l \in LineReaders /\ l.reader = ReaderAt(c, k) /\ l.buffer = BufferOf(c, k)
    /\ l.length \in {Len(Block(c, k)), Len(BufferOf(c, k))}
    /\ readOffset(l) \in 0..Len(Block(c, k))

Place(l, k) == Border(k - 1) + readOffset(l)

\* The next line starts behind byte p: in the buffer, or in a block not read yet.
AtLine(l, c, p) ==
    /\ l \in LineReaders
    /\ \/ \E k \in 0..Count(Len(c)) :
             /\ l.reader = ReaderAt(c, k) /\ l.length = 0 /\ l.at = 0
             /\ p = BlockEnd(c, k) /\ (l.first => k = Count(Len(c)))
       \/ \E k \in 1..Count(Len(c)) : Holds(l, c, k) /\ p = Place(l, k)

NoLine(c, p, q) == \A i \in (p + 1)..q : c[i] # NewLine

\* Where ReadLine can be that started at p: no newline so far, the line, or the end.
Results == [lines : LineReaders, data : ByteSeq, err : {"more", "nil", "EOF"}]

Going(x, c, p, k) ==
    /\ x.err = "more" /\ Holds(x.lines, c, k) /\ p <= Place(x.lines, k)
    /\ x.data = Slice(c, p, Place(x.lines, k)) /\ NoLine(c, p, Place(x.lines, k))

IsLine(c, p, q) == q \in (p + 1)..Len(c) /\ c[q] = NewLine /\ NoLine(c, p, q - 1)

FoundTo(x, c, p, q) ==
    IsLine(c, p, q) /\ x.err = "nil" /\ x.data = Slice(c, p, q) /\ AtLine(x.lines, c, q)

Found(x, c, p) == \E q \in Nat : FoundTo(x, c, p, q)

Ended(x, c, p) == NoLine(c, p, Len(c)) /\ x.err = "EOF"

LEMMA ZerosAre ==
    ASSUME NEW n \in Nat
    PROVE  Zeros(n) \in ByteSeq /\ Len(Zeros(n)) = n /\ \A i \in 1..n : Zeros(n)[i] = 0
<1>1. Zeros(n) \in [1..n -> Nat] /\ \A i \in 1..n : Zeros(n)[i] = 0
  BY DEF Zeros
<1>2. Zeros(n) \in Seq(Nat)
  BY <1>1
<1>3. Len(Zeros(n)) = n
  BY <1>1, <1>2
<1> QED
  BY <1>1, <1>2, <1>3 DEF ByteSeq

LEMMA BufferParts ==
    ASSUME NEW c \in Texts, NEW k \in 1..Count(Len(c))
    PROVE  /\ BufferOf(c, k) \in ByteSeq /\ Len(BufferOf(c, k)) \in Nat
           /\ Len(Block(c, k)) <= Len(BufferOf(c, k))
           /\ k < Count(Len(c)) => Len(BufferOf(c, k)) = Len(Block(c, k))
           /\ Len(BufferOf(c, k)) = BlockSize
           /\ \A i \in 1..Len(Block(c, k)) : BufferOf(c, k)[i] = c[Border(k - 1) + i]
           /\ \A i \in 1..Len(BufferOf(c, k)) :
                 BufferOf(c, k)[i] = NewLine => i \in 1..Len(Block(c, k))
<1> DEFINE b == Block(c, k)
           z == Zeros(BlockSize - Len(b))
           u == BufferOf(c, k)
<1>1. /\ b \in ByteSeq /\ Len(b) \in 1..BlockSize /\ BlockSize \in Nat
      /\ \A i \in 1..Len(b) : b[i] = c[Border(k - 1) + i]
      /\ k < Count(Len(c)) => Len(b) = BlockSize
  BY BlockParts, FileAssumption
<1>2. BlockSize - Len(b) \in Nat
  BY <1>1
<1> HIDE DEF b
<1>3. z \in ByteSeq /\ Len(z) = BlockSize - Len(b) /\ \A i \in 1..(BlockSize - Len(b)) : z[i] = 0
  BY <1>2, ZerosAre
<1>4. u = b \o z
  BY DEF BufferOf, b
<1> HIDE DEF u, z
<1>5. QED
  <2>1. /\ u \in ByteSeq /\ Len(u) = Len(b) + Len(z)
        /\ \A i \in 1..(Len(b) + Len(z)) : u[i] = IF i <= Len(b) THEN b[i] ELSE z[i - Len(b)]
    <3>1. /\ b \o z \in ByteSeq /\ Len(b \o z) = Len(b) + Len(z)
          /\ \A i \in 1..(Len(b) + Len(z)) : (b \o z)[i] = IF i <= Len(b) THEN b[i] ELSE z[i - Len(b)]
      BY <1>1, <1>3, ByteConcat
    <3>2. u = b \o z
      BY <1>4
    <3> QED
      BY <3>1, <3>2
  <2>2. Len(u) = BlockSize /\ Len(b) + Len(z) = BlockSize
    BY <1>1, <1>3, <2>1
  <2>3. \A i \in 1..Len(b) : u[i] = c[Border(k - 1) + i]
    BY <1>1, <2>1, <2>2
  <2>4. ASSUME NEW i \in 1..BlockSize, u[i] = NewLine
        PROVE  i \in 1..Len(b)
    <3>1. CASE i > Len(b)
      <4>1. i - Len(b) \in 1..(BlockSize - Len(b))
        BY <1>1, <3>1
      <4>2. u[i] = 0
        BY SMTT(40), <1>1, <1>3, <2>1, <2>2, <3>1, <4>1
      <4> QED
        BY <2>4, <4>2 DEF NewLine
    <3>2. CASE ~(i > Len(b))
      BY <1>1, <3>2
    <3> QED
      BY <3>1, <3>2
  <2> QED
    BY <1>1, <2>1, <2>2, <2>3, <2>4 DEF b, u

\* Pieces of the buffer are pieces of the text.
LEMMA BufferSlices ==
    ASSUME NEW c \in Texts, NEW k \in 1..Count(Len(c)), NEW i \in Nat, NEW j \in Nat,
           i <= j, j <= Len(Block(c, k))
    PROVE  /\ Slice(BufferOf(c, k), i, j) = Slice(c, Border(k - 1) + i, Border(k - 1) + j)
           /\ Slice(BufferOf(c, k), i, j) \in ByteSeq
<1> DEFINE u == BufferOf(c, k)
           o == Border(k - 1)
           b == Block(c, k)
<1>1. /\ o \in Nat /\ c \in ByteSeq /\ Len(c) \in Nat /\ Len(b) \in Nat /\ o + Len(b) <= Len(c)
  <2>1. /\ o \in Nat /\ Len(b) \in 1..BlockSize /\ o + Len(b) = BlockEnd(c, k) /\ BlockEnd(c, k) <= Len(c)
        /\ BlockSize \in Nat
    BY BlockParts, FileAssumption
  <2>2. Len(b) \in Nat
    BY <2>1
  <2> HIDE DEF o, b
  <2> QED
    BY <2>1, <2>2, TextParts
<1>2. u \in ByteSeq /\ Len(u) \in Nat /\ Len(b) <= Len(u) /\ \A m \in 1..Len(b) : u[m] = c[o + m]
  BY BufferParts
<1> HIDE DEF u, o
<1>3. j <= Len(u) /\ o + i \in Nat /\ o + j \in Nat /\ o + i <= o + j /\ o + j <= Len(c)
      /\ (o + j) - (o + i) = j - i /\ j <= Len(b)
  BY <1>1, <1>2
<1> HIDE DEF b
<1> DEFINE s == Slice(u, i, j)
           t == Slice(c, o + i, o + j)
<1>4. s \in ByteSeq /\ Len(s) = j - i /\ \A m \in 1..(j - i) : s[m] = u[i + m]
  BY <1>2, <1>3, SliceProperties
<1>5. t \in ByteSeq /\ Len(t) = j - i /\ \A m \in 1..(j - i) : t[m] = c[o + i + m]
  <2>1. t \in ByteSeq /\ Len(t) = (o + j) - (o + i) /\ \A m \in 1..((o + j) - (o + i)) : t[m] = c[o + i + m]
    BY <1>1, <1>3, SliceProperties
  <2> QED
    BY <1>3, <2>1
<1> HIDE DEF s, t
<1>6. \A m \in 1..(j - i) : i + m \in 1..Len(b) /\ o + (i + m) = o + i + m
  BY <1>1, <1>3
<1>7. \A m \in 1..Len(s) : s[m] = t[m]
  BY SMTT(40), <1>2, <1>4, <1>5, <1>6
<1>8. s = t
  BY <1>4, <1>5, <1>7, BytesEqual
<1> QED
  BY <1>4, <1>8 DEF s, t, u, o

\* One round of ReadLine, by what is in the buffer.
LineEnds(l) == {i \in (readOffset(l) + 1)..l.length : l.buffer[i] = NewLine}

Behind(l, e) ==
    IF e = l.length THEN [[l EXCEPT !.at = e - 1, !.first = (e = 1)] EXCEPT !.length = 0, !.at = 0]
    ELSE [l EXCEPT !.at = e - 1, !.first = (e = 1)]

Unfinished(x) == x.data \o Slice(x.lines.buffer, readOffset(x.lines), x.lines.reader.blockSize)

\* The buffer after a block of another one was read into it.
Refilled(l, r, data) ==
    [[l EXCEPT !.reader = r, !.length = Len(data), !.at = 0,
               !.buffer = data \o Zeros(l.reader.blockSize - Len(data))]
       EXCEPT !.length = l.reader.blockSize, !.first = FALSE]

LEMMA RoundFinds ==
    ASSUME NEW x, NEW f, NEW e, x.lines.length \in Nat, readOffset(x.lines) \in Nat,
           e \in LineEnds(x.lines), \A j \in LineEnds(x.lines) : e <= j
    PROVE  ReadRound(x, f)
           = Line(Behind(x.lines, e),
                      x.data \o Slice(x.lines.buffer, readOffset(x.lines), e), "nil")
<1> DEFINE l == x.lines
           from == readOffset(l)
           ends == LineEnds(l)
           end == CHOOSE i \in ends : \A j \in ends : i <= j
<1>1. end = e
  <2>1. end \in ends /\ \A j \in ends : end <= j
    <3>1. e \in ends /\ \A j \in ends : e <= j
      OBVIOUS
    <3> HIDE DEF ends
    <3> QED
      BY <3>1
  <2>2. ends \subseteq Int
    BY DEF LineEnds
  <2> HIDE DEF end, ends
  <2>3. e \in Int /\ end \in Int /\ e <= end /\ end <= e
    BY <2>1, <2>2 DEF ends
  <2> QED
    BY <2>3
<1>2. ends # {}
  OBVIOUS
<1>3. ReadRound(x, f)
      = Line(IF end = l.length THEN [[l EXCEPT !.at = end - 1, !.first = (end = 1)]
                                           EXCEPT !.length = 0, !.at = 0]
                 ELSE [l EXCEPT !.at = end - 1, !.first = (end = 1)],
                 x.data \o Slice(l.buffer, from, end), "nil")
  BY <1>2 DEF ReadRound, LineEnds
<1> HIDE DEF end, ends, from
<1> QED
  BY <1>1, <1>3 DEF Behind, from

LEMMA RoundGoes ==
    ASSUME NEW x, NEW f, LineEnds(x.lines) = {},
           ~(readOffset(x.lines) > x.lines.reader.blockSize)
    PROVE  LET more == Read(x.lines.reader, x.lines.reader.blockSize, f) IN
           /\ x.lines.reader.totalSize = f.size =>
                 ReadRound(x, f) = Line(x.lines, Unfinished(x), "EOF")
           /\ x.lines.reader.totalSize # f.size /\ more.err = "nil" =>
                 ReadRound(x, f)
                 = Line(Refilled(x.lines, more.reader, more.data), Unfinished(x), "more")
<1> DEFINE l == x.lines
           from == readOffset(l)
           more == Read(l.reader, l.reader.blockSize, f)
           rest == x.data \o Slice(l.buffer, from, l.reader.blockSize)
           full == [Buffered(l, more) EXCEPT !.length = l.reader.blockSize, !.first = FALSE]
<1>1. {i \in (from + 1)..l.length : l.buffer[i] = NewLine} = {}
  BY DEF LineEnds
<1>3. rest = Unfinished(x)
  BY DEF Unfinished
<1>4. full = Refilled(l, more.reader, more.data)
  <2> HIDE DEF more
  <2> QED
    BY DEF Refilled, Buffered
<1>5. ReadRound(x, f)
      = IF l.reader.totalSize = f.size THEN Line(l, rest, "EOF")
        ELSE IF more.err # "nil" THEN Line(l, <<>>, more.err)
        ELSE Line(full, rest, "more")
  <2>1. ~(from > l.reader.blockSize)
    OBVIOUS
  <2> QED
    BY <1>1, <2>1 DEF ReadRound
<1> HIDE DEF rest, full, more
<1>6. /\ l.reader.totalSize = f.size => ReadRound(x, f) = Line(l, Unfinished(x), "EOF")
      /\ l.reader.totalSize # f.size /\ more.err = "nil" =>
            ReadRound(x, f) = Line(Refilled(l, more.reader, more.data), Unfinished(x), "more")
  BY <1>3, <1>4, <1>5
<1> QED
  BY <1>6 DEF more

LEMMA LeastExists ==
    ASSUME NEW S \in SUBSET Nat, S # {}
    PROVE  \E e \in S : \A j \in S : e <= j
<1> DEFINE R == {ss \in Nat \X Nat : ss[1] < ss[2]}
<1>1. IsWellFoundedOn(R, Nat)
  BY NatLessThanWellFounded DEF OpToRel
<1>2. \A x, y \in Nat : y < x => <<y, x>> \in R
  OBVIOUS
<1> HIDE DEF R
<1>3. PICK e \in S : \A y \in S : ~ (<<y, e>> \in R)
  <2>1. PICK z : z \in S
    OBVIOUS
  <2> QED
    BY <1>1, <2>1, WFMin
<1>4. ASSUME NEW j \in S
      PROVE  e <= j
  <2>1. e \in Nat /\ j \in Nat /\ ~(j < e)
    BY <1>2, <1>3
  <2> QED
    BY <2>1
<1> QED
  BY <1>4

\* What a reader that holds a block says of the text.
LEMMA HeldParts ==
    ASSUME NEW c \in Texts, NEW k \in 1..Count(Len(c)), NEW l, Holds(l, c, k)
    PROVE  /\ l \in LineReaders
           /\ l.length \in Nat /\ l.length > 0 /\ Len(Block(c, k)) <= l.length
           /\ k < Count(Len(c)) => l.length = Len(Block(c, k))
           /\ readOffset(l) \in Nat /\ readOffset(l) <= Len(Block(c, k))
           /\ Len(Block(c, k)) \in Nat /\ Border(k - 1) \in Nat
           /\ Place(l, k) \in Nat /\ Place(l, k) <= Len(c)
           /\ l.reader.blockSize = Len(Block(c, k)) /\ l.reader.totalSize = BlockEnd(c, k)
           /\ LineEnds(l) = {i \in (readOffset(l) + 1)..Len(Block(c, k)) :
                                c[Border(k - 1) + i] = NewLine}
<1> DEFINE b == Len(Block(c, k))
           o == Border(k - 1)
           j == readOffset(l)
           u == BufferOf(c, k)
<1>1. /\ b \in 1..BlockSize /\ BlockSize \in Nat /\ o \in Nat
      /\ o + b = BlockEnd(c, k) /\ BlockEnd(c, k) <= Len(c) /\ Len(c) \in Nat
  BY BlockParts, TextParts, FileAssumption
<1>2. /\ u \in ByteSeq /\ Len(u) \in Nat /\ b <= Len(u)
      /\ k < Count(Len(c)) => Len(u) = b
      /\ \A i \in 1..b : u[i] = c[o + i]
      /\ \A i \in 1..Len(u) : u[i] = NewLine => i \in 1..b
  BY BufferParts
<1>3. /\ l \in LineReaders /\ l.reader = ReaderAt(c, k) /\ l.buffer = u
      /\ l.length \in {b, Len(u)} /\ j \in 0..b
  BY DEF Holds
<1>4. l.reader.blockSize = b /\ l.reader.totalSize = BlockEnd(c, k)
  <2>1. k # 0
    OBVIOUS
  <2> QED
    BY <1>3, <2>1 DEF ReaderAt
<1>5. Place(l, k) = o + j
  BY DEF Place
<1> HIDE DEF b, o, j, u
<1>6. j \in Nat /\ j <= b /\ b \in Nat /\ b > 0
  BY <1>1, <1>3
<1>7. l.length \in Nat /\ l.length > 0 /\ b <= l.length /\ l.length <= Len(u)
      /\ (k < Count(Len(c)) => l.length = b)
  BY <1>1, <1>2, <1>3, <1>6
<1>8. LineEnds(l) = {i \in (j + 1)..b : c[o + i] = NewLine}
  <2>1. LineEnds(l) = {i \in (j + 1)..l.length : u[i] = NewLine}
    BY <1>3 DEF LineEnds, j
  <2>2. \A i \in (j + 1)..l.length : i \in 1..Len(u)
    BY <1>2, <1>6, <1>7
  <2>3. \A i \in (j + 1)..b : i \in (j + 1)..l.length /\ i \in 1..b
    BY <1>6, <1>7
  <2>4. \A i \in (j + 1)..l.length : i \in 1..b => i \in (j + 1)..b
    BY <1>6, <1>7
  <2> QED
    BY <1>2, <2>1, <2>2, <2>3, <2>4
<1>9. o + j \in Nat /\ o + j <= Len(c)
  BY <1>1, <1>6
<1> QED
  BY <1>1, <1>3, <1>4, <1>5, <1>6, <1>7, <1>8, <1>9 DEF b, o, j, u

LEMMA BehindParts ==
    ASSUME NEW l \in LineReaders, NEW e \in Nat, e > 0
    PROVE  LET m == Behind(l, e) IN
           /\ m \in LineReaders /\ m.reader = l.reader
           /\ e = l.length => m.length = 0 /\ m.at = 0 /\ (m.first => e = 1)
           /\ e # l.length => /\ m.length = l.length /\ m.buffer = l.buffer
                              /\ readOffset(m) = e
<1> DEFINE m == [l EXCEPT !.at = e - 1, !.first = (e = 1)]
           n == [m EXCEPT !.length = 0, !.at = 0]
<1>1. /\ m \in LineReaders /\ m.reader = l.reader /\ m.buffer = l.buffer /\ m.length = l.length
      /\ m.at = e - 1 /\ (m.first <=> e = 1)
  <2>0. e - 1 \in Nat
    OBVIOUS
  <2>1. CASE e = 1
    <3>1. m = [l EXCEPT !.at = e - 1, !.first = TRUE]
      BY <2>1
    <3> HIDE DEF m
    <3> QED
      BY <2>0, <2>1, <3>1 DEF LineReaders
  <2>2. CASE e # 1
    <3>1. m = [l EXCEPT !.at = e - 1, !.first = FALSE]
      BY <2>2
    <3> HIDE DEF m
    <3> QED
      BY <2>0, <2>2, <3>1 DEF LineReaders
  <2> QED
    BY <2>1, <2>2
<1>2. Behind(l, e) = IF e = l.length THEN n ELSE m
  BY DEF Behind
<1> HIDE DEF m
<1>3. n \in LineReaders /\ n.reader = m.reader /\ n.length = 0 /\ n.at = 0 /\ n.first = m.first
  BY <1>1 DEF LineReaders
<1> HIDE DEF n
<1>4. readOffset(m) = e
  <2>1. m.at # 0 \/ m.first
    BY <1>1
  <2> QED
    BY <1>1, <2>1 DEF readOffset
<1>5. CASE e = l.length
  <2>1. Behind(l, e) = n
    BY <1>2, <1>5
  <2>2. /\ n \in LineReaders /\ n.reader = l.reader
        /\ n.length = 0 /\ n.at = 0 /\ (n.first => e = 1)
    BY <1>1, <1>3
  <2> QED
    BY <1>5, <2>1, <2>2
<1>6. CASE e # l.length
  <2>1. Behind(l, e) = m
    BY <1>2, <1>6
  <2> QED
    BY <1>1, <1>4, <1>6, <2>1
<1> QED
  BY <1>5, <1>6

\* A newline in the buffer ends the line.  A buffer of one byte would keep `first`
\* of the line before.
LEMMA RoundFindsLine ==
    ASSUME BlockSize > 1, NEW c \in Texts, NEW p \in Nat, NEW k \in 1..Count(Len(c)),
           NEW x \in Results, Going(x, c, p, k), LineEnds(x.lines) # {}
    PROVE  /\ ReadRound(x, FileOf(c)) \in Results
           /\ Found(ReadRound(x, FileOf(c)), c, p)
<1> DEFINE f == FileOf(c)
           l == x.lines
           b == Len(Block(c, k))
           o == Border(k - 1)
           j == readOffset(l)
           y == ReadRound(x, f)
<1>0. /\ x.err = "more" /\ Holds(l, c, k) /\ p <= Place(l, k) /\ Place(l, k) = o + j
      /\ x.data = Slice(c, p, Place(l, k)) /\ NoLine(c, p, Place(l, k))
      /\ c \in ByteSeq /\ Len(c) \in Nat /\ l \in LineReaders /\ x.data \in ByteSeq
  BY TextParts DEF Going, Place, Results
<1>1. /\ l.length \in Nat /\ l.length > 0 /\ b <= l.length
      /\ k < Count(Len(c)) => l.length = b
      /\ j \in Nat /\ j <= b /\ b \in Nat /\ o \in Nat
      /\ Place(l, k) \in Nat /\ Place(l, k) <= Len(c)
      /\ LineEnds(l) = {i \in (j + 1)..b : c[o + i] = NewLine}
  BY <1>0, HeldParts
<1>2. /\ b \in 1..BlockSize /\ o + b = BlockEnd(c, k) /\ BlockEnd(c, k) <= Len(c)
      /\ k < Count(Len(c)) => b = BlockSize
  BY BlockParts
<1>3. PICK e \in LineEnds(l) : \A i \in LineEnds(l) : e <= i
  <2>1. LineEnds(l) \in SUBSET Nat
    <3>1. \A i \in (j + 1)..b : i \in Nat
      BY <1>1
    <3> QED
      BY <1>1, <3>1
  <2> QED
    BY <2>1, LeastExists
<1> DEFINE q == o + e
<1>4. y = Line(Behind(l, e), x.data \o Slice(l.buffer, j, e), "nil")
  BY <1>1, <1>3, RoundFinds
<1> HIDE DEF y, l, b, o, j, f
<1>5. e \in Nat /\ j < e /\ e <= b /\ e > 0 /\ c[q] = NewLine /\ q \in Nat /\ q <= Len(c)
      /\ o + j < q /\ p < q
  BY SMTT(40), <1>0, <1>1, <1>2, <1>3
<1>6. IsLine(c, p, q)
  <2>1. q \in (p + 1)..Len(c)
    BY <1>0, <1>5
  <2>2. ASSUME NEW i \in (p + 1)..(q - 1)
        PROVE  c[i] # NewLine
    <3>1. CASE i <= o + j
      <4>1. i \in (p + 1)..(o + j)
        BY <1>1, <3>1
      <4> QED
        BY <1>0, <4>1 DEF NoLine
    <3>2. CASE ~(i <= o + j)
      <4>1. i - o \in (j + 1)..b /\ o + (i - o) = i /\ ~(e <= i - o)
        BY <1>1, <1>5, <3>2
      <4> QED
        BY <1>1, <1>3, <4>1
    <3> QED
      BY <3>1, <3>2
  <2> HIDE DEF q
  <2> QED
    BY <1>5, <2>1, <2>2 DEF IsLine, NoLine
<1>7. x.data \o Slice(l.buffer, j, e) = Slice(c, p, q) /\ Slice(c, p, q) \in ByteSeq
  <2>1. Slice(l.buffer, j, e) = Slice(c, o + j, o + e)
    <3>1. l.buffer = BufferOf(c, k)
      BY <1>0 DEF Holds
    <3>2. j <= e
      BY <1>1, <1>5
    <3> QED
      BY <1>1, <1>5, <3>1, <3>2, BufferSlices DEF o, b
  <2>2. o + j \in Nat /\ p <= o + j /\ o + j <= q /\ p <= q
    BY <1>0, <1>1, <1>5
  <2> HIDE DEF q
  <2>3. Slice(c, p, o + j) \o Slice(c, o + j, q) = Slice(c, p, q)
    BY ZenonT(40), <1>0, <1>5, <2>2, SliceConcat
  <2>4. Slice(c, p, q) \in ByteSeq
    BY <1>0, <1>5, <2>2, SliceProperties
  <2> QED
    BY <1>0, <2>1, <2>3, <2>4 DEF q
<1>8. AtLine(Behind(l, e), c, q) /\ Behind(l, e) \in LineReaders
  <2> DEFINE m == Behind(l, e)
  <2>0. /\ m \in LineReaders /\ m.reader = l.reader
        /\ e = l.length => m.length = 0 /\ m.at = 0 /\ (m.first => e = 1)
        /\ e # l.length => /\ m.length = l.length /\ m.buffer = l.buffer
                           /\ readOffset(m) = e
    BY <1>0, <1>5, BehindParts
  <2> HIDE DEF m, q
  <2>1. CASE e = l.length
    <3>1. e = b
      BY <1>1, <1>5, <2>1
    <3>2. q = BlockEnd(c, k)
      BY <1>2, <3>1 DEF q
    <3>3. m.first => k = Count(Len(c))
      <4>1. SUFFICES ASSUME e = 1, k # Count(Len(c)) PROVE FALSE
        BY <2>0, <2>1
      <4>2. Count(Len(c)) \in Nat
        BY TextParts
      <4>3. k < Count(Len(c))
        BY <4>1, <4>2
      <4> QED
        BY <1>2, <3>1, <4>1, <4>3
    <3>4. k \in 0..Count(Len(c))
      OBVIOUS
    <3>5. m.reader = ReaderAt(c, k)
      BY <1>0, <2>0 DEF Holds
    <3>6. AtLine(m, c, q)
      BY <2>0, <2>1, <3>2, <3>3, <3>4, <3>5 DEF AtLine
    <3> QED
      BY <2>0, <3>6 DEF m
  <2>2. CASE e # l.length
    <3>1. e \in 0..b
      BY <1>1, <1>5
    <3>2. Holds(m, c, k)
      BY <1>0, <2>0, <2>2, <3>1 DEF Holds, b
    <3>3. q = Place(m, k)
      BY <2>0, <2>2 DEF Place, o, q
    <3>4. AtLine(m, c, q)
      BY <2>0, <3>2, <3>3 DEF AtLine
    <3> QED
      BY <2>0, <3>4 DEF m
  <2> QED
    BY <2>1, <2>2
<1>9. y \in Results /\ y.lines = Behind(l, e) /\ y.data = Slice(c, p, q) /\ y.err = "nil"
  <2>1. y = [lines |-> Behind(l, e), data |-> Slice(c, p, q), err |-> "nil"]
    BY <1>4, <1>7 DEF Line
  <2> HIDE DEF q
  <2> QED
    BY <1>7, <1>8, <2>1 DEF Results
<1> HIDE DEF q
<1>10. FoundTo(y, c, p, q)
  BY <1>6, <1>8, <1>9 DEF FoundTo
<1>11. Found(y, c, p)
  BY <1>5, <1>10 DEF Found
<1> QED
  BY <1>9, <1>11 DEF y, f

\* Without one, ReadLine is at the end of the file or goes on with the next block.
LEMMA RoundReadsOn ==
    ASSUME NEW c \in Texts, NEW p \in Nat, p <= Len(c), NEW k \in 1..Count(Len(c)),
           NEW x \in Results, Going(x, c, p, k), LineEnds(x.lines) = {}
    PROVE  LET y == ReadRound(x, FileOf(c)) IN
           /\ y \in Results
           /\ k = Count(Len(c)) => Ended(y, c, p)
           /\ k < Count(Len(c)) => Going(y, c, p, k + 1)
<1> DEFINE f == FileOf(c)
           N == Count(Len(c))
           l == x.lines
           b == Len(Block(c, k))
           o == Border(k - 1)
           j == readOffset(l)
           y == ReadRound(x, f)
           more == Read(l.reader, l.reader.blockSize, f)
<1>0. /\ x.err = "more" /\ Holds(l, c, k) /\ p <= Place(l, k) /\ Place(l, k) = o + j
      /\ x.data = Slice(c, p, Place(l, k)) /\ NoLine(c, p, Place(l, k))
      /\ c \in ByteSeq /\ Len(c) \in Nat /\ l \in LineReaders /\ x.data \in ByteSeq
      /\ N \in Nat
  BY TextParts DEF Going, Place, Results
<1>1. /\ k < N => l.length = b
      /\ j \in Nat /\ j <= b /\ b \in Nat /\ o \in Nat
      /\ LineEnds(l) = {i \in (j + 1)..b : c[o + i] = NewLine}
      /\ l.reader.blockSize = b /\ l.reader.totalSize = BlockEnd(c, k)
  <2>1. Holds(l, c, k)
    BY <1>0
  <2> HIDE DEF l
  <2>2. /\ k < N => l.length = b
        /\ j \in Nat /\ j <= b /\ b \in Nat /\ o \in Nat
        /\ l.reader.blockSize = b /\ l.reader.totalSize = BlockEnd(c, k)
    BY <2>1, HeldParts
  <2>3. LineEnds(l) = {i \in (j + 1)..b : c[o + i] = NewLine}
    BY <2>1, HeldParts
  <2> QED
    BY <2>2, <2>3
<1>2. /\ b \in 1..BlockSize /\ o + b = BlockEnd(c, k) /\ BlockEnd(c, k) <= Len(c)
      /\ k < N => b = BlockSize /\ BlockEnd(c, k) = Border(k) /\ BlockEnd(c, k) < Len(c)
      /\ k = N => BlockEnd(c, k) = Len(c)
  BY BlockParts
<1>3. /\ BlockEnd(c, k) = Len(c) => y = Line(l, Unfinished(x), "EOF")
      /\ BlockEnd(c, k) # Len(c) /\ more.err = "nil" =>
            y = Line(Refilled(l, more.reader, more.data), Unfinished(x), "more")
  <2>1. ~(j > l.reader.blockSize)
    BY <1>1
  <2>2. f.size = Len(c)
    BY <1>0, FileParts
  <2> QED
    BY <1>1, <2>1, <2>2, RoundGoes
<1> HIDE DEF y, l, b, o, j, f, N, more
<1>4. Unfinished(x) = Slice(c, p, o + b) /\ Slice(c, p, o + b) \in ByteSeq
  <2>1. l.buffer = BufferOf(c, k)
    BY <1>0 DEF Holds
  <2>2. b <= b
    BY <1>1
  <2>3. Slice(l.buffer, j, b) = Slice(c, o + j, o + b)
    BY <1>1, <2>1, <2>2, BufferSlices DEF o, b
  <2>4. o + j \in Nat /\ o + b \in Nat /\ p <= o + j /\ o + j <= o + b /\ o + b <= Len(c) /\ p <= o + b
    BY <1>0, <1>1, <1>2
  <2>5. Slice(c, p, o + j) \o Slice(c, o + j, o + b) = Slice(c, p, o + b)
    BY ZenonT(40), <1>0, <2>4, SliceConcat
  <2>6. Slice(c, p, o + b) \in ByteSeq
    BY <1>0, <2>4, SliceProperties
  <2>7. Unfinished(x) = x.data \o Slice(l.buffer, j, b)
    BY <1>1 DEF Unfinished, l, j
  <2> QED
    BY <1>0, <2>3, <2>5, <2>6, <2>7
<1>5. NoLine(c, p, o + b)
  <2>1. ASSUME NEW i \in (p + 1)..(o + b)
        PROVE  c[i] # NewLine
    <3>1. CASE i <= o + j
      <4>1. i \in (p + 1)..(o + j)
        BY <1>1, <3>1
      <4> QED
        BY <1>0, <4>1 DEF NoLine
    <3>2. CASE ~(i <= o + j)
      <4>1. i - o \in (j + 1)..b /\ o + (i - o) = i
        BY <1>1, <3>2
      <4>2. i - o \notin LineEnds(l)
        BY DEF l
      <4> QED
        BY <1>1, <4>1, <4>2
    <3> QED
      BY <3>1, <3>2
  <2> QED
    BY <2>1 DEF NoLine
<1>6. CASE k = N
  <2>1. y = Line(l, Unfinished(x), "EOF") /\ o + b = Len(c)
    BY <1>2, <1>3, <1>6
  <2>2. y = [lines |-> l, data |-> Unfinished(x), err |-> "EOF"]
    BY <2>1 DEF Line
  <2>3. y \in Results /\ y.err = "EOF"
    BY <1>0, <1>4, <2>2 DEF Results
  <2>4. NoLine(c, p, Len(c))
    BY <1>5, <2>1
  <2>5. ~(k < N)
    BY <1>0, <1>6
  <2> QED
    BY <2>3, <2>4, <2>5 DEF Ended, y, f, N
<1>7. CASE k < N
  <2> DEFINE d == Block(c, k + 1)
             s == ReaderAt(c, k + 1)
             m == Refilled(l, s, d)
  <2>0. k + 1 \in 1..N /\ k + 1 \in 0..N /\ (k + 1) - 1 = k /\ k + 1 # 1 /\ k \in 0..N
    BY <1>0, <1>7
  <2>1. more = Answer(s, d, "nil")
    <3>1. l.reader = ReaderAt(c, k)
      BY <1>0 DEF Holds
    <3>2. Read(ReaderAt(c, k), ReaderAt(c, k).blockSize, f) = Answer(s, d, "nil")
      BY <1>7, <2>0, ReadsBlock DEF f, N
    <3> QED
      BY <3>1, <3>2 DEF more
  <2>2. y = Line(m, Unfinished(x), "more")
    <3>1. BlockEnd(c, k) # Len(c)
      BY <1>0, <1>2, <1>7
    <3>2. more.err = "nil" /\ more.reader = s /\ more.data = d
      BY <2>1 DEF Answer
    <3> HIDE DEF s, d
    <3> QED
      BY <1>3, <3>1, <3>2
  <2>3. s \in Readers /\ d \in ByteSeq /\ Len(d) \in 1..BlockSize /\ BlockSize \in Nat
    BY <2>0, ReadersAt, BlockParts, FileAssumption DEF N
  <2>4. /\ BufferOf(c, k + 1) = d \o Zeros(BlockSize - Len(d))
        /\ BufferOf(c, k + 1) \in ByteSeq /\ Len(BufferOf(c, k + 1)) = BlockSize
    BY <2>0, BufferParts DEF N, BufferOf
  <2> HIDE DEF s, d
  <2>5. l.reader.blockSize = BlockSize
    BY <1>1, <1>2, <1>7
  <2>6. m = [[l EXCEPT !.reader = s, !.length = Len(d), !.at = 0, !.buffer = BufferOf(c, k + 1)]
               EXCEPT !.length = BlockSize, !.first = FALSE]
    BY <2>4, <2>5 DEF Refilled
  <2> HIDE DEF m
  <2>7. /\ m \in LineReaders /\ m.reader = s /\ m.buffer = BufferOf(c, k + 1)
        /\ m.length = BlockSize /\ m.at = 0 /\ m.first = FALSE
    BY <1>0, <2>3, <2>4, <2>6 DEF LineReaders
  <2>8. readOffset(m) = 0
    BY <2>7 DEF readOffset
  <2>9. Holds(m, c, k + 1)
    <3>1. 0 \in 0..Len(d)
      BY <2>3
    <3> QED
      BY <2>4, <2>7, <2>8, <3>1 DEF Holds, s, d
  <2>10. Place(m, k + 1) = o + b
    <3>1. Place(m, k + 1) = Border(k) + 0
      BY <2>0, <2>8 DEF Place
    <3>2. o + b = Border(k) /\ o + b \in Nat
      BY <1>1, <1>2, <1>7
    <3> QED
      BY <3>1, <3>2
  <2>11. y = [lines |-> m, data |-> Slice(c, p, o + b), err |-> "more"]
    BY <1>4, <2>2 DEF Line
  <2>12. y \in Results /\ y.lines = m /\ y.data = Slice(c, p, o + b) /\ y.err = "more"
    BY <1>4, <2>7, <2>11 DEF Results
  <2>13. p <= o + b
    BY <1>0, <1>1
  <2>14. Going(y, c, p, k + 1)
    BY <1>5, <2>9, <2>10, <2>12, <2>13 DEF Going
  <2>15. k # N
    BY <1>0, <1>7
  <2> QED
    BY <2>12, <2>14, <2>15 DEF y, f, N
<1>8. k = N \/ k < N
  BY <1>0 DEF N
<1> QED
  BY <1>6, <1>7, <1>8

LEMMA RoundReads ==
    ASSUME BlockSize > 1, NEW c \in Texts, NEW p \in Nat, p <= Len(c),
           NEW k \in 1..Count(Len(c)), NEW x \in Results, Going(x, c, p, k)
    PROVE  LET y == ReadRound(x, FileOf(c)) IN
           /\ y \in Results
           /\ \/ Found(y, c, p)
              \/ Ended(y, c, p)
              \/ k < Count(Len(c)) /\ Going(y, c, p, k + 1)
<1>1. CASE LineEnds(x.lines) # {}
  BY <1>1, RoundFindsLine
<1>2. CASE LineEnds(x.lines) = {}
  <2>1. k = Count(Len(c)) \/ k < Count(Len(c))
    BY TextParts
  <2> QED
    BY <1>2, <2>1, RoundReadsOn
<1> QED
  BY <1>1, <1>2

\* The rounds of ReadLine.
ReadMoreOf(x, f) == IF x.err # "more" THEN x ELSE ReadRound(x, f)

RoundsOf(l, f) ==
    CHOOSE g : g = [k \in 0..Len(f.blocks) + 1 |->
                       IF k = 0 THEN Line(l, <<>>, "more") ELSE ReadMoreOf(g[k - 1], f)]

LEMMA RoundsAre ==
    ASSUME NEW c \in Texts, NEW l, NEW V, Line(l, <<>>, "more") \in V,
           \A x \in V : ReadMoreOf(x, FileOf(c)) \in V
    PROVE  LET g == RoundsOf(l, FileOf(c))
               n == Count(Len(c)) + 1
           IN  /\ ReadOn(l, FileOf(c)) = g[n]
               /\ g[0] = Line(l, <<>>, "more")
               /\ \A i \in 1..n : g[i] = ReadMoreOf(g[i - 1], FileOf(c))
               /\ \A i \in 0..n : g[i] \in V
<1> DEFINE f == FileOf(c)
           g == RoundsOf(l, f)
           n == Count(Len(c)) + 1
           first == Line(l, <<>>, "more")
           Step == [x \in V |-> ReadMoreOf(x, f)]
<1>1. n \in Nat /\ n = Len(f.blocks) + 1
  BY TextParts, FileParts
<1>2. ReadOn(l, f) = g[n]
  <2>1. ReadOn(l, f) = g[Len(f.blocks) + 1]
    <3> HIDE DEF f
    <3> QED
      BY DEF ReadOn, RoundsOf, ReadMoreOf
  <2> QED
    BY <1>1, <2>1
<1>3. first \in V /\ Step \in [V -> V]
  OBVIOUS
<1> HIDE DEF first
<1>4. PICK h \in [0..n -> V] : IsLoop(h, n, first, Step)
  <2> HIDE DEF Step, n
  <2> QED
    BY <1>1, <1>3, LoopExists
<1>5. h = [i \in 0..n |-> IF i = 0 THEN first ELSE ReadMoreOf(h[i - 1], f)]
  <2>1. ASSUME NEW i \in 0..n, i # 0
        PROVE  Step[h[i - 1]] = ReadMoreOf(h[i - 1], f)
    <3>1. i - 1 \in 0..n
      BY <1>1, <2>1
    <3> HIDE DEF n
    <3> QED
      BY <3>1
  <2> HIDE DEF Step
  <2> QED
    BY <1>4, <2>1 DEF IsLoop
<1>6. g = [i \in 0..n |-> IF i = 0 THEN first ELSE ReadMoreOf(g[i - 1], f)]
  <2>1. g = CHOOSE e : e = [i \in 0..n |-> IF i = 0 THEN first ELSE ReadMoreOf(e[i - 1], f)]
    <3> HIDE DEF f, n
    <3> QED
      BY <1>1 DEF RoundsOf, first
  <2> HIDE DEF g, f, n
  <2> QED
    BY <1>5, <2>1
<1> HIDE DEF f, g, n, Step
<1>7. g[0] = first /\ \A i \in 1..n : g[i] = ReadMoreOf(g[i - 1], f)
  <2>1. 0 \in 0..n
    BY <1>1
  <2>2. g[0] = first
    BY <1>6, <2>1
  <2>3. ASSUME NEW i \in 1..n
        PROVE  g[i] = ReadMoreOf(g[i - 1], f)
    <3>1. i \in 0..n /\ i # 0
      BY <1>1
    <3> QED
      BY <1>6, <3>1
  <2> QED
    BY <2>2, <2>3
<1> DEFINE T == {i \in 0..n : g[i] \in V}
<1>8. 0 \in T
  BY <1>1, <1>3, <1>7
<1>9. ASSUME NEW i \in 1..n, i - 1 \in T
      PROVE  i \in T
  <2>1. g[i] = ReadMoreOf(g[i - 1], f) /\ g[i - 1] \in V
    BY <1>7, <1>9
  <2>2. g[i] \in V
    BY <2>1 DEF f
  <2>3. i \in 0..n
    BY <1>1
  <2> QED
    BY <2>2, <2>3
<1> HIDE DEF T
<1>10. \A i \in 0..n : i \in T
  BY <1>1, <1>8, <1>9, LoopInduction
<1>11. \A i \in 0..n : g[i] \in V
  BY <1>10 DEF T
<1> QED
  BY <1>2, <1>7, <1>11 DEF f, g, n, first

\* A line that the first round ends.
LEMMA ReadOnFinds ==
    ASSUME NEW c \in Texts, NEW l,
           ReadRound(Line(l, <<>>, "more"), FileOf(c)).err # "more"
    PROVE  ReadOn(l, FileOf(c)) = ReadRound(Line(l, <<>>, "more"), FileOf(c))
<1> DEFINE f == FileOf(c)
           first == Line(l, <<>>, "more")
           y == ReadRound(first, f)
           V == {first, y}
           n == Count(Len(c)) + 1
           g == RoundsOf(l, f)
<1>1. n \in Nat /\ n > 0
  BY TextParts
<1>2. first.err = "more" /\ y.err # "more"
  BY DEF Line
<1>3. ReadMoreOf(first, f) = y /\ ReadMoreOf(y, f) = y
  <2> HIDE DEF first, f
  <2> QED
    BY <1>2 DEF ReadMoreOf
<1> HIDE DEF y, first
<1>4. first \in V /\ \A x \in V : ReadMoreOf(x, f) \in V
  BY <1>3
<1>5. /\ ReadOn(l, f) = g[n] /\ g[0] = first
      /\ \A i \in 1..n : g[i] = ReadMoreOf(g[i - 1], f)
      /\ \A i \in 0..n : g[i] \in V
  <2> HIDE DEF V, n
  <2> QED
    BY <1>4, RoundsAre DEF n, first
<1> HIDE DEF g, f, n
<1>6. g[n] = ReadMoreOf(g[n - 1], f) /\ g[n - 1] \in V
  <2>1. n \in 1..n /\ n - 1 \in 0..n
    BY <1>1
  <2> QED
    BY <1>5, <2>1
<1>7. g[n] = y
  BY <1>3, <1>6
<1> QED
  BY <1>5, <1>7 DEF f, first, y

\* The line that a reader is at, whichever blocks it is in.
LEMMA ReadOnReads ==
    ASSUME BlockSize > 1, NEW c \in Texts, NEW p \in Nat, p <= Len(c),
           NEW k \in 1..Count(Len(c)), NEW l, Holds(l, c, k), p = Place(l, k)
    PROVE  LET y == ReadOn(l, FileOf(c)) IN
           y \in Results /\ (Found(y, c, p) \/ Ended(y, c, p))
<1> DEFINE f == FileOf(c)
           N == Count(Len(c))
           n == N + 1
           first == Line(l, <<>>, "more")
           Good(x) == x \in Results /\ (Found(x, c, p) \/ Ended(x, c, p))
           V == {x \in Results : Good(x) \/ \E m \in 1..N : Going(x, c, p, m)}
           g == RoundsOf(l, f)
<1>0. N \in Nat /\ Len(c) \in Nat /\ c \in ByteSeq /\ l \in LineReaders
  BY TextParts DEF Holds
<1>1. first \in Results /\ Going(first, c, p, k) /\ first.err = "more"
  <2>1. <<>> \in ByteSeq /\ Slice(c, p, p) = <<>>
    <3>1. p \in 0..Len(c)
      BY <1>0
    <3> QED
      BY <1>0, <3>1, SliceAll, EmptySeq DEF ByteSeq
  <2>2. first = [lines |-> l, data |-> <<>>, err |-> "more"]
    BY DEF Line
  <2> HIDE DEF first
  <2>3. first \in Results /\ first.lines = l /\ first.data = <<>> /\ first.err = "more"
    BY <1>0, <2>1, <2>2 DEF Results
  <2>4. NoLine(c, p, p)
    BY DEF NoLine
  <2>5. p <= p
    OBVIOUS
  <2> QED
    BY <2>1, <2>3, <2>4, <2>5 DEF Going
<1>2. ASSUME NEW x \in Results, NEW m \in 1..N, Going(x, c, p, m)
      PROVE  LET y == ReadMoreOf(x, f) IN
             Good(y) \/ (m < N /\ y \in Results /\ Going(y, c, p, m + 1))
  <2>1. ReadMoreOf(x, f) = ReadRound(x, f)
    BY <1>2 DEF ReadMoreOf, Going
  <2> QED
    BY <1>2, <2>1, RoundReads
<1>3. ASSUME NEW x, Good(x)
      PROVE  x.err # "more" /\ ReadMoreOf(x, f) = x
  <2>1. x.err # "more"
    BY <1>3 DEF Found, FoundTo, Ended
  <2> QED
    BY <2>1 DEF ReadMoreOf
<1>4. \A x : Good(x) => x \in Results
  OBVIOUS
<1> HIDE DEF Good, f, first
<1>5. first \in V /\ \A x \in V : ReadMoreOf(x, f) \in V
  <2>1. first \in V
    BY <1>1
  <2>2. ASSUME NEW x \in V
        PROVE  ReadMoreOf(x, f) \in V
    <3>1. CASE Good(x)
      BY <1>3, <3>1
    <3>2. ASSUME NEW m \in 1..N, Going(x, c, p, m)
          PROVE  ReadMoreOf(x, f) \in V
      <4>1. x \in Results
        OBVIOUS
      <4>2. Good(ReadMoreOf(x, f)) \/ (m < N /\ ReadMoreOf(x, f) \in Results /\ Going(ReadMoreOf(x, f), c, p, m + 1))
        BY <1>2, <3>2, <4>1
      <4>3. m < N => m + 1 \in 1..N
        BY <1>0
      <4> QED
        BY <1>4, <4>2, <4>3
    <3> QED
      BY <3>1, <3>2
  <2> QED
    BY <2>1, <2>2
<1> HIDE DEF V
<1>6. /\ ReadOn(l, f) = g[n] /\ g[0] = first
      /\ \A i \in 1..n : g[i] = ReadMoreOf(g[i - 1], f)
      /\ \A i \in 0..n : g[i] \in V
  BY <1>5, RoundsAre DEF first, f
<1> HIDE DEF g, n
<1>7. n \in Nat /\ n = N + 1
  BY <1>0 DEF n
<1> HIDE DEF N
<1> DEFINE T == {i \in 0..n : Good(g[i]) \/ \E m \in 1..N : m > i /\ Going(g[i], c, p, m)}
<1>8. 0 \in T
  <2>1. k \in 1..N /\ k > 0 /\ 0 \in 0..n
    BY <1>7 DEF N
  <2> QED
    BY <1>1, <1>6, <2>1
<1>9. ASSUME NEW i \in 1..n, i - 1 \in T
      PROVE  i \in T
  <2>1. i \in 0..n /\ i - 1 \in 0..n /\ i \in Nat
    BY <1>7
  <2>2. g[i] = ReadMoreOf(g[i - 1], f) /\ g[i - 1] \in V
    BY <1>6, <2>1
  <2>3. CASE Good(g[i - 1])
    <3>1. Good(g[i])
      BY <1>3, <2>2, <2>3
    <3> QED
      BY <2>1, <3>1
  <2>4. ASSUME NEW m \in 1..N, m > i - 1, Going(g[i - 1], c, p, m)
        PROVE  i \in T
    <3>1. g[i - 1] \in Results
      BY <2>2 DEF V
    <3>2. Good(g[i]) \/ (m < N /\ Going(g[i], c, p, m + 1))
      BY <1>2, <2>2, <2>4, <3>1
    <3>3. m < N => m + 1 \in 1..N /\ m + 1 > i
      BY <1>0, <2>1, <2>4
    <3> QED
      BY <2>1, <3>2, <3>3
  <2> QED
    BY <1>9, <2>3, <2>4
<1> HIDE DEF T
<1>10. n \in T
  <2>1. \A i \in 0..n : i \in T
    BY <1>7, <1>8, <1>9, LoopInduction
  <2>2. n \in 0..n
    BY <1>7
  <2> QED
    BY <2>1, <2>2
<1>11. Good(g[n])
  <2>1. \A m \in 1..N : ~(m > n)
    BY <1>0, <1>7
  <2> QED
    BY <1>10, <2>1 DEF T
<1> QED
  BY <1>6, <1>11 DEF Good, f

\* ReadLine with an empty buffer, by what the Read says.
FilledFrom(l, r, data) ==
    [l EXCEPT !.reader = r, !.length = Len(data), !.at = 0,
              !.buffer = data \o Zeros(l.reader.blockSize - Len(data))]

LEMMA ReadLineFills ==
    ASSUME NEW l, NEW f, l.length = 0, NEW r, NEW data, NEW err,
           Read(l.reader, l.reader.blockSize, f) = Answer(r, data, err)
    PROVE  ReadLine(l, f)
           = IF err = "EOF" /\ (data = <<>> \/ data[Len(data)] # NewLine)
             THEN Line([l EXCEPT !.reader = r], <<>>, "EOF")
             ELSE ReadOn(FilledFrom(l, r, data), f)
<1> DEFINE a == Read(l.reader, l.reader.blockSize, f)
<1>1. a.reader = r /\ a.data = data /\ a.err = err
  <2>1. a = Answer(r, data, err)
    OBVIOUS
  <2> HIDE DEF a
  <2> QED
    BY <2>1 DEF Answer
<1>2. Buffered(l, a) = FilledFrom(l, r, data)
  <2> HIDE DEF a
  <2> QED
    BY <1>1 DEF Buffered, FilledFrom
<1>3. ReadLine(l, f)
      = IF a.err = "EOF" /\ (a.data = <<>> \/ Last(a.data) # NewLine)
        THEN Line([l EXCEPT !.reader = a.reader], <<>>, "EOF")
        ELSE ReadOn(Buffered(l, a), f)
  <2>1. ~(l.length # 0)
    OBVIOUS
  <2> QED
    BY <2>1 DEF ReadLine, Last
<1>4. Last(data) = data[Len(data)]
  BY DEF Last
<1> HIDE DEF a
<1> QED
  BY <1>1, <1>2, <1>3, <1>4

\* Each ReadLine gives the next line, and says so at the end of the file.
LEMMA ReadLineReads ==
    ASSUME BlockSize > 1, NEW c \in Texts, NEW l, NEW p, AtLine(l, c, p)
    PROVE  LET y == ReadLine(l, FileOf(c)) IN
           p \in Nat /\ p <= Len(c) /\ (Found(y, c, p) \/ Ended(y, c, p))
<1> DEFINE f == FileOf(c)
           N == Count(Len(c))
           y == ReadLine(l, f)
<1>0. N \in Nat /\ Len(c) \in Nat /\ l \in LineReaders /\ BlockEnd(c, N) = Len(c)
  BY TextParts DEF AtLine
<1>1. ASSUME NEW k \in 1..N, Holds(l, c, k), p = Place(l, k)
      PROVE  p \in Nat /\ p <= Len(c) /\ (Found(y, c, p) \/ Ended(y, c, p))
  <2>1. p \in Nat /\ p <= Len(c) /\ l.length # 0
    <3>1. Place(l, k) \in Nat /\ Place(l, k) <= Len(c) /\ l.length \in Nat /\ l.length > 0
      BY <1>1, HeldParts
    <3> QED
      BY <1>1, <3>1
  <2>2. y = ReadOn(l, f)
    BY <2>1 DEF ReadLine
  <2> QED
    BY <1>1, <2>1, <2>2, ReadOnReads
<1>2. ASSUME NEW k \in 0..N, l.reader = ReaderAt(c, k), l.length = 0, l.at = 0,
             p = BlockEnd(c, k), l.first => k = N
      PROVE  p \in Nat /\ p <= Len(c) /\ (Found(y, c, p) \/ Ended(y, c, p))
  <2>0. k \in Nat /\ (k < N \/ k = N)
    BY <1>0
  <2>1. CASE k = N
    <3>1. Read(l.reader, l.reader.blockSize, f) = Answer(l.reader, <<>>, "EOF")
      BY <1>2, <2>1, ReadsEnd
    <3>2. y = Line([l EXCEPT !.reader = l.reader], <<>>, "EOF")
      <4> HIDE DEF f
      <4> QED
        BY <1>2, <3>1, ReadLineFills
    <3>3. y.err = "EOF"
      BY <3>2 DEF Line
    <3>4. p = Len(c)
      BY <1>0, <1>2, <2>1
    <3> HIDE DEF y
    <3>5. NoLine(c, p, Len(c))
      BY <1>0, <3>4 DEF NoLine
    <3> QED
      BY <1>0, <3>3, <3>4, <3>5 DEF Ended
  <2>2. CASE k < N
    <3> DEFINE s == ReaderAt(c, k + 1)
               d == Block(c, k + 1)
               m == FilledFrom(l, s, d)
    <3>0. k + 1 \in 1..N /\ k + 1 \in 0..N /\ (k + 1) - 1 = k /\ k # N
      BY <1>0, <2>0, <2>2
    <3>1. Read(l.reader, l.reader.blockSize, f) = Answer(s, d, "nil")
      BY <1>2, <2>2, ReadsBlock
    <3>2. y = ReadOn(m, f)
      <4>1. PICK err : err = "nil" /\ err # "EOF"
        OBVIOUS
      <4> HIDE DEF f, s, d
      <4>2. Read(l.reader, l.reader.blockSize, f) = Answer(s, d, err)
        BY <3>1, <4>1
      <4>3. y = IF err = "EOF" /\ (d = <<>> \/ d[Len(d)] # NewLine)
                THEN Line([l EXCEPT !.reader = s], <<>>, "EOF") ELSE ReadOn(m, f)
        BY <1>2, <4>2, ReadLineFills
      <4> QED
        BY <4>1, <4>3
    <3>3. /\ s \in Readers /\ d \in ByteSeq /\ Len(d) \in 1..BlockSize /\ BlockSize \in Nat
          /\ BufferOf(c, k + 1) \in ByteSeq
          /\ Border(k) = BlockEnd(c, k) /\ Border(k) \in Nat /\ Border(k) < Len(c)
      BY <3>0, ReadersAt, BlockParts, BufferParts, FileAssumption
    <3>4. BufferOf(c, k + 1) = d \o Zeros(l.reader.blockSize - Len(d))
      <4>1. CASE k = 0
        BY <1>2, <4>1 DEF ReaderAt, BufferOf
      <4>2. CASE k # 0
        <5>1. k \in 1..N
          BY <1>0, <2>0, <4>2
        <5>2. Len(Block(c, k)) = BlockSize
          BY <2>2, <5>1, BlockParts
        <5>3. l.reader.blockSize = BlockSize
          BY <1>2, <4>2, <5>2 DEF ReaderAt
        <5> QED
          BY <5>3 DEF BufferOf
      <4> QED
        BY <4>1, <4>2
    <3>5. ~l.first
      BY <1>2, <3>0
    <3> HIDE DEF s, d
    <3>6. m = [l EXCEPT !.reader = s, !.length = Len(d), !.at = 0, !.buffer = BufferOf(c, k + 1)]
      BY <3>4 DEF FilledFrom
    <3> HIDE DEF m
    <3>7. /\ m \in LineReaders /\ m.reader = s /\ m.buffer = BufferOf(c, k + 1)
          /\ m.length = Len(d) /\ m.at = 0 /\ m.first = l.first
      <4>1. Len(d) \in Nat /\ 0 \in Nat
        BY <3>3
      <4> QED
        BY <1>0, <3>3, <3>6, <4>1 DEF LineReaders
    <3>8. readOffset(m) = 0
      BY <3>5, <3>7 DEF readOffset
    <3>9. Holds(m, c, k + 1)
      <4>1. 0 \in 0..Len(d)
        BY <3>3
      <4> QED
        BY <3>7, <3>8, <4>1 DEF Holds, s, d
    <3>10. p = Place(m, k + 1)
      <4>1. Place(m, k + 1) = Border(k) + 0
        BY <3>0, <3>8 DEF Place
      <4> QED
        BY <1>2, <3>3, <4>1
    <3>11. p \in Nat /\ p <= Len(c)
      BY <1>0, <1>2, <3>3
    <3> QED
      BY <3>0, <3>2, <3>9, <3>10, <3>11, ReadOnReads
  <2> QED
    BY <2>0, <2>1, <2>2
<1>3. \/ \E k \in 0..N : l.reader = ReaderAt(c, k) /\ l.length = 0 /\ l.at = 0
                        /\ p = BlockEnd(c, k) /\ (l.first => k = N)
      \/ \E k \in 1..N : Holds(l, c, k) /\ p = Place(l, k)
  BY DEF AtLine
<1> HIDE DEF y, f, N
<1>4. p \in Nat /\ p <= Len(c) /\ (Found(y, c, p) \/ Ended(y, c, p))
  BY <1>1, <1>2, <1>3
<1> QED
  BY <1>4 DEF y, f

\* A new reader that is sought to o is not in the middle of the last block of a file
\* that does not end with a newline.
NotInTail(c, o) ==
    \/ c[Len(c)] = NewLine
    \/ o % BlockSize = 0
    \/ o \div BlockSize < (Len(c) - 1) \div BlockSize

\* A buffer of a block's piece takes as many bytes from any place, or all that are left.
LEMMA SeekReads ==
    ASSUME NEW c \in Texts, NEW o \in 0..(Len(c) - 1)
    PROVE  LET r == Seek(NewReader(FileOf(c)), o, FileOf(c)).reader
               a == Read(r, r.blockSize, FileOf(c))
           IN  /\ a = Answer(a.reader, a.data, a.err)
               /\ r.blockSize \in Nat
               /\ \E m \in 1..r.blockSize :
                     /\ o + m <= Len(c) /\ a.data = Slice(c, o, o + m)
                     /\ m = BlockSize \/ o + m = Len(c)
                     /\ a.err = "EOF" =>
                           /\ o + m = Len(c)
                           /\ NotInTail(c, o) => c[Len(c)] = NewLine
<1> DEFINE f == FileOf(c)
           r == Seek(NewReader(f), o, f).reader
           k == o \div BlockSize
           d == o % BlockSize
           N == Count(Len(c))
           b == Block(c, k + 1)
           n == Len(b)
           a == Read(r, n, f)
           left == From(b, d)
           rest == DropBlock(Advance(r, Len(left)))
<1>0. /\ BlockSize \in Nat \ {0} /\ c \in ByteSeq /\ Len(c) \in Nat /\ o \in Nat /\ o < Len(c)
      /\ N \in Nat
  BY TextParts, FileAssumption
<1>1. k \in Nat /\ o = BlockSize * k + d /\ d \in 0..(BlockSize - 1)
  BY <1>0, Division
<1> HIDE DEF k, d
<1>2. o = Border(k) + d /\ Border(k) \in Nat /\ d \in Nat
  <2>1. BlockSize * k = Border(k)
    BY <1>0, <1>1 DEF Border
  <2> QED
    BY <1>1, <2>1, Borders
<1>3. k + 1 \in 1..N /\ (k + 1) - 1 = k /\ (k + 1) + 1 = k + 2
  <2>1. Border(k) < Len(c)
    BY <1>0, <1>1, <1>2
  <2>2. k < N
    BY <1>0, <1>1, <2>1, Counting
  <2> QED
    BY <1>0, <1>1, <2>2
<1>4. /\ b \in ByteSeq /\ n \in 1..BlockSize /\ Border(k) + n = BlockEnd(c, k + 1)
      /\ k + 1 < N => BlockEnd(c, k + 1) = Border(k + 1) /\ BlockEnd(c, k + 1) < Len(c) /\ n = BlockSize
      /\ k + 1 = N => BlockEnd(c, k + 1) = Len(c)
  BY <1>3, BlockParts
<1>5. f.blocks[k + 1] = b /\ Len(f.blocks) = N /\ f.size = Len(c) /\ f.blockSize = BlockSize
  BY <1>0, <1>3, FileParts
<1>6. Seek(NewReader(f), o, f)
      = Answer([readOffset |-> o, lastBlock |-> b, blockSize |-> n, blockCursor |-> d,
                totalSize |-> o], <<>>, "nil")
  <2> DEFINE fresh == NewReader(f)
  <2>1. fresh.blockSize = BlockSize
    BY <1>5 DEF NewReader
  <2> HIDE DEF fresh
  <2>2. o \div fresh.blockSize = k /\ o % fresh.blockSize = d
    BY <2>1 DEF k, d
  <2> HIDE DEF f, b, N
  <2>3. ~(o > f.size) /\ ~(k >= Len(f.blocks))
    BY <1>0, <1>1, <1>3, <1>5
  <2>4. Seek(fresh, o, f)
        = Answer([readOffset |-> o, lastBlock |-> b, blockSize |-> n, blockCursor |-> d,
                  totalSize |-> o], <<>>, "nil")
    BY <1>5, <2>2, <2>3 DEF Seek
  <2> QED
    BY <2>4 DEF fresh
<1>7. r = [readOffset |-> o, lastBlock |-> b, blockSize |-> n, blockCursor |-> d, totalSize |-> o]
  <2> HIDE DEF b, n, f
  <2> QED
    BY <1>6 DEF Answer
<1>8. ReaderOK(r, c) /\ r.readOffset = o
  BY <1>0, SeekAnswers
<1> HIDE DEF r, f, b, N
<1>9. n \in Nat /\ n > 0 /\ n <= BlockSize
  BY <1>0, <1>4
<1> HIDE DEF n
<1>10. Answers(a, c, o, n)
  <2>1. n \in Nat \ {0}
    BY <1>9
  <2> QED
    BY <1>0, <1>8, <2>1, ReadAnswers DEF f
<1> HIDE DEF a
<1>11. PICK m \in 0..n :
          /\ o + m <= Len(c) /\ a.data = Slice(c, o, o + m)
          /\ \/ a.err = "EOF" /\ o + m = Len(c)
             \/ a.err = "nil" /\ m > 0
  BY <1>10 DEF Answers
<1>12. m \in Nat /\ Len(a.data) = m
  <2>1. o + m \in Nat /\ o <= o + m /\ (o + m) - o = m /\ m \in Nat
    BY <1>0, <1>9, <1>11
  <2>2. Len(Slice(c, o, o + m)) = (o + m) - o
    BY <1>0, <1>11, <2>1, SliceProperties
  <2> QED
    BY <1>11, <2>1, <2>2
<1>13. d < n
  <2>1. BlockEnd(c, k + 1) = Least(Border(k + 1), Len(c)) /\ Border(k + 1) = Border(k) + BlockSize
    BY <1>1, Borders DEF BlockEnd
  <2>2. CASE k + 1 < N
    BY <1>1, <1>4, <2>2
  <2>3. CASE k + 1 = N
    BY <1>0, <1>2, <1>4, <1>9, <2>3
  <2> QED
    BY <1>0, <1>1, <1>3, <2>2, <2>3
<1>14. left \in ByteSeq /\ Len(left) = n - d /\ left = Slice(b, d, n)
  <2>1. d \in 0..n
    BY <1>2, <1>13, <1>9
  <2>2. left = Slice(b, d, n)
    BY <1>4, <2>1, SliceAll DEF n
  <2>3. d <= n /\ n <= Len(b)
    BY <1>9, <1>13, <1>2 DEF n
  <2>4. Slice(b, d, n) \in ByteSeq /\ Len(Slice(b, d, n)) = n - d
    BY <1>2, <1>4, <1>9, <2>3, SliceProperties
  <2> QED
    BY <2>2, <2>4
<1> HIDE DEF left
<1>15. r.totalSize = o /\ r.lastBlock = b /\ r.blockCursor = d /\ r.readOffset = o /\ r.blockSize = n
  BY <1>7
<1>16. r.totalSize < f.size /\ ~(r.totalSize >= f.size) /\ ~(r.lastBlock = <<>>) /\ From(r.lastBlock, r.blockCursor) = left
  <2>1. b # <<>>
    BY <1>4, <1>9, ByteLen DEF n
  <2> QED
    BY <1>0, <1>5, <1>15, <2>1 DEF left
<1>17. a = IF n <= Len(left)
           THEN Answer(IF n = Len(left) THEN DropBlock(Advance(r, n))
                       ELSE [Advance(r, n) EXCEPT !.blockCursor = @ + n], Slice(left, 0, n), "nil")
           ELSE IF rest.totalSize >= f.size THEN Answer(rest, left, "EOF")
           ELSE ReadNextBlock(rest, n - Len(left), f, left)
  BY <1>16 DEF Read, a
<1>18. rest.totalSize = o + (n - d) /\ rest.readOffset = o + (n - d) /\ rest.blockSize = n
  <2>1. r \in Readers
    BY <1>8 DEF ReaderOK
  <2>2. rest = [[r EXCEPT !.readOffset = @ + Len(left), !.totalSize = @ + Len(left)]
                  EXCEPT !.lastBlock = <<>>, !.blockCursor = 0]
    BY DEF DropBlock, Advance
  <2> HIDE DEF rest
  <2> QED
    BY <1>14, <1>15, <2>1, <2>2 DEF Readers
<1>19. o + (n - d) = BlockEnd(c, k + 1)
  BY <1>2, <1>4, <1>9
<1> HIDE DEF rest
<1>20. /\ m = BlockSize \/ o + m = Len(c)
       /\ a.err = "EOF" => d # 0 /\ k + 1 = N
  <2>1. CASE d = 0
    <3>1. n <= Len(left)
      BY <1>9, <1>14, <2>1
    <3>2. a.data = Slice(left, 0, n) /\ a.err = "nil"
      BY <1>17, <3>1 DEF Answer
    <3>3. Len(Slice(left, 0, n)) = n - 0
      <4>1. 0 \in Nat /\ 0 <= n
        BY <1>9
      <4> QED
        BY <1>9, <1>14, <3>1, <4>1, SliceProperties
    <3>4. m = n
      BY <1>9, <1>12, <3>2, <3>3
    <3>5. CASE k + 1 < N
      BY <1>4, <3>2, <3>4, <3>5
    <3>6. CASE k + 1 = N
      BY <1>2, <1>4, <2>1, <3>2, <3>4, <3>6
    <3> QED
      BY <1>0, <1>1, <1>3, <3>5, <3>6
  <2>2. CASE d # 0
    <3>0. d > 0 /\ ~(n <= Len(left)) /\ n - Len(left) = d
      BY <1>2, <1>9, <1>14, <2>2
    <3>1. CASE k + 1 = N
      <4>1. rest.totalSize >= f.size
        BY <1>0, <1>4, <1>5, <1>18, <1>19, <3>1
      <4>2. a.data = left
        BY <1>17, <3>0, <4>1 DEF Answer
      <4>3. m = n - d
        BY <1>12, <1>14, <4>2
      <4> QED
        BY <1>4, <1>19, <2>2, <3>1, <4>3
    <3>2. CASE k + 1 < N
      <4> DEFINE e == Block(c, k + 2)
                 piece == Least(d, Len(e))
      <4>0. k + 2 \in 1..N /\ (k + 2) - 1 = k + 1 /\ k + 1 \in Nat
        BY <1>0, <1>1, <1>3, <3>2
      <4>1. /\ e \in ByteSeq /\ Len(e) \in 1..BlockSize /\ Border(k + 1) + Len(e) = BlockEnd(c, k + 2)
            /\ k + 2 < N => Len(e) = BlockSize
            /\ k + 2 = N => BlockEnd(c, k + 2) = Len(c)
            /\ f.blocks[k + 2] = e
        BY SMTT(40), <1>0, <4>0, BlockParts, FileParts DEF f, N
      <4>2. /\ BlockEnd(c, k + 1) = Border(k + 1) /\ BlockEnd(c, k + 1) < Len(c) /\ n = BlockSize
            /\ Border(k + 1) \in Nat
        BY <1>4, <3>2, <4>0, Borders
      <4>3. ~(rest.totalSize >= f.size)
        BY <1>0, <1>5, <1>18, <1>19, <4>2
      <4>4. a = ReadNextBlock(rest, d, f, left)
        BY <1>17, <3>0, <4>3
      <4>5. rest.readOffset \div rest.blockSize = k + 1
        <5>1. (Border(k + 1) + 0) \div BlockSize = k + 1
          <6>1. 0 < BlockSize
            BY <1>0
          <6> QED
            BY <4>0, <6>1, BorderQuotient
        <5>2. Border(k + 1) + 0 = Border(k + 1)
          BY <4>2
        <5> QED
          BY <1>18, <1>19, <4>2, <5>1, <5>2
      <4>6. ~(k + 1 >= Len(f.blocks))
        BY <1>0, <1>1, <1>5, <3>2
      <4>7. a.data = left \o Slice(e, 0, piece) /\ a.err = "nil"
        <5>1. f.blocks[(k + 1) + 1] = e
          BY <1>3, <4>1
        <5> HIDE DEF e
        <5>2. /\ ReadNextBlock(rest, d, f, left).data = left \o Slice(e, 0, piece)
              /\ ReadNextBlock(rest, d, f, left).err = "nil"
          BY <4>5, <4>6, <5>1 DEF ReadNextBlock, Answer
        <5> QED
          BY <4>4, <5>2
      <4> HIDE DEF e
      <4>8. piece \in Nat /\ piece <= Len(e) /\ (piece = d \/ (piece = Len(e) /\ Len(e) <= d))
        BY <1>2, <4>1 DEF Least
      <4> HIDE DEF piece
      <4>9. Slice(e, 0, piece) \in ByteSeq /\ Len(Slice(e, 0, piece)) = piece
        <5>1. 0 \in Nat /\ 0 <= piece
          BY <4>8
        <5>2. Slice(e, 0, piece) \in ByteSeq /\ Len(Slice(e, 0, piece)) = piece - 0
          BY <4>1, <4>8, <5>1, SliceProperties
        <5> QED
          BY <4>8, <5>2
      <4>10. m = (n - d) + piece
        <5>1. Len(left \o Slice(e, 0, piece)) = Len(left) + Len(Slice(e, 0, piece))
          BY <1>14, <4>9, ByteConcat
        <5> QED
          BY <1>12, <1>14, <4>7, <4>9, <5>1
      <4>11. CASE piece = d
        <5>1. (n - d) + d = n
          BY <1>2, <1>9
        <5> QED
          BY <4>2, <4>7, <4>10, <4>11, <5>1
      <4>12. CASE piece = Len(e) /\ Len(e) <= d
        <5>1. k + 2 = N
          <6>1. Len(e) # BlockSize
            BY <1>0, <1>1, <4>1, <4>12
          <6> QED
            BY <1>0, <4>0, <4>1, <6>1
        <5>2. o + m = (o + (n - d)) + piece
          BY <1>0, <1>2, <1>9, <4>8, <4>10
        <5> QED
          BY <1>19, <4>1, <4>2, <4>7, <4>12, <5>1, <5>2
      <4> QED
        BY <4>8, <4>11, <4>12
    <3> QED
      BY <1>0, <1>1, <1>3, <3>1, <3>2
  <2> QED
    BY <2>1, <2>2
<1>21. m \in 1..n
  <2>1. m # 0
    BY <1>0, <1>11, <1>12
  <2> QED
    BY <1>11, <1>12, <1>9, <2>1
<1>24. ASSUME a.err = "EOF"
       PROVE  o + m = Len(c) /\ (NotInTail(c, o) => c[Len(c)] = NewLine)
  <2>1. o + m = Len(c)
    BY <1>11, <1>24
  <2> DEFINE last == Len(c) - 1
             q == last \div BlockSize
  <2>2. last \in Nat /\ last < Len(c)
    BY <1>0
  <2> HIDE DEF last
  <2>3. q \in Nat /\ \E e \in 0..(BlockSize - 1) : last = BlockSize * q + e
    BY <1>0, <2>2, Division
  <2> HIDE DEF q
  <2>4. Border(q) \in Nat /\ Border(q) <= last
    <3>1. Border(q) = BlockSize * q
      BY <1>0, <2>3 DEF Border
    <3>2. Border(q) \in Nat
      BY <2>3, Borders
    <3>3. PICK e \in 0..(BlockSize - 1) : last = Border(q) + e
      BY <2>3, <3>1
    <3> QED
      BY <1>0, <2>2, <3>2, <3>3
  <2>5. q < N
    <3>1. Border(q) < Len(c)
      BY <1>0, <2>2, <2>4
    <3>2. \A i \in Nat : Border(i) < Len(c) <=> i < N
      BY <1>0, Counting DEF N
    <3> QED
      BY <2>3, <3>1, <3>2
  <2>6. ~(k < q) /\ d # 0
    BY <1>1, <1>20, <1>24, <2>3, <2>5
  <2>7. ~(o % BlockSize = 0) /\ ~(o \div BlockSize < (Len(c) - 1) \div BlockSize)
    BY <2>6 DEF k, d, q, last
  <2> QED
    BY <2>1, <2>7 DEF NotInTail
<1>22. a = Answer(a.reader, a.data, a.err)
  <2>1. \A s, data, err : LET z == Answer(s, data, err) IN z = Answer(z.reader, z.data, z.err)
    BY DEF Answer
  <2>2. \E s, data, err : a = Answer(s, data, err)
    <3>1. \A s, i, g, done : \E t, data, err : ReadNextBlock(s, i, g, done) = Answer(t, data, err)
      BY DEF ReadNextBlock
    <3> QED
      BY <1>17, <3>1
  <2> QED
    BY <2>1, <2>2
<1>23. Read(r, r.blockSize, f) = a
  BY <1>15 DEF a
<1> QED
  BY <1>9, <1>11, <1>15, <1>20, <1>21, <1>22, <1>23, <1>24 DEF r, f

\* A line that fits in a block is read back from where it starts.
LEMMA LineIsReadBack ==
    ASSUME NEW c \in Texts, NEW p \in Nat, NEW q \in Nat, IsLine(c, p, q), q - p <= BlockSize,
           NotInTail(c, p)
    PROVE  LET y == LineAt(FileOf(c), p) IN
           y.err = "nil" /\ y.data = Slice(c, p, q)
<1> DEFINE f == FileOf(c)
           r == Seek(NewReader(f), p, f).reader
           l == SeekLine(NewLineReader(f), p, f)
           a == Read(r, r.blockSize, f)
           y == LineAt(f, p)
<1>0. /\ c \in ByteSeq /\ Len(c) \in Nat /\ BlockSize \in Nat
      /\ p < q /\ q <= Len(c) /\ c[q] = NewLine /\ NoLine(c, p, q - 1)
  BY TextParts, FileAssumption DEF IsLine
<1>1. y = ReadLine(l, f)
  <2> HIDE DEF f
  <2> QED
    BY DEF LineAt
<1>2. PICK m \in 1..r.blockSize :
         /\ p + m <= Len(c) /\ a.data = Slice(c, p, p + m)
         /\ m = BlockSize \/ p + m = Len(c)
         /\ a.err = "EOF" => p + m = Len(c) /\ c[Len(c)] = NewLine
  <2>1. p \in 0..(Len(c) - 1)
    BY <1>0
  <2> QED
    BY <2>1, SeekReads
<1>3. a = Answer(a.reader, a.data, a.err) /\ r.blockSize \in Nat
  <2>1. p \in 0..(Len(c) - 1)
    BY <1>0
  <2> QED
    BY <2>1, SeekReads
<1> HIDE DEF r, f
<1> DEFINE n == r.blockSize
           d == Slice(c, p, p + m)
           e == q - p
           g == FilledFrom(l, a.reader, d)
           x == Line(g, <<>>, "more")
           b == d \o Zeros(n - m)
<1>4. l \in LineReaders /\ l.length = 0 /\ l.reader = r /\ l.at = 0 /\ l.first = FALSE
  <2> DEFINE fresh == NewReader(f)
             o == [reader |-> fresh, buffer |-> <<>>, length |-> 0, at |-> 0, first |-> FALSE]
  <2>1. fresh \in Readers /\ r \in Readers
    <3>1. p \in 0..(Len(c) - 1)
      BY <1>0
    <3> QED
      BY <1>0, <3>1, FreshReader, SeekAnswers DEF ReaderOK, r, f
  <2>2. NewReader(f) = fresh
    OBVIOUS
  <2>3. NewLineReader(f) = o
    BY <2>2 DEF NewLineReader
  <2> HIDE DEF fresh
  <2>4. o \in LineReaders /\ o.reader = fresh /\ o.first = FALSE
    BY <2>1, EmptySeq DEF LineReaders, ByteSeq
  <2> HIDE DEF o
  <2>5. l = [o EXCEPT !.reader = r, !.length = 0, !.at = 0]
    BY <2>2, <2>3, <2>4 DEF SeekLine, r, fresh
  <2> HIDE DEF l
  <2> QED
    BY <2>1, <2>4, <2>5 DEF LineReaders
<1>5. m \in Nat /\ m > 0 /\ m <= n /\ n \in Nat /\ n - m \in Nat /\ e \in 1..m /\ p + e = q /\ p + m \in Nat
  BY <1>0, <1>2, <1>3
<1>6. d \in ByteSeq /\ Len(d) = m /\ \A i \in 1..m : d[i] = c[p + i]
  <2>1. p <= p + m /\ (p + m) - p = m
    BY <1>5
  <2>2. d \in ByteSeq /\ Len(d) = (p + m) - p /\ \A i \in 1..((p + m) - p) : d[i] = c[p + i]
    BY <1>0, <1>2, <1>5, <2>1, SliceProperties
  <2> QED
    BY <2>1, <2>2
<1> HIDE DEF a, d, n
<1>7. b \in ByteSeq /\ Len(b) = n /\ \A i \in 1..m : b[i] = c[p + i]
  <2>1. Zeros(n - m) \in ByteSeq /\ Len(Zeros(n - m)) = n - m
    BY <1>5, ZerosAre
  <2> DEFINE z == Zeros(n - m)
  <2> HIDE DEF z
  <2>2. b \in ByteSeq /\ Len(b) = Len(d) + Len(z)
        /\ \A i \in 1..(Len(d) + Len(z)) : b[i] = IF i <= Len(d) THEN d[i] ELSE z[i - Len(d)]
    BY <1>6, <2>1, ByteConcat DEF z
  <2>3. Len(d) + Len(z) = n
    BY <1>5, <1>6, <2>1 DEF z
  <2> HIDE DEF b
  <2>4. ASSUME NEW i \in 1..m
        PROVE  b[i] = c[p + i]
    <3>1. i \in 1..(Len(d) + Len(z)) /\ i <= Len(d)
      BY <1>5, <1>6, <2>3
    <3>2. b[i] = d[i]
      BY <2>2, <3>1
    <3> QED
      BY <1>6, <3>2
  <2> QED
    BY <2>2, <2>3, <2>4
<1> HIDE DEF e
<1>8. y = ReadOn(g, f)
  <2>1. a = Answer(a.reader, d, a.err)
    BY <1>2, <1>3 DEF d
  <2>2. Read(l.reader, l.reader.blockSize, f) = Answer(a.reader, d, a.err)
    BY <1>4, <2>1 DEF a
  <2> HIDE DEF l, y
  <2>3. ReadLine(l, f)
        = IF a.err = "EOF" /\ (d = <<>> \/ d[Len(d)] # NewLine)
          THEN Line([l EXCEPT !.reader = a.reader], <<>>, "EOF")
          ELSE ReadOn(g, f)
    BY <1>4, <2>2, ReadLineFills
  <2>4. a.err = "EOF" => d # <<>> /\ d[Len(d)] = NewLine
    <3>1. d # <<>>
      BY <1>5, <1>6, ByteLen
    <3>2. m \in 1..m
      BY <1>5
    <3>3. d[Len(d)] = c[p + m]
      BY <1>6, <3>2
    <3> QED
      BY <1>0, <1>2, <3>1, <3>3
  <2> QED
    BY <1>1, <2>3, <2>4
<1>9. /\ g.length = m /\ g.buffer = b /\ g.at = 0 /\ g.first = FALSE
  <2> HIDE DEF l
  <2> QED
    BY <1>4, <1>6 DEF FilledFrom, n, LineReaders
<1> HIDE DEF y, l, g, b
<1>10. readOffset(g) = 0
  BY <1>9 DEF readOffset
<1>11. e \in LineEnds(g) /\ \A i \in LineEnds(g) : e <= i
  <2>1. LineEnds(g) = {i \in (0 + 1)..m : b[i] = NewLine}
    BY <1>9, <1>10 DEF LineEnds
  <2>2. e \in LineEnds(g)
    BY SMTT(40), <1>0, <1>5, <1>7, <2>1
  <2>3. ASSUME NEW i \in LineEnds(g)
        PROVE  e <= i
    <3>1. i \in 1..m /\ c[p + i] = NewLine
      BY <1>7, <2>1
    <3>2. p + i \notin (p + 1)..(q - 1)
      BY <1>0, <3>1 DEF NoLine
    <3> QED
      BY <1>5, <3>1, <3>2
  <2> QED
    BY <2>2, <2>3
<1>12. x.lines = g /\ x.data = <<>> /\ x.err = "more"
  BY DEF Line
<1> HIDE DEF x
<1>13. ReadRound(x, f) = Line(Behind(g, e), <<>> \o Slice(b, 0, e), "nil")
  <2>1. x.lines.length \in Nat /\ readOffset(x.lines) \in Nat
    BY <1>5, <1>9, <1>10, <1>12
  <2>2. e \in LineEnds(x.lines) /\ \A i \in LineEnds(x.lines) : e <= i
    BY <1>11, <1>12
  <2>3. ReadRound(x, f)
        = Line(Behind(x.lines, e), x.data \o Slice(x.lines.buffer, readOffset(x.lines), e), "nil")
    BY <2>1, <2>2, RoundFinds
  <2> QED
    BY <1>9, <1>10, <1>12, <2>3
<1>14. <<>> \o Slice(b, 0, e) = Slice(c, p, q)
  <2> DEFINE s == Slice(b, 0, e)
             t == Slice(c, p, q)
  <2>1. s \in ByteSeq /\ Len(s) = e /\ \A i \in 1..e : s[i] = b[i]
    <3>1. 0 \in Nat /\ 0 <= e /\ e \in Nat /\ e <= Len(b) /\ e - 0 = e
      BY <1>5, <1>7
    <3>2. s \in ByteSeq /\ Len(s) = e - 0 /\ \A i \in 1..(e - 0) : s[i] = b[0 + i]
      BY <1>7, <3>1, SliceProperties
    <3>3. \A i \in 1..e : 0 + i = i
      OBVIOUS
    <3> HIDE DEF s
    <3> QED
      BY <3>1, <3>2, <3>3
  <2>2. t \in ByteSeq /\ Len(t) = e /\ \A i \in 1..e : t[i] = c[p + i]
    <3>1. p <= q
      BY <1>0
    <3>2. t \in ByteSeq /\ Len(t) = q - p /\ \A i \in 1..(q - p) : t[i] = c[p + i]
      BY <1>0, <3>1, SliceProperties
    <3> HIDE DEF t
    <3> QED
      BY <3>2 DEF e
  <2> HIDE DEF s, t
  <2>3. \A i \in 1..e : i \in 1..m
    BY <1>5
  <2>4. s = t
    <3>1. \A i \in 1..Len(s) : s[i] = t[i]
      BY <1>7, <2>1, <2>2, <2>3
    <3> QED
      BY <2>1, <2>2, <3>1, BytesEqual
  <2>5. <<>> \o s = s
    BY <2>1, ConcatEmptySeq DEF ByteSeq
  <2> QED
    BY <2>4, <2>5 DEF s, t
<1>15. ReadRound(x, f).err = "nil" /\ ReadRound(x, f).data = Slice(c, p, q)
  BY <1>13, <1>14 DEF Line
<1>16. ReadOn(g, f) = ReadRound(x, f)
  <2>1. PICK err : err = "nil" /\ err # "more"
    OBVIOUS
  <2>2. ReadRound(x, f).err # "more"
    BY <1>15, <2>1
  <2> QED
    BY <2>2, ReadOnFinds DEF x, f
<1> QED
  BY <1>8, <1>15, <1>16 DEF y, f

-----------------------------------------------------------------------------
\* The file is a text, and the reader is at the line that comes next.
NewLines(c) == {i \in 1..Len(c) : c[i] = NewLine}

DInv == Data \in Texts /\ docFile = FileOf(Data) /\ AtLine(lines, Data, seekIndex)

LEMMA DataIs ==
    ASSUME NEW c \in Texts, docFile = FileOf(c)
    PROVE  Data = c
<1>1. c \in ByteSeq
  BY TextParts
<1>2. docFile.blocks = Split(c, BlockSize)
  BY DEF FileOf
<1>3. FlattenSeq(docFile.blocks) = c
  BY <1>1, <1>2, SplitJoined
<1> QED
  BY <1>3 DEF Data, FlattenSeq

LEMMA FilesAreTexts ==
    ASSUME NEW g \in Files
    PROVE  \E c \in Texts : g = FileOf(c)
<1>1. PICK d \in UNION {[1..n -> {NewLine, Other}] : n \in 0..MaxSize} : g = FileOf(d)
  BY DEF Files
<1>2. PICK n \in 0..MaxSize : d \in [1..n -> {NewLine, Other}]
  OBVIOUS
<1>3. d \in [1..n -> Nat] /\ n \in Nat
  BY <1>2 DEF NewLine, Other
<1>4. d \in Seq(Nat)
  BY <1>3
<1> QED
  BY <1>1, <1>4 DEF Texts, ByteSeq

\* A new reader of lines is at the start of the file.
LEMMA OpensAtStart ==
    ASSUME NEW c \in Texts
    PROVE  AtLine(NewLineReader(FileOf(c)), c, 0)
<1> DEFINE r == ReaderAt(c, 0)
           l == NewLineReader(FileOf(c))
<1>0. Count(Len(c)) \in Nat /\ BlockEnd(c, 0) = 0
  BY TextParts
<1>1. 0 \in 0..Count(Len(c))
  BY <1>0
<1>2. r \in Readers
  BY <1>1, ReadersAt
<1>3. l = [reader |-> r, buffer |-> <<>>, length |-> 0, at |-> 0, first |-> FALSE]
  BY StartsAt DEF NewLineReader
<1> HIDE DEF r, l
<1>4. l \in LineReaders /\ l.reader = r /\ l.length = 0 /\ l.at = 0 /\ l.first = FALSE
  BY <1>2, <1>3, EmptySeq DEF LineReaders, ByteSeq
<1>5. AtLine(l, c, 0)
  BY <1>0, <1>1, <1>4 DEF AtLine, r
<1> QED
  BY <1>5 DEF l

\* The reader reads the line that comes next, and a new reader reads it again; at the
\* end there is none.
LEMMA DInvFindsLines == BlockSize > 1 /\ DInv => LinesAreFound
<1> SUFFICES ASSUME BlockSize > 1, DInv
             PROVE  LinesAreFound
  OBVIOUS
<1> DEFINE c == Data
           y == ReadLine(lines, docFile)
           z == LineAt(docFile, seekIndex)
           p == seekIndex
           left == {i \in Ends : i > p}
           e == CHOOSE i \in left : \A j \in left : i <= j
<1>0. /\ c \in Texts /\ docFile = FileOf(c) /\ c \in ByteSeq /\ Len(c) \in Nat
      /\ p \in Nat /\ p <= Len(c) /\ (Found(y, c, p) \/ Ended(y, c, p))
  BY TextParts, ReadLineReads DEF DInv
<1>1. Ends = NewLines(c)
  <2>1. DOMAIN c = 1..Len(c)
    BY <1>0 DEF ByteSeq
  <2> QED
    BY <2>1 DEF Ends, NewLines
<1>2. LinesAreFound
      <=> IF left = {} THEN y.err = "EOF"
          ELSE /\ y.err = "nil" /\ y.data = Slice(c, p, e)
               /\ e - p <= docFile.blockSize /\ ReadsPastSeek(p) =>
                     z.err = "nil" /\ z.data = Slice(c, p, e)
  BY DEF LinesAreFound, IsNextLine
<1> HIDE DEF c, y, z
<1>3. CASE Ended(y, c, p)
  <2>1. y.err = "EOF" /\ NoLine(c, p, Len(c))
    BY <1>3 DEF Ended
  <2>2. ASSUME NEW i \in left
        PROVE  FALSE
    <3>1. i \in 1..Len(c) /\ c[i] = NewLine /\ i > p
      BY <1>1 DEF NewLines
    <3>2. i \in (p + 1)..Len(c)
      BY <1>0, <3>1
    <3> QED
      BY <2>1, <3>1, <3>2 DEF NoLine
  <2> QED
    BY <1>2, <2>1, <2>2
<1>4. CASE Found(y, c, p)
  <2>1. PICK q \in Nat : FoundTo(y, c, p, q)
    BY <1>4 DEF Found
  <2>2. IsLine(c, p, q) /\ y.err = "nil" /\ y.data = Slice(c, p, q)
    BY <2>1 DEF FoundTo
  <2>3. q \in (p + 1)..Len(c) /\ c[q] = NewLine /\ NoLine(c, p, q - 1)
    BY <2>2 DEF IsLine
  <2>4. q \in left
    BY <1>0, <1>1, <2>3 DEF NewLines
  <2>5. ASSUME NEW i \in left
        PROVE  i \in Int /\ q <= i
    <3>1. i \in 1..Len(c) /\ c[i] = NewLine /\ i > p
      BY <1>1 DEF NewLines
    <3>2. i \notin (p + 1)..(q - 1)
      BY <2>3, <3>1 DEF NoLine
    <3> QED
      BY <1>0, <3>1, <3>2
  <2> HIDE DEF left
  <2>6. e \in left /\ \A j \in left : e <= j
    BY <2>4, <2>5
  <2> HIDE DEF e
  <2>7. e = q
    <3>1. e \in Int /\ q \in Int /\ e <= q /\ q <= e
      BY <2>4, <2>5, <2>6
    <3> QED
      BY <3>1
  <2>8. left # {}
    BY <2>4
  <2>9. docFile.blockSize = BlockSize
    BY <1>0, FileParts
  <2>10. ReadsPastSeek(p) => NotInTail(c, p)
    BY <2>9 DEF ReadsPastSeek, NotInTail, Last, c
  <2>11. q - p <= BlockSize /\ NotInTail(c, p) => z.err = "nil" /\ z.data = Slice(c, p, q)
    BY <1>0, <2>2, LineIsReadBack DEF z
  <2> QED
    BY <1>2, <2>2, <2>7, <2>8, <2>9, <2>10, <2>11
<1> QED
  BY <1>0, <1>3, <1>4

LEMMA DInvInit == DocLinesInit => DInv
<1> SUFFICES ASSUME DocLinesInit
             PROVE  DInv
  OBVIOUS
<1>1. PICK c \in Texts : docFile = FileOf(c)
  BY FilesAreTexts DEF DocLinesInit
<1>2. Data = c
  BY <1>1, DataIs
<1>3. lines = NewLineReader(FileOf(c)) /\ seekIndex = 0
  BY <1>1 DEF DocLinesInit
<1> QED
  BY <1>1, <1>2, <1>3, OpensAtStart DEF DInv

LEMMA DInvStep == BlockSize > 1 /\ DInv /\ [DocLinesNext]_docLinesVars => DInv'
<1> SUFFICES ASSUME BlockSize > 1, DInv, [DocLinesNext]_docLinesVars
             PROVE  DInv'
  OBVIOUS
<1> DEFINE c == Data
           y == ReadLine(lines, docFile)
<1>0. c \in Texts /\ docFile = FileOf(c) /\ AtLine(lines, c, seekIndex)
  BY DEF DInv
<1>a. docFile' = docFile => c' = c
  BY DEF Data
<1>b. /\ seekIndex \in Nat /\ seekIndex <= Len(c) /\ Len(c) \in Nat
      /\ Found(y, c, seekIndex) \/ Ended(y, c, seekIndex)
  BY <1>0, TextParts, ReadLineReads
<1> HIDE DEF c, y
<1>1. CASE ReadNextLine
  <2>1. /\ y.err = "nil" /\ seekIndex' = seekIndex + Len(y.data) /\ lines' = y.lines
        /\ docFile' = docFile
    BY <1>1 DEF ReadNextLine, y
  <2>2. Found(y, c, seekIndex)
    <3>1. ~Ended(y, c, seekIndex)
      BY <2>1 DEF Ended
    <3> QED
      BY <1>b, <3>1
  <2>3. PICK q \in Nat : FoundTo(y, c, seekIndex, q)
    BY <2>2 DEF Found
  <2>4. IsLine(c, seekIndex, q) /\ y.data = Slice(c, seekIndex, q) /\ AtLine(y.lines, c, q)
    BY <2>3 DEF FoundTo
  <2>5. seekIndex' = q
    <3>1. seekIndex < q /\ q <= Len(c) /\ seekIndex <= q /\ c \in ByteSeq
      BY <1>0, <1>b, <2>4, TextParts DEF IsLine
    <3>2. Len(y.data) = q - seekIndex
      BY <1>b, <2>4, <3>1, SliceProperties
    <3> QED
      BY <1>b, <2>1, <3>2
  <2>6. c' = c
    BY <1>a, <2>1
  <2> QED
    BY <1>0, <2>1, <2>4, <2>5, <2>6 DEF DInv, c
<1>2. CASE NextFile
  <2>1. PICK t \in Texts : docFile' = FileOf(t)
    <3>1. docFile' \in Files
      BY <1>2 DEF NextFile
    <3> QED
      BY <3>1, FilesAreTexts
  <2>2. c' = t
    <3>1. t \in ByteSeq
      BY TextParts
    <3>2. FlattenSeq((docFile').blocks) = t
      <4>1. (docFile').blocks = Split(t, BlockSize)
        BY <2>1 DEF FileOf
      <4> QED
        BY <3>1, <4>1, SplitJoined
    <3> QED
      BY <3>2 DEF c, Data, FlattenSeq
  <2>3. lines' = NewLineReader(docFile') /\ seekIndex' = 0
    BY <1>2 DEF NextFile
  <2>4. AtLine(lines', t, 0)
    BY <2>1, <2>3, OpensAtStart
  <2> QED
    BY <2>1, <2>2, <2>3, <2>4 DEF DInv, c
<1>3. CASE UNCHANGED docLinesVars
  <2>1. docFile' = docFile /\ lines' = lines /\ seekIndex' = seekIndex
    BY <1>3 DEF docLinesVars
  <2>2. c' = c
    BY <1>a, <2>1
  <2> QED
    BY <1>0, <2>1, <2>2 DEF DInv, c
<1> QED
  BY <1>1, <1>2, <1>3 DEF DocLinesNext

\* ReadLine gives every line of a file once, in its place, and EOF behind the last
\* newline, and a new reader reads a line again that a block can hold: for files of every
\* size and content, and every size of their blocks but one byte.
THEOREM FileLinesAreFound ==
    ASSUME BlockSize > 1
    PROVE  DocLinesSpec => []LinesAreFound
<1>1. DocLinesInit => DInv
  BY DInvInit
<1>2. DInv /\ [DocLinesNext]_docLinesVars => DInv'
  BY DInvStep
<1>3. DInv => LinesAreFound
  BY DInvFindsLines
<1> QED
  BY <1>1, <1>2, <1>3, PTL DEF DocLinesSpec
=============================================================================
