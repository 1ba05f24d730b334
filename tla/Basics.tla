------------------------------- MODULE Basics -------------------------------
(***************************************************************************)
(* What the proofs about several components share: induction over the      *)
(* numbers up to a bound, by way of the cardinality of finite sets, what   *)
(* is where in a sequence with one entry more or less, and what a fold     *)
(* that joins arrays comes to.                                             *)
(***************************************************************************)
EXTENDS Integers, SequencesExt, FiniteSetTheorems, SequenceTheorems, TLAPS

\* A set of numbers without gaps is an interval: Cardinality counts it.
LEMMA NoGaps ==
    ASSUME NEW n \in Nat, NEW S \in SUBSET (1 .. n), \A i \in S : \A j \in 1 .. i : j \in S
    PROVE  Cardinality(S) \in 0 .. n /\ S = 1 .. Cardinality(S)
<1> DEFINE c == Cardinality(S)
<1>1. \A m \in Nat : IsFiniteSet(1 .. m) /\ Cardinality(1 .. m) = m
  <2> SUFFICES ASSUME NEW m \in Nat PROVE IsFiniteSet(1 .. m) /\ Cardinality(1 .. m) = m
    OBVIOUS
  <2>1. IsFiniteSet(1 .. m) /\ Cardinality(1 .. m) = IF 1 > m THEN 0 ELSE m - 1 + 1
    BY FS_Interval
  <2>2. QED
    BY <2>1
<1>2. IsFiniteSet(S) /\ c \in Nat /\ c <= n
  <2>1. IsFiniteSet(1 .. n) /\ Cardinality(1 .. n) = n
    BY <1>1
  <2>2. IsFiniteSet(S) /\ c <= n
    BY ZenonT(60), <2>1, FS_Subset
  <2>3. QED
    BY <2>2, FS_CardinalityType
<1>3. ASSUME NEW i \in S PROVE i \in 1 .. c
  <2>1. i \in Nat /\ 1 .. i \in SUBSET S
    BY <1>3
  <2>2. Cardinality(1 .. i) <= c
    BY <1>2, <2>1, FS_Subset
  <2>3. QED
    BY <1>1, <1>2, <2>1, <2>2
<1>4. ASSUME NEW i \in 1 .. c, i \notin S PROVE FALSE
  <2>1. i - 1 \in Nat /\ S \in SUBSET (1 .. i - 1)
    BY <1>2, <1>4
  <2>2. c <= Cardinality(1 .. i - 1)
    BY <1>1, <2>1, FS_Subset
  <2>3. QED
    BY <1>1, <1>2, <2>1, <2>2
<1> HIDE DEF c
<1>5. S = 1 .. c
  BY <1>3, <1>4
<1>6. QED
  BY <1>2, <1>5 DEF c

\* Induction up to a bound, for a set.
LEMMA OneByOne ==
    ASSUME NEW n \in Nat, NEW S \in SUBSET (1 .. n),
           \A i \in 1 .. n : (\A j \in 1 .. i - 1 : j \in S) => i \in S
    PROVE  S = 1 .. n
<1> DEFINE D == {i \in 1 .. n : \A j \in 1 .. i : j \in S}
           c == Cardinality(D)
<1>1. D \in SUBSET (1 .. n) /\ \A i \in D : \A j \in 1 .. i : j \in D
  OBVIOUS
<1>2. c \in 0 .. n /\ D = 1 .. c
  BY <1>1, NoGaps
<1>3. \A j \in 1 .. c : j \in S
  <2>1. 1 .. c \subseteq D
    BY <1>2
  <2> HIDE DEF c
  <2>2. \A j \in D : j \in 1 .. j /\ j \in S
    OBVIOUS
  <2>3. QED
    BY <2>1, <2>2
<1> HIDE DEF c
<1>4. c < n => c + 1 \in D
  <2> HAVE c < n
  <2> DEFINE i == c + 1
  <2>1. i \in 1 .. n /\ \A j \in 1 .. i - 1 : j \in S
    BY <1>2, <1>3
  <2> HIDE DEF i
  <2>2. i \in S
    BY <2>1
  <2> USE DEF i
  <2>3. \A j \in 1 .. c + 1 : j \in S
    BY <1>2, <1>3, <2>2
  <2>4. QED
    BY <2>1, <2>3
<1>5. c = n
  <2> HIDE DEF D
  <2>1. c < n => c + 1 \in 1 .. c
    BY <1>2, <1>4
  <2>2. QED
    BY <1>2, <2>1
<1>6. QED
  BY <1>3, <1>5

\* The same from 0 on, step by step.
LEMMA UpTo ==
    ASSUME NEW n \in Nat, NEW S \in SUBSET (0 .. n), 0 \in S,
           \A i \in 0 .. n : i < n /\ i \in S => i + 1 \in S
    PROVE  S = 0 .. n
<1> DEFINE T == {i \in 1 .. n : i \in S}
<1>1. ASSUME NEW i \in 1 .. n, \A j \in 1 .. i - 1 : j \in T PROVE i \in T
  <2>1. i - 1 \in 0 .. n /\ i - 1 < n /\ (i - 1) + 1 = i /\ (i = 1 \/ i - 1 \in 1 .. i - 1)
    OBVIOUS
  <2>2. i - 1 \in S
    BY <1>1, <2>1
  <2>3. QED
    BY <2>1, <2>2
<1>2. T \in SUBSET (1 .. n)
  OBVIOUS
<1>3. T = 1 .. n
  <2> HIDE DEF T
  <2>1. QED
    BY <1>1, <1>2, OneByOne
<1>4. \A i \in T : i \in S
  OBVIOUS
<1>5. \A i \in 0 .. n : i = 0 \/ i \in 1 .. n
  OBVIOUS
<1> HIDE DEF T
<1>6. QED
  BY <1>3, <1>4, <1>5

-----------------------------------------------------------------------------
(* Following a function from a point until it stays where it is. *)

Into(M, b) == b \in [M -> M]
IsWalk(M, b, n, g) == g \in [0 .. n -> M] /\ \A i \in 1 .. n : g[i] = b[g[i - 1]]

\* Walks of every length exist.
LEMMA Walk ==
    ASSUME NEW M, NEW top \in M, NEW b, Into(M, b), NEW n \in Nat
    PROVE  \E g : IsWalk(M, b, n, g) /\ g[0] = top
<1> USE DEF Into, IsWalk
<1> DEFINE W(g, l) == g \in [0 .. l -> M] /\ g[0] = top /\ \A i \in 1 .. l : g[i] = b[g[i - 1]]
           S == {l \in 0 .. n : \E g : W(g, l)}
<1>1. 0 \in S
  <2>1. W([i \in 0 .. 0 |-> top], 0)
    OBVIOUS
  <2> HIDE DEF W
  <2>2. 0 \in 0 .. n /\ \E g : W(g, 0)
    BY <2>1
  <2>3. QED
    BY <2>2
<1>2. ASSUME NEW l \in 0 .. n, l < n, l \in S PROVE l + 1 \in S
  <2>1. PICK g : W(g, l)
    BY <1>2
  <2> DEFINE h == [i \in 0 .. l + 1 |-> IF i = l + 1 THEN b[g[l]] ELSE g[i]]
  <2>2. l \in Nat /\ l + 1 \in 0 .. n /\ 0 \in 0 .. l + 1 /\ 0 # l + 1 /\ l \in 0 .. l
    BY <1>2
  <2>3. h \in [0 .. l + 1 -> M] /\ h[0] = top
    BY <2>1, <2>2
  <2>4. ASSUME NEW i \in 1 .. l + 1 PROVE h[i] = b[h[i - 1]]
    <3>1. i \in 0 .. l + 1 /\ i - 1 \in 0 .. l + 1 /\ i - 1 # l + 1 /\ (i = l + 1 \/ i \in 1 .. l)
      BY <2>2
    <3>2. h[i - 1] = g[i - 1] /\ h[i] = IF i = l + 1 THEN b[g[l]] ELSE g[i]
      BY <3>1
    <3> HIDE DEF h
    <3>3. CASE i = l + 1
      BY <2>2, <3>2, <3>3
    <3>4. CASE i # l + 1
      BY <2>1, <3>1, <3>2, <3>4
    <3>5. QED
      BY <3>3, <3>4
  <2> HIDE DEF h
  <2>5. W(h, l + 1)
    BY <2>3, <2>4
  <2>6. QED
    BY <2>2, <2>5
<1>3. S \in SUBSET (0 .. n)
  OBVIOUS
<1>4. n \in S
  <2> HIDE DEF S
  <2>1. S = 0 .. n
    BY <1>1, <1>2, <1>3, UpTo
  <2>2. QED
    BY <2>1
<1>5. QED
  BY <1>4

\* The recursive function of a search is the walk.
LEMMA Descent ==
    ASSUME NEW M, NEW top \in M, NEW b, Into(M, b), NEW n \in Nat,
           NEW D, D = CHOOSE h : h = [i \in 0 .. n |-> IF i = 0 THEN top ELSE b[h[i - 1]]]
    PROVE  IsWalk(M, b, n, D) /\ D[0] = top
<1>1. PICK g : IsWalk(M, b, n, g) /\ g[0] = top
  BY Walk
<1> USE DEF Into, IsWalk
<1> DEFINE F(h) == [i \in 0 .. n |-> IF i = 0 THEN top ELSE b[h[i - 1]]]
<1>2. g = F(g)
  <2>1. \A i \in 0 .. n : i = 0 \/ i \in 1 .. n
    OBVIOUS
  <2>2. \A i \in 0 .. n : g[i] = F(g)[i]
    BY <1>1, <2>1
  <2>3. g = [i \in 0 .. n |-> g[i]]
    BY <1>1
  <2>4. F(g) = [i \in 0 .. n |-> F(g)[i]]
    OBVIOUS
  <2> HIDE DEF F
  <2>5. QED
    BY <2>2, <2>3, <2>4
<1>3. D = F(D)
  <2> HIDE DEF F
  <2>1. \E h : h = F(h)
    BY <1>2
  <2> USE DEF F
  <2>2. QED
    BY <2>1
<1>4. D[0] = top /\ \A i \in 1 .. n : D[i] = b[D[i - 1]]
  <2>1. 0 \in 0 .. n /\ \A i \in 1 .. n : i \in 0 .. n /\ i # 0
    OBVIOUS
  <2>2. \A i \in 0 .. n : D[i] = F(D)[i]
    BY <1>3
  <2>3. QED
    BY <2>1, <2>2
<1> DEFINE S == {i \in 0 .. n : D[i] \in M}
<1>5. S = 0 .. n
  <2>1. ASSUME NEW i \in 0 .. n, i < n, i \in S PROVE i + 1 \in S
    <3>1. i + 1 \in 1 .. n /\ (i + 1) - 1 = i /\ i + 1 \in 0 .. n
      BY <2>1
    <3>2. D[i + 1] = b[D[i]]
      BY <1>4, <3>1
    <3>3. QED
      BY <2>1, <3>1, <3>2
  <2>2. 0 \in S /\ S \in SUBSET (0 .. n)
    BY <1>4
  <2> HIDE DEF S
  <2>3. QED
    BY <2>1, <2>2, UpTo
<1>6. D \in [0 .. n -> M]
  <2>1. D = [i \in 0 .. n |-> D[i]]
    <3>1. F(D) = [i \in 0 .. n |-> F(D)[i]]
      OBVIOUS
    <3> HIDE DEF F
    <3>2. QED
      BY <1>3, <3>1
  <2>2. \A i \in 0 .. n : D[i] \in M
    BY <1>5
  <2>3. QED
    BY <2>1, <2>2
<1>7. QED
  BY <1>4, <1>6

\* What is closed under the function has all of the walk.
LEMMA WalkStaysIn ==
    ASSUME NEW M, NEW top \in M, NEW b, Into(M, b), NEW n \in Nat,
           NEW g, IsWalk(M, b, n, g), g[0] = top,
           NEW S \in SUBSET M, top \in S, \A m \in S : b[m] \in S
    PROVE  \A i \in 0 .. n : g[i] \in S
<1> USE DEF Into, IsWalk
<1> DEFINE T == {i \in 0 .. n : g[i] \in S}
<1>1. ASSUME NEW i \in 0 .. n, i < n, i \in T PROVE i + 1 \in T
  <2>1. i + 1 \in 1 .. n /\ (i + 1) - 1 = i /\ i + 1 \in 0 .. n
    BY <1>1
  <2>2. QED
    BY <1>1, <2>1
<1>2. 0 \in T /\ T \in SUBSET (0 .. n)
  OBVIOUS
<1>3. T = 0 .. n
  <2> HIDE DEF T
  <2>1. QED
    BY <1>1, <1>2, UpTo
<1>4. QED
  BY <1>3

\* Where the function stays the walk stays.
LEMMA WalkEnds ==
    ASSUME NEW M, NEW b, Into(M, b), NEW n \in Nat,
           NEW g, IsWalk(M, b, n, g),
           NEW i \in 0 .. n, b[g[i]] = g[i]
    PROVE  g[n] = g[i]
<1> USE DEF Into, IsWalk
<1> DEFINE T == {j \in 0 .. n : j <= i \/ g[j] = g[i]}
<1>1. ASSUME NEW j \in 0 .. n, j < n, j \in T PROVE j + 1 \in T
  <2>1. j + 1 \in 1 .. n /\ (j + 1) - 1 = j /\ j + 1 \in 0 .. n /\ (j < i => j + 1 <= i) /\ (j <= i => j < i \/ j = i)
    BY <1>1
  <2>2. g[j + 1] = b[g[j]]
    BY <2>1
  <2>3. QED
    BY <1>1, <2>1, <2>2
<1>2. 0 \in T /\ T \in SUBSET (0 .. n)
  OBVIOUS
<1>3. T = 0 .. n
  <2> HIDE DEF T
  <2>1. QED
    BY <1>1, <1>2, UpTo
<1>4. n \in 0 .. n /\ (n <= i => n = i)
  OBVIOUS
<1>5. n \in T
  BY <1>3, <1>4
<1>6. QED
  BY <1>4, <1>5

\* A walk that goes deeper with every step comes to an end: there are no more
\* steps than points.
LEMMA WalkIsFinite ==
    ASSUME NEW M, IsFiniteSet(M), NEW top \in M, NEW b, Into(M, b),
           NEW depth \in [M -> Nat], \A m \in M : b[m] # m => depth[m] < depth[b[m]],
           NEW n \in Nat, Cardinality(M) <= n + 1,
           NEW g, IsWalk(M, b, n, g)
    PROVE  b[g[n]] = g[n]
<1> SUFFICES ASSUME b[g[n]] # g[n] PROVE FALSE
  OBVIOUS
<1>1. ASSUME NEW i \in 0 .. n, b[g[i]] = g[i] PROVE FALSE
  <2>1. g[n] = g[i]
    BY <1>1, WalkEnds
  <2>2. QED
    BY <1>1, <2>1
<1> USE DEF Into, IsWalk
<1> DEFINE f == [i \in 0 .. n + 1 |-> IF i = n + 1 THEN b[g[n]] ELSE g[i]]
<1>2. f \in [0 .. n + 1 -> M]
  <2>1. \A i \in 0 .. n + 1 : i = n + 1 \/ i \in 0 .. n
    OBVIOUS
  <2>2. n \in 0 .. n
    OBVIOUS
  <2>3. QED
    BY <2>1, <2>2
<1>3. ASSUME NEW i \in 0 .. n PROVE depth[f[i]] < depth[f[i + 1]]
  <2>1. i \in 0 .. n + 1 /\ i + 1 \in 0 .. n + 1 /\ i # n + 1 /\ (i = n \/ (i + 1 \in 1 .. n /\ i + 1 # n + 1))
        /\ (i + 1) - 1 = i
    BY <1>3
  <2>2. f[i] = g[i] /\ f[i + 1] = b[g[i]]
    <3>1. f[i] = g[i] /\ (i = n => f[i + 1] = b[g[i]]) /\ (i + 1 # n + 1 => f[i + 1] = g[i + 1])
      BY <2>1
    <3>2. QED
      BY <2>1, <3>1
  <2>3. QED
    BY <1>1, <2>2
<1> HIDE DEF f
<1>4. ASSUME NEW i \in 0 .. n + 1, NEW j \in 0 .. n + 1, i < j PROVE depth[f[i]] < depth[f[j]]
  <2> DEFINE T == {l \in 0 .. n + 1 : l <= i \/ depth[f[i]] < depth[f[l]]}
  <2>1. ASSUME NEW l \in 0 .. n + 1, l < n + 1, l \in T PROVE l + 1 \in T
    <3>1. l \in 0 .. n /\ l + 1 \in 0 .. n + 1 /\ (l < i => l + 1 <= i) /\ (l <= i => l < i \/ l = i)
      BY <2>1
    <3>2. depth[f[l]] < depth[f[l + 1]]
      BY <1>3, <3>1
    <3>3. depth[f[l]] \in Nat /\ depth[f[l + 1]] \in Nat /\ depth[f[i]] \in Nat
      BY <1>2, <3>1
    <3>4. CASE l < i
      BY <3>1, <3>4
    <3>5. CASE l = i
      BY <3>1, <3>2, <3>5
    <3>6. CASE depth[f[i]] < depth[f[l]]
      BY <3>1, <3>2, <3>3, <3>6
    <3>7. QED
      BY <2>1, <3>1, <3>4, <3>5, <3>6
  <2>2. 0 \in T /\ T \in SUBSET (0 .. n + 1) /\ n + 1 \in Nat
    OBVIOUS
  <2>3. T = 0 .. n + 1
    <3> HIDE DEF T
    <3>1. QED
      BY <2>1, <2>2, UpTo
  <2>4. ~(j <= i) /\ j \in T
    <3>1. ~(j <= i)
      BY <1>4
    <3>2. j \in T
      BY <2>3, Zenon
    <3>3. QED
      BY <3>1, <3>2
  <2>5. QED
    BY <2>4
<1>5. IsFiniteSet(0 .. n + 1) /\ Cardinality(0 .. n + 1) = n + 2
  <2>1. IsFiniteSet(0 .. n + 1) /\ Cardinality(0 .. n + 1) = IF 0 > n + 1 THEN 0 ELSE (n + 1) - 0 + 1
    BY FS_Interval
  <2>2. QED
    BY <2>1
<1>6. f \in Injection(0 .. n + 1, M)
  <2>1. ASSUME NEW i \in 0 .. n + 1, NEW j \in 0 .. n + 1, f[i] = f[j] PROVE i = j
    <3>1. depth[f[i]] \in Nat
      BY <1>2
    <3>2. ~(i < j) /\ ~(j < i)
      BY <1>4, <2>1, <3>1
    <3>3. QED
      BY <3>2
  <2>2. QED
    BY <1>2, <2>1 DEF Injection, IsInjective
<1>7. Cardinality(0 .. n + 1) <= Cardinality(M)
  BY <1>6, FS_Injection
<1>8. QED
  BY <1>5, <1>7, FS_CardinalityType

-----------------------------------------------------------------------------
(* Sequences with one entry more or less. *)

\* What follows the place of the new entry moves up by one.
LEMMA InsertAtIs ==
    ASSUME NEW S, NEW s \in Seq(S), NEW e \in S, NEW i \in 1 .. Len(s) + 1
    PROVE  /\ InsertAt(s, i, e) \in Seq(S) /\ Len(InsertAt(s, i, e)) = Len(s) + 1
           /\ \A j \in 1 .. Len(s) + 1 :
                InsertAt(s, i, e)[j] = IF j < i THEN s[j] ELSE IF j = i THEN e ELSE s[j - 1]
<1> DEFINE a == SubSeq(s, 1, i - 1)
           b == SubSeq(s, i, Len(s))
           r == InsertAt(s, i, e)
<1>1. /\ a \in Seq(S) /\ Len(a) = i - 1 /\ \A j \in 1 .. i - 1 : a[j] = s[j]
      /\ b \in Seq(S) /\ Len(b) = Len(s) - i + 1 /\ \A j \in 1 .. Len(s) - i + 1 : b[j] = s[i + j - 1]
  <2>1. a \in Seq(S) /\ Len(a) = i - 1 /\ \A j \in 1 .. i - 1 : a[j] = s[j]
    BY SubSeqProperties
  <2>2. b \in Seq(S) /\ Len(b) = Len(s) - i + 1 /\ \A j \in 1 .. Len(s) - i + 1 : b[j] = s[i + j - 1]
    BY SubSeqProperties
  <2>3. QED
    BY <2>1, <2>2
<1>2. r = (a \o <<e>>) \o b
  BY DEF InsertAt
<1> HIDE DEF a, b, r
<1> DEFINE c == a \o <<e>>
<1>3. c \in Seq(S) /\ Len(c) = i /\ \A j \in 1 .. i : c[j] = IF j < i THEN s[j] ELSE e
  BY <1>1
<1> HIDE DEF c
<1>4. r = c \o b
  BY <1>2 DEF c
<1>5. /\ r \in Seq(S) /\ Len(r) = Len(s) + 1
      /\ \A j \in 1 .. Len(s) + 1 : r[j] = IF j <= i THEN c[j] ELSE b[j - i]
  <2>1. Len(c) + Len(b) = Len(s) + 1
    BY <1>1, <1>3
  <2>2. c \in Seq(S) /\ b \in Seq(S) /\ Len(c) = i
    BY <1>1, <1>3
  <2>3. /\ c \o b \in Seq(S) /\ Len(c \o b) = Len(c) + Len(b)
        /\ \A j \in 1 .. Len(c) + Len(b) : (c \o b)[j] = IF j <= Len(c) THEN c[j] ELSE b[j - Len(c)]
    BY <2>2, ConcatProperties
  <2>4. QED
    BY <1>4, <2>1, <2>2, <2>3
<1>6. ASSUME NEW j \in 1 .. Len(s) + 1
      PROVE  r[j] = IF j < i THEN s[j] ELSE IF j = i THEN e ELSE s[j - 1]
  <2>1. CASE j <= i
    <3>1. r[j] = c[j] /\ j \in 1 .. i
      BY <1>5, <2>1
    <3>2. QED
      BY <1>3, <3>1
  <2>2. CASE j > i
    <3>1. r[j] = b[j - i] /\ j - i \in 1 .. Len(s) - i + 1 /\ i + (j - i) - 1 = j - 1
      BY SMTT(60), <1>5, <2>2
    <3>2. b[j - i] = s[i + (j - i) - 1]
      BY <1>1, <3>1
    <3>3. QED
      BY <2>2, <3>1, <3>2
  <2>3. QED
    BY <2>1, <2>2
<1>7. QED
  BY <1>5, <1>6 DEF r

\* All but the last entry.
LEMMA FrontProperties ==
    ASSUME NEW S, NEW s \in Seq(S), s # <<>>
    PROVE  /\ Front(s) \in Seq(S) /\ Len(Front(s)) = Len(s) - 1
           /\ \A i \in 1 .. Len(s) - 1 : Front(s)[i] = s[i]
<1>1. Len(s) \in Nat \ {0}
  BY EmptySeq, LenProperties
<1>2. \A i \in 1 .. Len(s) : s[i] \in S
  BY ElementOfSeq
<1>3. 1 \in Int /\ Len(s) - 1 \in Int /\ 1 \in 1 .. Len(s) /\ Len(s) - 1 <= Len(s)
  BY <1>1
<1>4. Front(s) = [i \in 1 .. Len(s) - 1 |-> s[i]]
  BY <1>1, SMT DEF Front
<1>5. Front(s) \in Seq(S)
  BY <1>1, <1>2, <1>4, IsASeq
<1>6. QED
  BY <1>1, <1>4, <1>5

\* What follows the removed entry moves down by one.
LEMMA RemoveAtIs ==
    ASSUME NEW S, NEW s \in Seq(S), NEW i \in 1 .. Len(s)
    PROVE  /\ RemoveAt(s, i) \in Seq(S) /\ Len(RemoveAt(s, i)) = Len(s) - 1
           /\ \A j \in 1 .. Len(s) - 1 : RemoveAt(s, i)[j] = IF j < i THEN s[j] ELSE s[j + 1]
<1> DEFINE a == SubSeq(s, 1, i - 1)
           b == SubSeq(s, i + 1, Len(s))
           r == RemoveAt(s, i)
<1>1. a \in Seq(S) /\ Len(a) = i - 1 /\ \A j \in 1 .. i - 1 : a[j] = s[j]
  BY SubSeqProperties
<1>2. b \in Seq(S) /\ Len(b) = Len(s) - i /\ \A j \in 1 .. Len(s) - i : b[j] = s[i + 1 + j - 1]
  BY SubSeqProperties
<1>3. r = a \o b
  BY DEF RemoveAt
<1> HIDE DEF a, b, r
<1>4. /\ a \o b \in Seq(S) /\ Len(a \o b) = Len(a) + Len(b)
      /\ \A j \in 1 .. Len(a) + Len(b) : (a \o b)[j] = IF j <= Len(a) THEN a[j] ELSE b[j - Len(a)]
  BY <1>1, <1>2, ConcatProperties
<1>5. Len(a) + Len(b) = Len(s) - 1
  BY <1>1, <1>2
<1>6. ASSUME NEW j \in 1 .. Len(s) - 1 PROVE r[j] = IF j < i THEN s[j] ELSE s[j + 1]
  <2>1. CASE j < i
    <3>1. r[j] = a[j] /\ j \in 1 .. i - 1
      BY <1>1, <1>3, <1>4, <1>5, <2>1
    <3>2. QED
      BY <1>1, <2>1, <3>1
  <2>2. CASE j >= i
    <3>1. r[j] = b[j - (i - 1)] /\ j - (i - 1) \in 1 .. Len(s) - i /\ i + 1 + (j - (i - 1)) - 1 = j + 1
      BY <1>1, <1>3, <1>4, <1>5, <2>2
    <3>2. b[j - (i - 1)] = s[i + 1 + (j - (i - 1)) - 1]
      BY <1>2, <3>1
    <3>3. QED
      BY <2>2, <3>1, <3>2
  <2>3. QED
    BY <2>1, <2>2
<1>7. QED
  BY <1>3, <1>4, <1>5, <1>6 DEF r

\* Appending is inserting behind the last entry, the tail is what removing the
\* first entry leaves, the front what removing the last one leaves.
LEMMA AppendIsInsertAt ==
    ASSUME NEW S, NEW s \in Seq(S), NEW e \in S
    PROVE  Append(s, e) = InsertAt(s, Len(s) + 1, e)
<1> DEFINE n == Len(s) + 1
           r == InsertAt(s, n, e)
           t == Append(s, e)
<1>1. Len(s) \in Nat /\ n \in 1 .. n
  OBVIOUS
<1>2. r \in Seq(S) /\ Len(r) = n /\ \A j \in 1 .. n : r[j] = IF j < n THEN s[j] ELSE IF j = n THEN e ELSE s[j - 1]
  BY SMTT(60), <1>1, InsertAtIs
<1>3. t \in Seq(S) /\ Len(t) = n /\ (\A j \in 1 .. Len(s) : t[j] = s[j]) /\ t[n] = e
  BY AppendProperties
<1> HIDE DEF r, t
<1>4. \A j \in 1 .. n : r[j] = t[j]
  BY <1>1, <1>2, <1>3
<1> HIDE DEF n
<1>5. t = r
  BY <1>2, <1>3, <1>4, SeqEqual
<1>6. QED
  BY <1>5 DEF n, r, t

LEMMA TailIsRemoveAt ==
    ASSUME NEW S, NEW s \in Seq(S), s # <<>>
    PROVE  Tail(s) = RemoveAt(s, 1)
<1> DEFINE r == RemoveAt(s, 1)
           t == Tail(s)
<1>1. Len(s) \in Nat \ {0} /\ 1 \in 1 .. Len(s)
  BY EmptySeq
<1>2. r \in Seq(S) /\ Len(r) = Len(s) - 1 /\ \A j \in 1 .. Len(s) - 1 : r[j] = IF j < 1 THEN s[j] ELSE s[j + 1]
  BY <1>1, RemoveAtIs
<1>3. t \in Seq(S) /\ Len(t) = Len(s) - 1 /\ \A j \in 1 .. Len(t) : t[j] = s[j + 1]
  BY HeadTailProperties
<1> HIDE DEF r, t
<1>4. \A j \in 1 .. Len(r) : r[j] = t[j]
  BY <1>1, <1>2, <1>3
<1>5. t = r
  BY <1>2, <1>3, <1>4, SeqEqual
<1>6. QED
  BY <1>5 DEF r, t

LEMMA FrontIsRemoveAt ==
    ASSUME NEW S, NEW s \in Seq(S), s # <<>>
    PROVE  Front(s) = RemoveAt(s, Len(s))
<1> DEFINE r == RemoveAt(s, Len(s))
           t == Front(s)
<1>1. Len(s) \in Nat \ {0} /\ Len(s) \in 1 .. Len(s)
  BY EmptySeq
<1>2. r \in Seq(S) /\ Len(r) = Len(s) - 1 /\ \A j \in 1 .. Len(s) - 1 : r[j] = IF j < Len(s) THEN s[j] ELSE s[j + 1]
  BY <1>1, RemoveAtIs
<1>3. t \in Seq(S) /\ Len(t) = Len(s) - 1 /\ \A j \in 1 .. Len(s) - 1 : t[j] = s[j]
  BY FrontProperties
<1> HIDE DEF r, t
<1>4. \A j \in 1 .. Len(r) : r[j] = t[j]
  BY <1>1, <1>2, <1>3
<1>5. t = r
  BY <1>2, <1>3, <1>4, SeqEqual
<1>6. QED
  BY <1>5 DEF r, t

-----------------------------------------------------------------------------
(* Joining arrays. *)

\* A set of numbers up to a bound has a greatest one.
LEMMA MaxOf ==
    ASSUME NEW n \in Nat, NEW s \in SUBSET (1 .. n), s # {}
    PROVE  /\ Max(s) \in s /\ Max(s) \in 1 .. n /\ \A y \in s : Max(s) >= y
<1> DEFINE T == {i \in 1 .. n : \E j \in s : i <= j}
           c == Cardinality(T)
<1>1. c \in 0 .. n /\ T = 1 .. c
  <2>1. ASSUME NEW i \in T, NEW k \in 1 .. i PROVE k \in T
    <3>1. PICK j \in s : i <= j
      OBVIOUS
    <3>2. k <= j /\ k \in 1 .. n
      BY <3>1
    <3>3. QED
      BY <3>1, <3>2
  <2>2. T \in SUBSET (1 .. n)
    OBVIOUS
  <2> HIDE DEF T
  <2>3. QED
    BY <2>1, <2>2, NoGaps
<1> HIDE DEF c
<1>2. \A y \in s : y \in T
  OBVIOUS
<1>3. c \in s
  <2>1. c \in T
    <3>1. PICK y \in s : y \in T
      BY <1>2
    <3>2. c >= 1
      BY <1>1, <3>1
    <3>3. QED
      BY <1>1, <3>2
  <2>2. PICK j \in s : c <= j
    BY <2>1
  <2>3. j \in 1 .. c
    BY <1>1, <1>2
  <2>4. j = c
    BY <1>1, <2>2, <2>3
  <2>5. QED
    BY <2>4
<1>4. \A y \in s : c >= y
  BY <1>1, <1>2
<1>5. Max(s) \in s /\ \A y \in s : Max(s) >= y
  BY <1>3, <1>4 DEF Max
<1>6. QED
  BY <1>5

\* The equation that defines a fold which joins arrays.
JoinOf(s, g, F) == IF s = {} THEN <<>> ELSE g[s \ {Max(s)}] \o F[Max(s)]

Arrays(F, n, V) == F \in [1 .. n -> Seq(V)]
Joint(g, n, F)  == g = [s \in SUBSET (1 .. n) |-> JoinOf(s, g, F)]
Solves(g, n, F) == \A s \in SUBSET (1 .. n) : g[s] = JoinOf(s, g, F)

\* What there is after joining the first i of n arrays.
Stages(G, n, F, V) ==
    G \in [0 .. n -> Seq(V)] /\ G[0] = <<>> /\ \A i \in 1 .. n : G[i] = G[i - 1] \o F[i]

\* The equation has a solution.
LEMMA JoinExists ==
    ASSUME NEW n \in Nat, NEW V, NEW F, Arrays(F, n, V)
    PROVE  \E g : Joint(g, n, F)
<1> DEFINE Small(m) == {s \in SUBSET (1 .. n) : Cardinality(s) <= m}
           Good(m, h) == /\ h \in [Small(m) -> Seq(V)]
                         /\ \A s \in Small(m) : h[s] = JoinOf(s, h, F)
           S == {m \in 0 .. n : \E h : Good(m, h)}
<1>1. ASSUME NEW s \in SUBSET (1 .. n)
      PROVE  /\ Cardinality(s) \in 0 .. n /\ (Cardinality(s) = 0 <=> s = {})
             /\ s # {} => /\ Max(s) \in 1 .. n /\ s \ {Max(s)} \in SUBSET (1 .. n)
                          /\ Cardinality(s \ {Max(s)}) = Cardinality(s) - 1
  <2>1. IsFiniteSet(1 .. n) /\ Cardinality(1 .. n) = n
    <3>1. IsFiniteSet(1 .. n) /\ Cardinality(1 .. n) = IF 1 > n THEN 0 ELSE n - 1 + 1
      BY FS_Interval
    <3>2. QED
      BY <3>1
  <2>2. IsFiniteSet(s) /\ Cardinality(s) <= n
    <3>1. PICK D : D = 1 .. n
      OBVIOUS
    <3>2. IsFiniteSet(D) /\ Cardinality(D) = n /\ s \in SUBSET D
      BY <2>1, <3>1
    <3>3. QED
      BY <3>2, FS_Subset
  <2>3. Cardinality(s) \in Nat /\ (Cardinality(s) = 0 <=> s = {})
    BY <2>2, FS_CardinalityType, FS_EmptySet
  <2>4. ASSUME s # {} PROVE Max(s) \in s /\ Max(s) \in 1 .. n
    BY <2>4, MaxOf
  <2>5. ASSUME s # {} PROVE Cardinality(s \ {Max(s)}) = Cardinality(s) - 1
    <3>1. PICK x \in s : x = Max(s)
      BY <2>4, <2>5
    <3>2. Cardinality(s \ {x}) = Cardinality(s) - 1
      BY <2>2, FS_RemoveElement
    <3>3. QED
      BY <3>1, <3>2
  <2>6. Cardinality(s) \in 0 .. n
    BY <2>2, <2>3
  <2>7. s # {} => s \ {Max(s)} \in SUBSET (1 .. n)
    OBVIOUS
  <2>8. QED
    BY <2>3, <2>4, <2>5, <2>6, <2>7, Zenon
<1>2. 0 \in S
  <2> DEFINE h == [s \in Small(0) |-> <<>>]
  <2>1. ASSUME NEW s \in Small(0) PROVE s = {}
    <3>1. Cardinality(s) \in 0 .. n /\ Cardinality(s) <= 0 /\ (Cardinality(s) = 0 <=> s = {})
      BY <1>1
    <3>2. QED
      BY <3>1
  <2>2. <<>> \in Seq(V)
    OBVIOUS
  <2>3. Good(0, h)
    BY <2>1, <2>2 DEF JoinOf
  <2> HIDE DEF Good, h
  <2>4. QED
    BY <2>3
<1>3. ASSUME NEW m \in 0 .. n, m < n, m \in S PROVE m + 1 \in S
  <2> HIDE DEF Good
  <2>1. PICK h : Good(m, h)
    BY <1>3
  <2> DEFINE k == [s \in Small(m + 1) |-> JoinOf(s, h, F)]
  <2>2. /\ h \in [Small(m) -> Seq(V)]
        /\ \A s \in Small(m) : h[s] = JoinOf(s, h, F)
    BY <2>1 DEF Good
  <2>3. ASSUME NEW s \in Small(m + 1), s # {}
        PROVE  s \ {Max(s)} \in Small(m) /\ Max(s) \in 1 .. n
    <3>1. s \in SUBSET (1 .. n) /\ Cardinality(s) <= m + 1
      OBVIOUS
    <3>2. /\ Cardinality(s) \in 0 .. n /\ Max(s) \in 1 .. n /\ s \ {Max(s)} \in SUBSET (1 .. n)
          /\ Cardinality(s \ {Max(s)}) = Cardinality(s) - 1
      BY <1>1, <2>3, <3>1
    <3>3. Cardinality(s \ {Max(s)}) <= m
      BY <3>1, <3>2
    <3>4. QED
      BY <3>2, <3>3
  <2>4. ASSUME NEW s \in Small(m) PROVE s \in Small(m + 1)
    <3>1. s \in SUBSET (1 .. n) /\ Cardinality(s) <= m /\ Cardinality(s) \in 0 .. n
      BY <1>1
    <3>2. Cardinality(s) <= m + 1
      BY <3>1
    <3>3. QED
      BY <3>1, <3>2
  <2> HIDE DEF Small
  <2>5. \A s \in Small(m + 1) : k[s] = JoinOf(s, h, F)
    OBVIOUS
  <2>6. \A s \in Small(m) : k[s] = h[s]
    BY <2>2, <2>4, <2>5
  <2>7. ASSUME NEW s \in Small(m + 1) PROVE k[s] \in Seq(V) /\ k[s] = JoinOf(s, k, F)
    <3>1. CASE s = {}
      BY <2>5, <3>1 DEF JoinOf
    <3>2. CASE s # {}
      <4>1. s \ {Max(s)} \in Small(m) /\ Max(s) \in 1 .. n
        BY <2>3, <3>2
      <4>2. k[s] = h[s \ {Max(s)}] \o F[Max(s)]
        BY <2>5, <3>2 DEF JoinOf
      <4>3. h[s \ {Max(s)}] \in Seq(V) /\ F[Max(s)] \in Seq(V)
        BY <2>2, <4>1 DEF Arrays
      <4>4. k[s \ {Max(s)}] = h[s \ {Max(s)}]
        BY <2>6, <4>1
      <4> HIDE DEF k
      <4>5. k[s] \in Seq(V)
        BY <4>2, <4>3, ConcatProperties
      <4>6. QED
        BY <3>2, <4>2, <4>4, <4>5 DEF JoinOf
    <3>3. QED
      BY <3>1, <3>2
  <2>8. k \in [Small(m + 1) -> Seq(V)]
    BY <2>7
  <2> HIDE DEF k
  <2>9. Good(m + 1, k)
    BY <2>7, <2>8 DEF Good
  <2>10. m + 1 \in 0 .. n
    BY <1>3
  <2>11. QED
    BY <2>9, <2>10
<1>4. n \in S
  <2> HIDE DEF Good
  <2>1. S \in SUBSET (0 .. n)
    OBVIOUS
  <2> HIDE DEF S
  <2>2. S = 0 .. n
    BY <1>2, <1>3, <2>1, UpTo
  <2>3. QED
    BY <2>2
<1>5. Small(n) = SUBSET (1 .. n)
  <2>1. ASSUME NEW s \in SUBSET (1 .. n) PROVE Cardinality(s) <= n
    <3>1. Cardinality(s) \in 0 .. n
      BY <1>1
    <3>2. QED
      BY <3>1
  <2>2. QED
    BY <2>1
<1>6. PICK h : h \in [Small(n) -> Seq(V)] /\ \A s \in Small(n) : h[s] = JoinOf(s, h, F)
  BY <1>4
<1> HIDE DEF Small
<1>7. h = [s \in SUBSET (1 .. n) |-> JoinOf(s, h, F)]
  BY <1>5, <1>6
<1>8. QED
  BY <1>7 DEF Joint

\* Step by step: a solution joins one array after the other.
LEMMA JoinIs ==
    ASSUME NEW n \in Nat, NEW V, NEW F, Arrays(F, n, V),
           NEW g, Joint(g, n, F)
    PROVE  \E G : Stages(G, n, F, V) /\ G[n] = g[1 .. n]
<1>0. Solves(g, n, F)
  <2>1. g = [s \in SUBSET (1 .. n) |-> JoinOf(s, g, F)]
    BY DEF Joint
  <2>2. QED
    BY <2>1, Zenon DEF Solves
<1> DEFINE G == [i \in 0 .. n |-> g[1 .. i]]
           S == {i \in 0 .. n : G[i] \in Seq(V)}
<1>1. G[0] = <<>>
  <2>1. 1 .. 0 = {} /\ {} \in SUBSET (1 .. n) /\ 0 \in 0 .. n
    OBVIOUS
  <2>2. g[{}] = JoinOf({}, g, F)
    BY <1>0, <2>1, Zenon DEF Solves
  <2>3. g[{}] = <<>>
    BY <2>2, Zenon DEF JoinOf
  <2>4. G[0] = g[1 .. 0]
    BY <2>1, Zenon
  <2>5. QED
    BY <2>1, <2>3, <2>4, Zenon
<1>2. ASSUME NEW i \in 1 .. n PROVE G[i] = G[i - 1] \o F[i] /\ i - 1 \in 0 .. n
  <2>1. 1 .. i \in SUBSET (1 .. n) /\ 1 .. i # {} /\ (1 .. i) \ {i} = 1 .. i - 1 /\ i - 1 \in 0 .. n
    <3>1. i - 1 \in 0 .. n /\ i \in 0 .. n /\ i \in 1 .. i
      OBVIOUS
    <3>2. \A j : j \in (1 .. i) \ {i} <=> j \in 1 .. i - 1
      OBVIOUS
    <3>3. \A j \in 1 .. i : j \in 1 .. n
      OBVIOUS
    <3>4. QED
      BY <3>1, <3>2, <3>3
  <2>2. Max(1 .. i) \in 1 .. i /\ \A y \in 1 .. i : Max(1 .. i) >= y
    BY <2>1, MaxOf
  <2>3. Max(1 .. i) = i
    BY <2>2
  <2>4. g[1 .. i] = g[1 .. i - 1] \o F[i]
    <3>1. g[1 .. i] = JoinOf(1 .. i, g, F)
      BY <1>0, <2>1, Zenon DEF Solves
    <3>2. JoinOf(1 .. i, g, F) = g[(1 .. i) \ {i}] \o F[i]
      BY <2>1, <2>3, Zenon DEF JoinOf
    <3>3. QED
      BY <2>1, <3>1, <3>2, Zenon
  <2>5. i \in 0 .. n
    OBVIOUS
  <2>6. G[i] = g[1 .. i] /\ G[i - 1] = g[1 .. i - 1]
    BY <2>1, <2>5, Zenon
  <2> HIDE DEF G
  <2>7. QED
    BY <2>1, <2>4, <2>6, Zenon
<1>3. G[0] \in Seq(V)
  <2> HIDE DEF G
  <2>1. QED
    BY <1>1
<1>d. DOMAIN G = 0 .. n /\ G = [i \in 0 .. n |-> G[i]] /\ G[n] = g[1 .. n]
  OBVIOUS
<1> HIDE DEF G
<1>4. ASSUME NEW i \in 0 .. n, i < n, i \in S PROVE i + 1 \in S
  <2>1. i + 1 \in 1 .. n /\ (i + 1) - 1 = i /\ i + 1 \in 0 .. n
    BY <1>4
  <2>2. G[i + 1] = G[i] \o F[i + 1] /\ G[i] \in Seq(V) /\ F[i + 1] \in Seq(V)
    BY <1>2, <1>4, <2>1 DEF Arrays
  <2>3. G[i + 1] \in Seq(V)
    BY <2>2, ConcatProperties
  <2>4. QED
    BY <2>1, <2>3
<1>5. S = 0 .. n
  <2>1. S \in SUBSET (0 .. n) /\ 0 \in S
    BY <1>3
  <2> HIDE DEF S
  <2>2. QED
    BY <1>4, <2>1, UpTo
<1>6. \A i \in 0 .. n : G[i] \in Seq(V)
  BY <1>5
<1>7. G \in [0 .. n -> Seq(V)]
  BY <1>d, <1>6
<1>8. QED
  BY <1>d, <1>1, <1>2, <1>7 DEF Stages

=============================================================================
