--------------------------- MODULE LevelBinProofs ---------------------------
(***************************************************************************)
(* What holds of a level bin for any sizes of its arrays and any number of *)
(* keys: its structure, that the separators route every stored key to the  *)
(* array that holds it, that the bin is the map it promises to be, that a  *)
(* retraining finds its input, and that a scan of a bin is exact.          *)
(***************************************************************************)
EXTENDS LevelBin, Basics

\* The arrays of the bin from left to right, with a root and without.
Row == IF HasRoot THEN children ELSE IF headbin = NoBin THEN <<>> ELSE <<headbin>>

\* All keys of an array, and the entries of one.
Keys(b)     == ToSet(slotkey[b])
Pairs(s, d) == {<<s[i], d[i]>> : i \in 1 .. Len(s)}
Entries(b)  == Pairs(slotkey[b], slotdata[b])

\* The entries of other keys.
Without(P, k) == {x \in P : x[1] # k}

Before(S, T) == \A x \in S, y \in T : x < y

\* No key is stored twice.
Apart ==
    \A b \in live :
        /\ Ascending(slotkey[b])
        /\ \A c \in live : b # c => Keys(b) \cap Keys(c) = {}

\* The arrays in use are those of the row, and they ascend from left to
\* right; a separator is the last key of its array.
RowInv ==
    /\ \A i, j \in 1 .. Len(Row) : Row[i] = Row[j] => i = j
    /\ live = {Row[i] : i \in 1 .. Len(Row)}
    /\ \A i \in 1 .. Len(Row) : Ascending(slotkey[Row[i]])
    /\ \A i, j \in 1 .. Len(Row) : i < j => Before(Keys(Row[i]), Keys(Row[j]))
    /\ \A i \in 1 .. Len(rootkey) :
        slotkey[Row[i]] # <<>> /\ rootkey[i] = Last(slotkey[Row[i]])

\* The chain runs through the row, and no other array is in it.
ChainInv ==
    /\ \A i \in 1 .. Len(Row) :
        /\ prevbin[Row[i]] = IF i = 1 THEN NoBin ELSE Row[i - 1]
        /\ nextbin[Row[i]] = IF i = Len(Row) THEN NoBin ELSE Row[i + 1]
    /\ \A b \in Bin \ live : prevbin[b] = NoBin /\ nextbin[b] = NoBin
    /\ headbin = IF Row = <<>> THEN NoBin ELSE Row[1]
    /\ tailbin = IF Row = <<>> THEN NoBin ELSE Row[Len(Row)]

IInv ==
    /\ TypeOK
    /\ HasRoot => rootkey # <<>>
    /\ Apart
    /\ Intact => RowInv /\ ChainInv

-----------------------------------------------------------------------------
(* Ascending arrays. *)

\* An array's keys as numbers, by place and as a set.
LEMMA KeysAreNumbers ==
    ASSUME NEW s \in Seq(Key)
    PROVE  /\ Len(s) \in Nat /\ DOMAIN s = 1 .. Len(s)
           /\ \A i \in 1 .. Len(s) : s[i] \in Key /\ s[i] \in Int
           /\ ToSet(s) = {s[i] : i \in 1 .. Len(s)} /\ ToSet(s) \subseteq Int
<1>1. Len(s) \in Nat /\ DOMAIN s = 1 .. Len(s) /\ \A i \in 1 .. Len(s) : s[i] \in Key
  OBVIOUS
<1>2. Key \subseteq Int
  BY KeyAssumption DEF KeyAssumption
<1>3. ToSet(s) = {s[i] : i \in 1 .. Len(s)}
  BY <1>1 DEF ToSet
<1>4. \A i \in 1 .. Len(s) : s[i] \in Int
  BY <1>1, <1>2
<1>5. QED
  BY <1>1, <1>3, <1>4

\* In an ascending array the first key is the least and the last the greatest.
LEMMA Ends ==
    ASSUME NEW s \in Seq(Key), Ascending(s), s # <<>>
    PROVE  /\ Len(s) \in Nat \ {0} /\ Last(s) = s[Len(s)] /\ s[1] \in ToSet(s) /\ Last(s) \in ToSet(s)
           /\ \A x \in ToSet(s) : s[1] <= x /\ x <= Last(s)
           /\ \A i \in 1 .. Len(s) : i # 1 => s[1] < s[i]
<1>1. Len(s) \in Nat \ {0} /\ Last(s) = s[Len(s)]
  BY EmptySeq DEF Last
<1>2. DOMAIN s = 1 .. Len(s) /\ ToSet(s) = {s[i] : i \in 1 .. Len(s)} /\ \A i \in 1 .. Len(s) : s[i] \in Int
  BY KeysAreNumbers
<1>3. s[1] \in ToSet(s) /\ Last(s) \in ToSet(s)
  BY <1>1, <1>2
<1>a. 1 \in DOMAIN s /\ Len(s) \in DOMAIN s /\ \A i, j \in DOMAIN s : i < j => s[i] < s[j]
  BY <1>1, <1>2 DEF Ascending
<1>4. ASSUME NEW i \in 1 .. Len(s) PROVE (i # 1 => s[1] < s[i]) /\ (i # Len(s) => s[i] < s[Len(s)])
  <2>0. Len(s) \in Nat /\ i \in DOMAIN s
    BY <1>1, <1>2
  <2>1. (i # 1 => 1 < i) /\ (i # Len(s) => i < Len(s))
    BY <2>0
  <2>2. QED
    BY <1>a, <2>0, <2>1
<1>5. ASSUME NEW i \in 1 .. Len(s) PROVE s[1] <= s[i] /\ s[i] <= s[Len(s)]
  <2>1. s[1] \in Int /\ s[i] \in Int /\ s[Len(s)] \in Int
    BY <1>1, <1>2
  <2>2. QED
    BY <1>4, <2>1
<1>6. QED
  BY <1>1, <1>2, <1>3, <1>4, <1>5

\* Where find_lower puts a key that the array does not hold.
LEMMA LowerSplits ==
    ASSUME NEW s \in Seq(Key), Ascending(s), NEW k \in Key, NEW n \in Lower(s, k),
           ~(n <= Len(s) /\ s[n] = k)
    PROVE  /\ n \in 1 .. Len(s) + 1
           /\ \A i \in 1 .. Len(s) : (i < n => s[i] < k) /\ (i >= n => k < s[i])
<1>1. k \in Int /\ Len(s) \in Nat /\ DOMAIN s = 1 .. Len(s) /\ \A i \in 1 .. Len(s) : s[i] \in Int
  BY KeysAreNumbers, KeyAssumption DEF KeyAssumption
<1>2. /\ n \in 1 .. Len(s) + 1
      /\ \A i \in 1 .. n - 1 : s[i] < k
      /\ \A i \in n .. Len(s) : k <= s[i]
  BY DEF Lower
<1>3. ASSUME NEW i \in 1 .. Len(s), i >= n PROVE k < s[i]
  <2>1. k <= s[n] /\ k # s[n] /\ s[n] \in Int /\ n \in 1 .. Len(s)
    BY <1>1, <1>2, <1>3
  <2>2. i = n \/ s[n] < s[i]
    BY <1>1, <1>3, <2>1 DEF Ascending
  <2>3. QED
    BY <1>1, <2>1, <2>2
<1>4. QED
  BY <1>1, <1>2, <1>3

\* A key inserted between smaller and greater ones, and its value with it.
LEMMA PutIn ==
    ASSUME NEW s \in Seq(Key), Ascending(s), NEW k \in Key, NEW n \in 1 .. Len(s) + 1,
           \A i \in 1 .. Len(s) : (i < n => s[i] < k) /\ (i >= n => k < s[i]),
           NEW d \in Seq(Val), Len(d) = Len(s), NEW v \in Val
    PROVE  /\ InsertAt(s, n, k) \in Seq(Key) /\ Len(InsertAt(s, n, k)) = Len(s) + 1
           /\ InsertAt(s, n, k) # <<>> /\ Ascending(InsertAt(s, n, k))
           /\ InsertAt(d, n, v) \in Seq(Val) /\ Len(InsertAt(d, n, v)) = Len(s) + 1
           /\ ToSet(InsertAt(s, n, k)) = ToSet(s) \cup {k}
           /\ Pairs(InsertAt(s, n, k), InsertAt(d, n, v)) = Pairs(s, d) \cup {<<k, v>>}
           /\ Last(InsertAt(s, n, k)) = IF n > Len(s) THEN k ELSE Last(s)
<1> DEFINE r == InsertAt(s, n, k)
           q == InsertAt(d, n, v)
<1>0. /\ Len(s) \in Nat /\ DOMAIN s = 1 .. Len(s) /\ k \in Int
      /\ \A i \in 1 .. Len(s) : s[i] \in Int
      /\ ToSet(s) = {s[i] : i \in 1 .. Len(s)}
  BY KeysAreNumbers, KeyAssumption DEF KeyAssumption
<1>n. Len(s) \in Nat
  BY <1>0
<1>1. /\ r \in Seq(Key) /\ Len(r) = Len(s) + 1
      /\ \A j \in 1 .. Len(s) + 1 : r[j] = IF j < n THEN s[j] ELSE IF j = n THEN k ELSE s[j - 1]
  BY InsertAtIs, SMTT(60)
<1>2. /\ q \in Seq(Val) /\ Len(q) = Len(s) + 1
      /\ \A j \in 1 .. Len(s) + 1 : q[j] = IF j < n THEN d[j] ELSE IF j = n THEN v ELSE d[j - 1]
  BY InsertAtIs, SMTT(60)
<1> HIDE DEF r, q
<1>3. DOMAIN r = 1 .. Len(s) + 1 /\ ToSet(r) = {r[j] : j \in 1 .. Len(s) + 1} /\ r # <<>>
  <2>1. DOMAIN r = 1 .. Len(r) /\ ToSet(r) = {r[j] : j \in 1 .. Len(r)}
    BY <1>1, KeysAreNumbers
  <2>2. r # <<>>
    BY <1>0, <1>1
  <2>3. QED
    BY <1>1, <2>1, <2>2
\* each entry of the new array is an old one or the new one
<1>4. ASSUME NEW j \in 1 .. Len(s) + 1
      PROVE  \/ j < n /\ j \in 1 .. Len(s) /\ r[j] = s[j] /\ q[j] = d[j]
             \/ j = n /\ r[j] = k /\ q[j] = v
             \/ j > n /\ j - 1 \in 1 .. Len(s) /\ j - 1 >= n /\ r[j] = s[j - 1] /\ q[j] = d[j - 1]
  BY <1>n, <1>1, <1>2
<1>5. ASSUME NEW i \in 1 .. Len(s)
      PROVE  \E j \in 1 .. Len(s) + 1 : r[j] = s[i] /\ q[j] = d[i]
  <2>1. CASE i < n
    <3>1. i \in 1 .. Len(s) + 1 /\ r[i] = s[i] /\ q[i] = d[i]
      BY <1>n, <1>1, <1>2, <2>1
    <3>2. QED
      BY <3>1
  <2>2. CASE i >= n
    <3>1. i + 1 \in 1 .. Len(s) + 1 /\ i + 1 > n /\ (i + 1) - 1 = i
      BY <1>n, <2>2
    <3>2. r[i + 1] = s[i] /\ q[i + 1] = d[i]
      BY <1>1, <1>2, <3>1
    <3>3. QED
      BY <3>1, <3>2
  <2>3. QED
    BY <1>0, <2>1, <2>2
<1>6. ToSet(r) = ToSet(s) \cup {k}
  <2>1. ASSUME NEW x \in ToSet(r) PROVE x \in ToSet(s) \cup {k}
    BY SMTT(60), <1>0, <1>3, <1>4, <2>1
  <2>2. ASSUME NEW x \in ToSet(s) PROVE x \in ToSet(r)
    BY <1>0, <1>3, <1>5, <2>2
  <2>3. k \in ToSet(r)
    BY <1>1, <1>3
  <2>4. QED
    BY <2>1, <2>2, <2>3
<1>7. Pairs(r, q) = Pairs(s, d) \cup {<<k, v>>}
  <2>1. ASSUME NEW x \in Pairs(r, q) PROVE x \in Pairs(s, d) \cup {<<k, v>>}
    <3>1. PICK j \in 1 .. Len(s) + 1 : x = <<r[j], q[j]>>
      BY <1>1 DEF Pairs
    <3>2. QED
      BY <1>4, <3>1 DEF Pairs
  <2>2. ASSUME NEW x \in Pairs(s, d) PROVE x \in Pairs(r, q)
    <3>1. PICK i \in 1 .. Len(s) : x = <<s[i], d[i]>>
      BY DEF Pairs
    <3>2. QED
      BY <1>1, <1>5, <3>1 DEF Pairs
  <2>3. <<k, v>> \in Pairs(r, q)
    <3>1. n \in 1 .. Len(r) /\ r[n] = k /\ q[n] = v
      BY <1>1, <1>2
    <3>2. QED
      BY <3>1 DEF Pairs
  <2>4. QED
    BY <2>1, <2>2, <2>3
<1>8. Ascending(r)
  <2> SUFFICES ASSUME NEW i \in 1 .. Len(s) + 1, NEW j \in 1 .. Len(s) + 1, i < j PROVE r[i] < r[j]
    BY <1>3 DEF Ascending
  <2>1. \A x, y \in 1 .. Len(s) : x < y => s[x] < s[y]
    BY <1>0 DEF Ascending
  <2>2. CASE j < n
    <3>1. j \in 1 .. Len(s) /\ i \in 1 .. Len(s) /\ r[j] = s[j] /\ r[i] = s[i]
      BY <1>n, <1>1, <2>2
    <3>2. QED
      BY <2>1, <3>1
  <2>3. CASE j = n
    <3>1. i \in 1 .. Len(s) /\ i < n /\ r[j] = k /\ r[i] = s[i]
      BY <1>n, <1>1, <2>3
    <3>2. QED
      BY <3>1
  <2>4. CASE j > n /\ i < n
    <3>1. j - 1 \in 1 .. Len(s) /\ i \in 1 .. Len(s) /\ i < j - 1 /\ r[j] = s[j - 1] /\ r[i] = s[i]
      BY <1>n, <1>1, <2>4
    <3>2. QED
      BY <2>1, <3>1
  <2>5. CASE j > n /\ i = n
    <3>1. j - 1 \in 1 .. Len(s) /\ j - 1 >= n /\ r[j] = s[j - 1] /\ r[i] = k
      BY <1>n, <1>1, <2>5
    <3>2. QED
      BY <3>1
  <2>6. CASE j > n /\ i > n
    <3>1. /\ j - 1 \in 1 .. Len(s) /\ i - 1 \in 1 .. Len(s) /\ i - 1 < j - 1
          /\ r[j] = s[j - 1] /\ r[i] = s[i - 1]
      BY <1>n, <1>1, <2>6
    <3>2. QED
      BY <2>1, <3>1
  <2>7. QED
    BY <1>n, <2>2, <2>3, <2>4, <2>5, <2>6
<1>9. Last(r) = IF n > Len(s) THEN k ELSE Last(s)
  <2>1. Last(r) = r[Len(s) + 1] /\ Last(s) = s[Len(s)]
    BY <1>1 DEF Last
  <2>2. QED
    BY <1>0, <1>1, <2>1
<1>10. QED
  BY <1>1, <1>2, <1>3, <1>6, <1>7, <1>8, <1>9 DEF r, q

\* An entry taken out of an ascending array.
LEMMA TakenOut ==
    ASSUME NEW s \in Seq(Key), Ascending(s), NEW n \in 1 .. Len(s),
           NEW d \in Seq(Val), Len(d) = Len(s)
    PROVE  /\ RemoveAt(s, n) \in Seq(Key) /\ Len(RemoveAt(s, n)) = Len(s) - 1
           /\ Ascending(RemoveAt(s, n))
           /\ RemoveAt(d, n) \in Seq(Val) /\ Len(RemoveAt(d, n)) = Len(s) - 1
           /\ ToSet(RemoveAt(s, n)) = ToSet(s) \ {s[n]}
           /\ Pairs(RemoveAt(s, n), RemoveAt(d, n)) = Pairs(s, d) \ {<<s[n], d[n]>>}
           /\ Pairs(RemoveAt(s, n), RemoveAt(d, n)) = Without(Pairs(s, d), s[n])
           /\ Len(s) > 1 =>
                /\ RemoveAt(s, n) # <<>>
                /\ Last(RemoveAt(s, n)) = IF n = Len(s) THEN s[n - 1] ELSE Last(s)
<1> DEFINE r == RemoveAt(s, n)
           q == RemoveAt(d, n)
<1>0. /\ Len(s) \in Nat /\ DOMAIN s = 1 .. Len(s)
      /\ \A i \in 1 .. Len(s) : s[i] \in Int
      /\ ToSet(s) = {s[i] : i \in 1 .. Len(s)}
  BY KeysAreNumbers
<1>n. Len(s) \in Nat
  BY <1>0
<1>1. /\ r \in Seq(Key) /\ Len(r) = Len(s) - 1
      /\ \A j \in 1 .. Len(s) - 1 : r[j] = IF j < n THEN s[j] ELSE s[j + 1]
  BY RemoveAtIs
<1>2. /\ q \in Seq(Val) /\ Len(q) = Len(s) - 1
      /\ \A j \in 1 .. Len(s) - 1 : q[j] = IF j < n THEN d[j] ELSE d[j + 1]
  BY RemoveAtIs
<1> HIDE DEF r, q
<1>3. DOMAIN r = 1 .. Len(s) - 1 /\ ToSet(r) = {r[j] : j \in 1 .. Len(s) - 1}
  <2>1. DOMAIN r = 1 .. Len(r) /\ ToSet(r) = {r[j] : j \in 1 .. Len(r)}
    BY <1>1, KeysAreNumbers
  <2>2. QED
    BY <1>1, <2>1
<1>4. \A x, y \in 1 .. Len(s) : x < y => s[x] < s[y]
  BY <1>0 DEF Ascending
<1>5. \A i \in 1 .. Len(s) : s[i] = s[n] => i = n
  BY <1>0, <1>4
<1>6. ASSUME NEW j \in 1 .. Len(s) - 1
      PROVE  \E i \in 1 .. Len(s) : i # n /\ r[j] = s[i] /\ q[j] = d[i]
  <2>1. CASE j < n
    <3>1. j \in 1 .. Len(s) /\ j # n
      BY <1>n, <2>1
    <3>2. r[j] = s[j] /\ q[j] = d[j]
      BY <1>1, <1>2, <2>1
    <3>3. QED
      BY <3>1, <3>2
  <2>2. CASE j >= n
    BY <1>n, <1>1, <1>2, <2>2
  <2>3. QED
    BY <1>0, <2>1, <2>2
<1>7. ASSUME NEW i \in 1 .. Len(s), i # n
      PROVE  \E j \in 1 .. Len(s) - 1 : r[j] = s[i] /\ q[j] = d[i]
  <2>1. CASE i < n
    <3>1. i \in 1 .. Len(s) - 1 /\ r[i] = s[i] /\ q[i] = d[i]
      BY SMTT(60), <1>n, <1>1, <1>2, <2>1
    <3>2. QED
      BY <3>1
  <2>2. CASE i > n
    <3>1. i - 1 \in 1 .. Len(s) - 1 /\ i - 1 >= n /\ (i - 1) + 1 = i
      BY <1>n, <2>2
    <3>2. r[i - 1] = s[i] /\ q[i - 1] = d[i]
      BY <1>1, <1>2, <3>1
    <3>3. QED
      BY <3>1, <3>2
  <2>3. QED
    BY <1>0, <1>7, <2>1, <2>2
<1>8. ToSet(r) = ToSet(s) \ {s[n]}
  <2>1. ASSUME NEW x \in ToSet(r) PROVE x \in ToSet(s) \ {s[n]}
    BY <1>0, <1>3, <1>5, <1>6, <2>1
  <2>2. ASSUME NEW x \in ToSet(s) \ {s[n]} PROVE x \in ToSet(r)
    BY <1>0, <1>3, <1>7, <2>2
  <2>3. QED
    BY <2>1, <2>2
<1>9. Pairs(r, q) = Pairs(s, d) \ {<<s[n], d[n]>>}
  <2>1. ASSUME NEW x \in Pairs(r, q) PROVE x \in Pairs(s, d) \ {<<s[n], d[n]>>}
    <3>1. PICK j \in 1 .. Len(s) - 1 : x = <<r[j], q[j]>>
      BY <1>1 DEF Pairs
    <3>2. PICK i \in 1 .. Len(s) : i # n /\ x = <<s[i], d[i]>>
      BY <1>6, <3>1
    <3>3. QED
      BY <1>5, <3>2 DEF Pairs
  <2>2. ASSUME NEW x \in Pairs(s, d) \ {<<s[n], d[n]>>} PROVE x \in Pairs(r, q)
    <3>1. PICK i \in 1 .. Len(s) : x = <<s[i], d[i]>> /\ i # n
      BY <2>2 DEF Pairs
    <3>2. QED
      BY <1>1, <1>7, <3>1 DEF Pairs
  <2>3. QED
    BY <2>1, <2>2
<1>10. Ascending(r)
  <2> SUFFICES ASSUME NEW i \in 1 .. Len(s) - 1, NEW j \in 1 .. Len(s) - 1, i < j PROVE r[i] < r[j]
    BY <1>3 DEF Ascending
  <2>1. CASE j < n
    <3>1. j \in 1 .. Len(s) /\ i \in 1 .. Len(s) /\ r[j] = s[j] /\ r[i] = s[i]
      BY <1>n, <1>1, <2>1
    <3>2. QED
      BY <1>4, <3>1
  <2>2. CASE j >= n /\ i < n
    <3>1. j + 1 \in 1 .. Len(s) /\ i \in 1 .. Len(s) /\ i < j + 1 /\ r[j] = s[j + 1] /\ r[i] = s[i]
      BY <1>n, <1>1, <2>2
    <3>2. QED
      BY <1>4, <3>1
  <2>3. CASE i >= n
    <3>1. /\ j + 1 \in 1 .. Len(s) /\ i + 1 \in 1 .. Len(s) /\ i + 1 < j + 1
          /\ r[j] = s[j + 1] /\ r[i] = s[i + 1]
      BY <1>n, <1>1, <2>3
    <3>2. QED
      BY <1>4, <3>1
  <2>4. QED
    BY <1>n, <2>1, <2>2, <2>3
<1>11. Len(s) > 1 => r # <<>> /\ Last(r) = IF n = Len(s) THEN s[n - 1] ELSE Last(s)
  <2> HAVE Len(s) > 1
  <2>1. Last(r) = r[Len(s) - 1] /\ Last(s) = s[Len(s)]
    BY <1>1 DEF Last
  <2>2. r # <<>>
    BY <1>0, <1>1
  <2>3. QED
    BY <1>0, <1>1, <2>1, <2>2
<1>12. Pairs(s, d) \ {<<s[n], d[n]>>} = Without(Pairs(s, d), s[n])
  BY <1>5 DEF Pairs, Without
<1>13. QED
  BY <1>1, <1>2, <1>8, <1>9, <1>10, <1>11, <1>12 DEF r, q

\* A key greater than all of an array, appended to it.
LEMMA PutBehind ==
    ASSUME NEW s \in Seq(Key), Ascending(s), NEW k \in Key, \A i \in 1 .. Len(s) : s[i] < k,
           NEW d \in Seq(Val), Len(d) = Len(s), NEW v \in Val
    PROVE  /\ Append(s, k) \in Seq(Key) /\ Len(Append(s, k)) = Len(s) + 1
           /\ Append(s, k) # <<>> /\ Ascending(Append(s, k))
           /\ Append(d, v) \in Seq(Val) /\ Len(Append(d, v)) = Len(s) + 1
           /\ ToSet(Append(s, k)) = ToSet(s) \cup {k}
           /\ Pairs(Append(s, k), Append(d, v)) = Pairs(s, d) \cup {<<k, v>>}
           /\ Last(Append(s, k)) = k
<1> DEFINE n == Len(s) + 1
<1>1. n \in 1 .. Len(s) + 1 /\ n > Len(s)
      /\ \A i \in 1 .. Len(s) : (i < n => s[i] < k) /\ (i >= n => k < s[i])
  BY LenProperties
<1>2. Append(s, k) = InsertAt(s, n, k) /\ Append(d, v) = InsertAt(d, n, v)
  BY AppendIsInsertAt
<1> HIDE DEF n
<1>3. /\ InsertAt(s, n, k) \in Seq(Key) /\ Len(InsertAt(s, n, k)) = Len(s) + 1
      /\ InsertAt(s, n, k) # <<>> /\ Ascending(InsertAt(s, n, k))
      /\ InsertAt(d, n, v) \in Seq(Val) /\ Len(InsertAt(d, n, v)) = Len(s) + 1
      /\ ToSet(InsertAt(s, n, k)) = ToSet(s) \cup {k}
      /\ Pairs(InsertAt(s, n, k), InsertAt(d, n, v)) = Pairs(s, d) \cup {<<k, v>>}
      /\ Last(InsertAt(s, n, k)) = IF n > Len(s) THEN k ELSE Last(s)
  BY <1>1, PutIn
<1>4. QED
  BY <1>1, <1>2, <1>3

\* A key put into an array whose first key leaves it.
LEMMA PutForFirst ==
    ASSUME NEW s \in Seq(Key), Ascending(s), Len(s) > 1,
           NEW k \in Key, NEW n \in Lower(s, k), ~(n <= Len(s) /\ s[n] = k), s[1] < k,
           NEW d \in Seq(Val), Len(d) = Len(s), NEW v \in Val
    PROVE  LET u == InsertAt(Tail(s), n - 1, k)
               w == InsertAt(Tail(d), n - 1, v)
           IN  /\ u \in Seq(Key) /\ Len(u) = Len(s) /\ u # <<>> /\ Ascending(u)
               /\ w \in Seq(Val) /\ Len(w) = Len(s)
               /\ ToSet(u) = (ToSet(s) \ {s[1]}) \cup {k}
               /\ Pairs(u, w) = (Pairs(s, d) \ {<<s[1], d[1]>>}) \cup {<<k, v>>}
               /\ Last(u) = IF n > Len(s) THEN k ELSE Last(s)
<1> DEFINE t == Tail(s)
           e == Tail(d)
           m == n - 1
<1>1. Len(s) \in Nat /\ 1 \in 1 .. Len(s) /\ s # <<>> /\ d # <<>> /\ k \in Int
      /\ \A i \in 1 .. Len(s) : s[i] \in Int
  <2>1. Len(s) \in Nat /\ \A i \in 1 .. Len(s) : s[i] \in Int
    BY KeysAreNumbers
  <2>2. s # <<>> /\ d # <<>>
    BY EmptySeq
  <2>3. QED
    BY <2>1, <2>2, KeyAssumption DEF KeyAssumption
<1>2. n \in 1 .. Len(s) + 1 /\ \A i \in 1 .. Len(s) : (i < n => s[i] < k) /\ (i >= n => k < s[i])
  BY LowerSplits
<1>3. n > 1
  <2>1. ~(1 >= n)
    BY <1>1, <1>2
  <2>2. QED
    BY <1>2, <2>1
<1>4. t = RemoveAt(s, 1) /\ e = RemoveAt(d, 1)
  BY <1>1, TailIsRemoveAt
<1> DEFINE one == 1
<1> HIDE DEF one
<1>o. one \in 1 .. Len(s) /\ one = 1
  BY <1>1 DEF one
<1>5. /\ RemoveAt(s, one) \in Seq(Key) /\ Len(RemoveAt(s, one)) = Len(s) - 1 /\ Ascending(RemoveAt(s, one))
      /\ RemoveAt(d, one) \in Seq(Val) /\ Len(RemoveAt(d, one)) = Len(s) - 1
      /\ ToSet(RemoveAt(s, one)) = ToSet(s) \ {s[one]}
      /\ Pairs(RemoveAt(s, one), RemoveAt(d, one)) = Pairs(s, d) \ {<<s[one], d[one]>>}
      /\ Last(RemoveAt(s, one)) = IF one = Len(s) THEN s[one - 1] ELSE Last(s)
  BY ZenonT(60), <1>o, TakenOut
<1>6. /\ t \in Seq(Key) /\ Len(t) = Len(s) - 1 /\ Ascending(t)
      /\ e \in Seq(Val) /\ Len(e) = Len(s) - 1
      /\ ToSet(t) = ToSet(s) \ {s[1]}
      /\ Pairs(t, e) = Pairs(s, d) \ {<<s[1], d[1]>>}
      /\ Last(t) = Last(s)
  <2>1. one # Len(s)
    BY <1>o
  <2> HIDE DEF t, e
  <2>2. QED
    BY <1>4, <1>5, <1>o, <2>1
<1>7. \A i \in 1 .. Len(t) : t[i] = s[i + 1]
  BY <1>1, HeadTailProperties
<1> HIDE DEF t, e
<1>8. m \in 1 .. Len(t) + 1 /\ (m > Len(t) <=> n > Len(s))
  BY <1>1, <1>2, <1>3, <1>6
<1>9. \A i \in 1 .. Len(t) : (i < m => t[i] < k) /\ (i >= m => k < t[i])
  <2> TAKE i \in 1 .. Len(t)
  <2>1. i + 1 \in 1 .. Len(s) /\ (i < m => i + 1 < n) /\ (i >= m => i + 1 >= n)
    BY <1>1, <1>2, <1>6
  <2>2. QED
    BY <1>2, <1>7, <2>1
<1> HIDE DEF m
<1>10. /\ InsertAt(t, m, k) \in Seq(Key) /\ Len(InsertAt(t, m, k)) = Len(t) + 1
       /\ InsertAt(t, m, k) # <<>> /\ Ascending(InsertAt(t, m, k))
       /\ InsertAt(e, m, v) \in Seq(Val) /\ Len(InsertAt(e, m, v)) = Len(t) + 1
       /\ ToSet(InsertAt(t, m, k)) = ToSet(t) \cup {k}
       /\ Pairs(InsertAt(t, m, k), InsertAt(e, m, v)) = Pairs(t, e) \cup {<<k, v>>}
       /\ Last(InsertAt(t, m, k)) = IF m > Len(t) THEN k ELSE Last(t)
  <2>1. Len(e) = Len(t)
    BY <1>6
  <2>2. QED
    BY <1>6, <1>8, <1>9, <2>1, PutIn
<1>11. Len(t) + 1 = Len(s)
  BY <1>1, <1>6
<1>12. QED
  BY <1>6, <1>8, <1>10, <1>11 DEF t, e, m

\* An array cut in two.
LEMMA CutIn ==
    ASSUME NEW s \in Seq(Key), Ascending(s), NEW m \in 1 .. Len(s) - 1,
           NEW d \in Seq(Val), Len(d) = Len(s)
    PROVE  LET lo  == SubSeq(s, 1, m)
               hi  == SubSeq(s, m + 1, Len(s))
               dlo == SubSeq(d, 1, m)
               dhi == SubSeq(d, m + 1, Len(d))
           IN
           /\ lo \in Seq(Key) /\ Len(lo) = m /\ Ascending(lo) /\ \A i \in 1 .. m : lo[i] = s[i]
           /\ hi \in Seq(Key) /\ Len(hi) = Len(s) - m /\ Ascending(hi)
           /\ \A i \in 1 .. Len(s) - m : hi[i] = s[m + i]
           /\ dlo \in Seq(Val) /\ Len(dlo) = m /\ dhi \in Seq(Val) /\ Len(dhi) = Len(s) - m
           /\ ToSet(lo) \cup ToSet(hi) = ToSet(s) /\ Before(ToSet(lo), ToSet(hi))
           /\ Pairs(lo, dlo) \cup Pairs(hi, dhi) = Pairs(s, d)
<1> DEFINE lo  == SubSeq(s, 1, m)
           hi  == SubSeq(s, m + 1, Len(s))
           dlo == SubSeq(d, 1, m)
           dhi == SubSeq(d, m + 1, Len(d))
<1>0. /\ Len(s) \in Nat /\ DOMAIN s = 1 .. Len(s)
      /\ ToSet(s) = {s[i] : i \in 1 .. Len(s)}
  BY KeysAreNumbers
<1>n. Len(s) \in Nat
  BY <1>0
<1>1. lo \in Seq(Key) /\ Len(lo) = m /\ \A i \in 1 .. m : lo[i] = s[i]
  <2>1. \A i \in 1 .. m : s[i] \in Key
    BY <1>n
  <2>2. /\ lo \in Seq(Key) /\ Len(lo) = (IF 1 <= m THEN m - 1 + 1 ELSE 0)
        /\ \A i \in 1 .. m - 1 + 1 : lo[i] = s[1 + i - 1]
    BY <2>1, SubSeqProperties
  <2>3. QED
    BY <1>n, <2>2
<1>2. hi \in Seq(Key) /\ Len(hi) = Len(s) - m /\ \A i \in 1 .. Len(s) - m : hi[i] = s[m + i]
  <2>1. \A i \in m + 1 .. Len(s) : s[i] \in Key
    BY <1>n
  <2>2. /\ hi \in Seq(Key) /\ Len(hi) = (IF m + 1 <= Len(s) THEN Len(s) - (m + 1) + 1 ELSE 0)
        /\ \A i \in 1 .. Len(s) - (m + 1) + 1 : hi[i] = s[m + 1 + i - 1]
    BY <1>n, <2>1, SubSeqProperties
  <2>3. Len(s) - (m + 1) + 1 = Len(s) - m /\ m + 1 <= Len(s) /\ \A i \in 1 .. Len(s) - m : m + 1 + i - 1 = m + i
    BY <1>n
  <2>4. QED
    BY <2>2, <2>3
<1>3. dlo \in Seq(Val) /\ Len(dlo) = m /\ \A i \in 1 .. m : dlo[i] = d[i]
  <2>1. \A i \in 1 .. m : d[i] \in Val
    BY <1>n
  <2>2. /\ dlo \in Seq(Val) /\ Len(dlo) = (IF 1 <= m THEN m - 1 + 1 ELSE 0)
        /\ \A i \in 1 .. m - 1 + 1 : dlo[i] = d[1 + i - 1]
    BY <2>1, SubSeqProperties
  <2>3. QED
    BY <1>n, <2>2
<1>4. dhi \in Seq(Val) /\ Len(dhi) = Len(s) - m /\ \A i \in 1 .. Len(s) - m : dhi[i] = d[m + i]
  <2>1. \A i \in m + 1 .. Len(d) : d[i] \in Val
    BY <1>n
  <2>2. /\ dhi \in Seq(Val) /\ Len(dhi) = (IF m + 1 <= Len(d) THEN Len(d) - (m + 1) + 1 ELSE 0)
        /\ \A i \in 1 .. Len(d) - (m + 1) + 1 : dhi[i] = d[m + 1 + i - 1]
    BY <1>n, <2>1, SubSeqProperties
  <2>3. Len(s) - (m + 1) + 1 = Len(s) - m /\ m + 1 <= Len(s) /\ \A i \in 1 .. Len(s) - m : m + 1 + i - 1 = m + i
    BY <1>n
  <2>4. QED
    BY <2>2, <2>3
<1> HIDE DEF lo, hi, dlo, dhi
<1>5. \A x, y \in 1 .. Len(s) : x < y => s[x] < s[y]
  BY <1>0 DEF Ascending
<1>6. /\ DOMAIN lo = 1 .. m /\ ToSet(lo) = {lo[i] : i \in 1 .. m}
      /\ DOMAIN hi = 1 .. Len(s) - m /\ ToSet(hi) = {hi[i] : i \in 1 .. Len(s) - m}
  BY <1>1, <1>2, KeysAreNumbers
<1>7. Ascending(lo) /\ Ascending(hi)
  <2>1. \A i, j \in 1 .. m : i < j => lo[i] < lo[j]
    <3> TAKE i, j \in 1 .. m
    <3>1. i \in 1 .. Len(s) /\ j \in 1 .. Len(s)
      BY <1>n
    <3>2. QED
      BY <1>1, <1>5, <3>1
  <2>2. \A i, j \in 1 .. Len(s) - m : i < j => hi[i] < hi[j]
    <3> TAKE i, j \in 1 .. Len(s) - m
    <3>1. m + i \in 1 .. Len(s) /\ m + j \in 1 .. Len(s) /\ (i < j => m + i < m + j)
      BY <1>n
    <3>2. QED
      BY <1>2, <1>5, <3>1
  <2>3. QED
    BY <1>6, <2>1, <2>2 DEF Ascending
<1>8. ASSUME NEW i \in 1 .. Len(s)
      PROVE  \/ \E j \in 1 .. m : lo[j] = s[i] /\ dlo[j] = d[i]
             \/ \E j \in 1 .. Len(s) - m : hi[j] = s[i] /\ dhi[j] = d[i]
  <2>1. CASE i <= m
    <3>1. i \in 1 .. m
      BY <2>1
    <3>2. lo[i] = s[i] /\ dlo[i] = d[i]
      BY <1>1, <1>3, <3>1
    <3>3. QED
      BY <3>1, <3>2
  <2>2. CASE i > m
    <3>1. i - m \in 1 .. Len(s) - m /\ m + (i - m) = i
      BY <1>n, <2>2
    <3>2. hi[i - m] = s[i] /\ dhi[i - m] = d[i]
      BY <1>2, <1>4, <3>1
    <3>3. QED
      BY <3>1, <3>2
  <2>3. i <= m \/ i > m
    BY <1>n
  <2>4. QED
    BY <2>1, <2>2, <2>3
<1>9. /\ \A j \in 1 .. m : j \in 1 .. Len(s)
      /\ \A j \in 1 .. Len(s) - m : m + j \in 1 .. Len(s)
      /\ \A i \in 1 .. m, j \in 1 .. Len(s) - m : i < m + j
  BY <1>n
<1>10. ToSet(lo) \cup ToSet(hi) = ToSet(s)
  <2>1. ASSUME NEW x \in ToSet(lo) PROVE x \in ToSet(s)
    BY <1>0, <1>1, <1>6, <1>9, <2>1
  <2>2. ASSUME NEW x \in ToSet(hi) PROVE x \in ToSet(s)
    BY <1>0, <1>2, <1>6, <1>9, <2>2
  <2>3. ASSUME NEW x \in ToSet(s) PROVE x \in ToSet(lo) \cup ToSet(hi)
    BY <1>0, <1>6, <1>8, <2>3
  <2>4. QED
    BY <2>1, <2>2, <2>3
<1>11. Before(ToSet(lo), ToSet(hi))
  <2> SUFFICES ASSUME NEW i \in 1 .. m, NEW j \in 1 .. Len(s) - m PROVE lo[i] < hi[j]
    BY <1>6 DEF Before
  <2>1. i \in 1 .. Len(s) /\ m + j \in 1 .. Len(s) /\ i < m + j
    BY <1>9
  <2>2. QED
    BY <1>1, <1>2, <1>5, <2>1
<1>12. Pairs(lo, dlo) \cup Pairs(hi, dhi) = Pairs(s, d)
  <2>1. ASSUME NEW x \in Pairs(lo, dlo) PROVE x \in Pairs(s, d)
    <3>1. PICK i \in 1 .. m : x = <<lo[i], dlo[i]>>
      BY <1>1 DEF Pairs
    <3>2. QED
      BY <1>1, <1>3, <1>9, <3>1 DEF Pairs
  <2>2. ASSUME NEW x \in Pairs(hi, dhi) PROVE x \in Pairs(s, d)
    <3>1. PICK i \in 1 .. Len(s) - m : x = <<hi[i], dhi[i]>>
      BY <1>2 DEF Pairs
    <3>2. QED
      BY <1>2, <1>4, <1>9, <3>1 DEF Pairs
  <2>3. ASSUME NEW x \in Pairs(s, d) PROVE x \in Pairs(lo, dlo) \cup Pairs(hi, dhi)
    <3>1. PICK i \in 1 .. Len(s) : x = <<s[i], d[i]>>
      BY DEF Pairs
    <3>2. QED
      BY <1>1, <1>2, <1>8, <3>1 DEF Pairs
  <2>4. QED
    BY <2>1, <2>2, <2>3
<1>13. QED
  BY <1>1, <1>2, <1>3, <1>4, <1>7, <1>10, <1>11, <1>12 DEF lo, hi, dlo, dhi

\* A full array split for a new key: what the two halves hold, and their ends.
LEMMA HalvesAre ==
    ASSUME NEW s \in Seq(Key), Ascending(s), Len(s) = ChildSlotMax,
           NEW k \in Key, NEW n \in Lower(s, k), ~(n <= Len(s) /\ s[n] = k),
           NEW d \in Seq(Val), Len(d) = Len(s), NEW v \in Val
    PROVE  LET L == LeftHalf(s, n, k)
               R == RightHalf(s, n, k)
               DL == LeftHalf(d, n, v)
               DR == RightHalf(d, n, v)
           IN  /\ L \in Seq(Key) /\ R \in Seq(Key) /\ Ascending(L) /\ Ascending(R)
               /\ Len(L) <= ChildSlotMax /\ Len(R) <= ChildSlotMax /\ L # <<>> /\ R # <<>>
               /\ DL \in Seq(Val) /\ DR \in Seq(Val) /\ Len(DL) = Len(L) /\ Len(DR) = Len(R)
               /\ ToSet(L) \cup ToSet(R) = ToSet(s) \cup {k} /\ Before(ToSet(L), ToSet(R))
               /\ Pairs(L, DL) \cup Pairs(R, DR) = Pairs(s, d) \cup {<<k, v>>}
               /\ Last(L) = s[Mid]
               /\ Last(R) = IF n > Len(s) THEN k ELSE Last(s)
<1> DEFINE m == Mid
           lo == SubSeq(s, 1, m)
           hi == SubSeq(s, m + 1, Len(s))
           dlo == SubSeq(d, 1, m)
           dhi == SubSeq(d, m + 1, Len(d))
           L == LeftHalf(s, n, k)
           R == RightHalf(s, n, k)
           DL == LeftHalf(d, n, v)
           DR == RightHalf(d, n, v)
<1>0. m \in 1 .. Len(s) - 1 /\ m \in Nat /\ Len(s) \in Nat /\ Len(s) - m \in Nat
  <2>1. ChildSlotMax \in Nat /\ ChildSlotMax >= 2
    BY SlotAssumption
  <2>2. ChildSlotMax \div 2 \in 1 .. ChildSlotMax - 1
    BY <2>1
  <2>3. QED
    BY <2>1, <2>2 DEF Mid
<1>1. /\ n \in 1 .. Len(s) + 1
      /\ \A i \in 1 .. Len(s) : (i < n => s[i] < k) /\ (i >= n => k < s[i])
  BY LowerSplits
<1>d. /\ L = IF n > m THEN lo ELSE InsertAt(lo, n, k)
      /\ R = IF n > m THEN InsertAt(hi, n - m, k) ELSE hi
      /\ DL = IF n > m THEN dlo ELSE InsertAt(dlo, n, v)
      /\ DR = IF n > m THEN InsertAt(dhi, n - m, v) ELSE dhi
  BY DEF LeftHalf, RightHalf
<1> HIDE DEF m, lo, hi, dlo, dhi, L, R, DL, DR
<1>2. /\ lo \in Seq(Key) /\ Len(lo) = m /\ Ascending(lo) /\ \A i \in 1 .. m : lo[i] = s[i]
      /\ hi \in Seq(Key) /\ Len(hi) = Len(s) - m /\ Ascending(hi)
      /\ \A i \in 1 .. Len(s) - m : hi[i] = s[m + i]
      /\ dlo \in Seq(Val) /\ Len(dlo) = m /\ dhi \in Seq(Val) /\ Len(dhi) = Len(s) - m
      /\ ToSet(lo) \cup ToSet(hi) = ToSet(s) /\ Before(ToSet(lo), ToSet(hi))
      /\ Pairs(lo, dlo) \cup Pairs(hi, dhi) = Pairs(s, d)
  BY <1>0, CutIn, ZenonT(60) DEF lo, hi, dlo, dhi
<1>e. Last(lo) = s[m] /\ Last(hi) = Last(s) /\ lo # <<>> /\ hi # <<>>
  <2>1. Last(lo) = lo[m] /\ Last(hi) = hi[Len(s) - m] /\ Last(s) = s[Len(s)]
    BY <1>2 DEF Last
  <2>2. m \in 1 .. m /\ Len(s) - m \in 1 .. Len(s) - m /\ m + (Len(s) - m) = Len(s)
    BY <1>0
  <2>3. lo # <<>> /\ hi # <<>>
    BY <1>0, <1>2
  <2>4. QED
    BY <1>2, <2>1, <2>2, <2>3
<1>k. k \in Int /\ ToSet(lo) = {lo[i] : i \in 1 .. m} /\ ToSet(hi) = {hi[i] : i \in 1 .. Len(s) - m}
  BY <1>2, KeysAreNumbers, KeyAssumption DEF KeyAssumption
\* the key goes to the right half
<1>3. CASE n > m
  <2>1. n - m \in 1 .. Len(hi) + 1
    BY <1>0, <1>1, <1>2, <1>3
  <2>2. \A i \in 1 .. Len(hi) : (i < n - m => hi[i] < k) /\ (i >= n - m => k < hi[i])
    <3> TAKE i \in 1 .. Len(hi)
    <3>1. i \in 1 .. Len(s) - m
      BY <1>2
    <3>2. m + i \in 1 .. Len(s) /\ (i < n - m => m + i < n) /\ (i >= n - m => m + i >= n)
      BY <1>0, <1>1, <3>1
    <3>3. QED
      BY <1>1, <1>2, <3>1, <3>2
  <2>3. L = lo /\ R = InsertAt(hi, n - m, k) /\ DL = dlo /\ DR = InsertAt(dhi, n - m, v)
    BY <1>3, <1>d
  <2>4. /\ R \in Seq(Key) /\ Len(R) = Len(hi) + 1 /\ R # <<>> /\ Ascending(R)
        /\ DR \in Seq(Val) /\ Len(DR) = Len(hi) + 1 /\ ToSet(R) = ToSet(hi) \cup {k}
        /\ Pairs(R, DR) = Pairs(hi, dhi) \cup {<<k, v>>}
        /\ Last(R) = IF n - m > Len(hi) THEN k ELSE Last(hi)
    <3>1. /\ hi \in Seq(Key) /\ Ascending(hi) /\ dhi \in Seq(Val) /\ Len(dhi) = Len(hi)
          /\ n - m \in 1 .. Len(hi) + 1
          /\ \A i \in 1 .. Len(hi) : (i < n - m => hi[i] < k) /\ (i >= n - m => k < hi[i])
      BY <1>2, <2>1, <2>2
    <3> DEFINE j == n - m
    <3> HIDE DEF j
    <3>2. /\ hi \in Seq(Key) /\ Ascending(hi) /\ dhi \in Seq(Val) /\ Len(dhi) = Len(hi)
          /\ j \in 1 .. Len(hi) + 1
          /\ \A i \in 1 .. Len(hi) : (i < j => hi[i] < k) /\ (i >= j => k < hi[i])
      BY <3>1 DEF j
    <3>3. /\ InsertAt(hi, j, k) \in Seq(Key) /\ Len(InsertAt(hi, j, k)) = Len(hi) + 1
          /\ InsertAt(hi, j, k) # <<>> /\ Ascending(InsertAt(hi, j, k))
          /\ InsertAt(dhi, j, v) \in Seq(Val) /\ Len(InsertAt(dhi, j, v)) = Len(hi) + 1
          /\ ToSet(InsertAt(hi, j, k)) = ToSet(hi) \cup {k}
          /\ Pairs(InsertAt(hi, j, k), InsertAt(dhi, j, v)) = Pairs(hi, dhi) \cup {<<k, v>>}
          /\ Last(InsertAt(hi, j, k)) = IF j > Len(hi) THEN k ELSE Last(hi)
      BY <3>2, PutIn
    <3>4. R = InsertAt(hi, j, k) /\ DR = InsertAt(dhi, j, v)
      BY <2>3 DEF j
    <3>5. QED
      BY <3>3, <3>4 DEF j
  <2>5. Len(L) <= ChildSlotMax /\ Len(R) <= ChildSlotMax /\ (n - m > Len(hi) <=> n > Len(s))
    <3>1. Len(L) = m /\ Len(R) = Len(s) - m + 1 /\ Len(hi) = Len(s) - m
      BY <1>2, <2>3, <2>4
    <3>2. QED
      BY <1>0, <1>1, <3>1
  <2>6. Before(ToSet(lo), {k})
    <3> SUFFICES ASSUME NEW i \in 1 .. m PROVE lo[i] < k
      BY <1>k DEF Before
    <3>1. i \in 1 .. Len(s) /\ i < n
      BY <1>0, <1>1, <1>3
    <3>2. QED
      BY <1>1, <1>2, <3>1
  <2>7. Before(ToSet(L), ToSet(R))
    BY <1>2, <2>3, <2>4, <2>6 DEF Before
  <2>8. Last(R) = IF n > Len(s) THEN k ELSE Last(s)
    BY <1>e, <2>4, <2>5
  <2>9. ToSet(L) \cup ToSet(R) = ToSet(s) \cup {k} /\ Pairs(L, DL) \cup Pairs(R, DR) = Pairs(s, d) \cup {<<k, v>>}
    BY <1>2, <2>3, <2>4
  <2>10. Last(L) = s[Mid]
    BY <1>e, <2>3 DEF m
  <2>11. QED
    BY <1>2, <1>e, <2>3, <2>4, <2>5, <2>7, <2>8, <2>9, <2>10 DEF L, R, DL, DR
\* the key goes to the left half
<1>4. CASE n <= m
  <2>1. n \in 1 .. Len(lo) + 1
    BY <1>0, <1>1, <1>2, <1>4
  <2>2. \A i \in 1 .. Len(lo) : (i < n => lo[i] < k) /\ (i >= n => k < lo[i])
    <3> TAKE i \in 1 .. Len(lo)
    <3>1. i \in 1 .. m /\ i \in 1 .. Len(s)
      BY <1>0, <1>2
    <3>2. QED
      BY <1>1, <1>2, <3>1
  <2>3. L = InsertAt(lo, n, k) /\ R = hi /\ DL = InsertAt(dlo, n, v) /\ DR = dhi
    <3>1. ~(n > m)
      BY <1>0, <1>1, <1>4
    <3>2. QED
      BY <1>d, <3>1
  <2>4. /\ L \in Seq(Key) /\ Len(L) = Len(lo) + 1 /\ L # <<>> /\ Ascending(L)
        /\ DL \in Seq(Val) /\ Len(DL) = Len(lo) + 1 /\ ToSet(L) = ToSet(lo) \cup {k}
        /\ Pairs(L, DL) = Pairs(lo, dlo) \cup {<<k, v>>}
        /\ Last(L) = IF n > Len(lo) THEN k ELSE Last(lo)
    <3>1. /\ lo \in Seq(Key) /\ Ascending(lo) /\ dlo \in Seq(Val) /\ Len(dlo) = Len(lo)
          /\ n \in 1 .. Len(lo) + 1
          /\ \A i \in 1 .. Len(lo) : (i < n => lo[i] < k) /\ (i >= n => k < lo[i])
      BY <1>2, <2>1, <2>2
    <3>2. /\ InsertAt(lo, n, k) \in Seq(Key) /\ Len(InsertAt(lo, n, k)) = Len(lo) + 1
          /\ InsertAt(lo, n, k) # <<>> /\ Ascending(InsertAt(lo, n, k))
          /\ InsertAt(dlo, n, v) \in Seq(Val) /\ Len(InsertAt(dlo, n, v)) = Len(lo) + 1
          /\ ToSet(InsertAt(lo, n, k)) = ToSet(lo) \cup {k}
          /\ Pairs(InsertAt(lo, n, k), InsertAt(dlo, n, v)) = Pairs(lo, dlo) \cup {<<k, v>>}
          /\ Last(InsertAt(lo, n, k)) = IF n > Len(lo) THEN k ELSE Last(lo)
      BY <3>1, PutIn
    <3>3. QED
      BY <2>3, <3>2
  <2>5. Len(L) <= ChildSlotMax /\ Len(R) <= ChildSlotMax /\ ~(n > Len(lo)) /\ ~(n > Len(s))
    BY <1>0, <1>1, <1>2, <1>4, <2>3, <2>4
  <2>6. Before({k}, ToSet(hi))
    <3> SUFFICES ASSUME NEW i \in 1 .. Len(s) - m PROVE k < hi[i]
      BY <1>k DEF Before
    <3>1. m + i \in 1 .. Len(s) /\ m + i >= n
      BY <1>0, <1>1, <1>4
    <3>2. QED
      BY <1>1, <1>2, <3>1
  <2>7. Before(ToSet(L), ToSet(R))
    BY <1>2, <2>3, <2>4, <2>6 DEF Before
  <2>8. Last(R) = IF n > Len(s) THEN k ELSE Last(s)
    BY <1>e, <2>3, <2>5
  <2>9. ToSet(L) \cup ToSet(R) = ToSet(s) \cup {k} /\ Pairs(L, DL) \cup Pairs(R, DR) = Pairs(s, d) \cup {<<k, v>>}
    BY <1>2, <2>3, <2>4
  <2>10. Last(L) = s[Mid]
    BY <1>e, <2>4, <2>5 DEF m
  <2>11. QED
    BY <1>2, <1>e, <2>3, <2>4, <2>5, <2>7, <2>8, <2>9, <2>10 DEF L, R, DL, DR
<1>5. QED
  BY <1>0, <1>1, <1>3, <1>4

-----------------------------------------------------------------------------
(* The row, and where a key is routed. *)

\* The row's arrays and how many separators it has, with a root and without.
LEMMA RowIs ==
    ASSUME TypeOK
    PROVE  /\ Row \in Seq(Bin) /\ Len(Row) \in Nat
           /\ \A i \in 1 .. Len(Row) : Row[i] \in Bin
           /\ Len(rootkey) \in Nat /\ (HasRoot => Row = children /\ Len(Row) = Len(rootkey) + 1)
           /\ (~HasRoot => Len(rootkey) = 0 /\ rootkey = <<>>)
           /\ (~HasRoot /\ headbin = NoBin => Len(Row) = 0 /\ Row = <<>>)
           /\ (~HasRoot /\ headbin # NoBin => Len(Row) = 1 /\ Row[1] = headbin /\ Row = <<headbin>>)
<1>1. children \in Seq(Bin) /\ rootkey \in Seq(Key) /\ headbin \in Bin \cup {NoBin}
  BY DEF TypeOK
<1>2. HasRoot => Row = children /\ Len(Row) = Len(rootkey) + 1
  BY DEF TypeOK, Row
<1>3. ~HasRoot => rootkey = <<>> /\ Row = IF headbin = NoBin THEN <<>> ELSE <<headbin>>
  BY DEF TypeOK, Row
<1>4. ~HasRoot /\ headbin = NoBin => Row = <<>> /\ Len(Row) = 0 /\ Row \in Seq(Bin)
  BY <1>3
<1>5. ~HasRoot /\ headbin # NoBin =>
        Row = <<headbin>> /\ Len(Row) = 1 /\ Row[1] = headbin /\ Row \in Seq(Bin)
  <2> HAVE ~HasRoot /\ headbin # NoBin
  <2>1. Row = <<headbin>> /\ headbin \in Bin
    BY <1>1, <1>3
  <2>2. <<headbin>> \in Seq(Bin) /\ Len(<<headbin>>) = 1 /\ <<headbin>>[1] = headbin
    BY <2>1
  <2>3. QED
    BY <2>1, <2>2
<1>6. Row \in Seq(Bin)
  BY <1>1, <1>2, <1>4, <1>5
<1>7. Len(Row) \in Nat /\ Len(rootkey) \in Nat /\ \A i \in 1 .. Len(Row) : Row[i] \in Bin
  BY <1>1, <1>6, ElementOfSeq, LenProperties
<1>8. ~HasRoot => Len(rootkey) = 0
  BY <1>3
<1>9. QED
  BY <1>2, <1>3, <1>4, <1>5, <1>6, <1>7, <1>8

\* The two sequences of an array.
LEMMA ArraysAre ==
    ASSUME TypeOK, NEW b \in Bin
    PROVE  /\ slotkey[b] \in Seq(Key) /\ slotdata[b] \in Seq(Val)
           /\ Len(slotdata[b]) = Len(slotkey[b]) /\ Len(slotkey[b]) \in Nat
           /\ Len(slotkey[b]) <= ChildSlotMax /\ Keys(b) \subseteq Int
<1>1. slotkey[b] \in Seq(Key) /\ slotdata[b] \in Seq(Val) /\ Len(slotdata[b]) = Len(slotkey[b])
      /\ Len(slotkey[b]) <= ChildSlotMax
  BY DEF TypeOK, Used
<1>2. QED
  BY <1>1, KeysAreNumbers DEF Keys

\* In a row that ascends no key is stored twice.
LEMMA RowIsApart ==
    ASSUME TypeOK, RowInv
    PROVE  Apart
<1> SUFFICES ASSUME NEW b \in live
             PROVE  /\ Ascending(slotkey[b])
                    /\ \A c \in live : b # c => Keys(b) \cap Keys(c) = {}
  BY DEF Apart
<1>1. PICK i \in 1 .. Len(Row) : b = Row[i]
  BY DEF RowInv
<1>2. Ascending(slotkey[b])
  BY <1>1 DEF RowInv
<1>3. ASSUME NEW c \in live, b # c PROVE Keys(b) \cap Keys(c) = {}
  <2>1. PICK j \in 1 .. Len(Row) : c = Row[j]
    BY DEF RowInv
  <2>2. (i < j \/ j < i) /\ Row[i] \in Bin /\ Row[j] \in Bin
    BY <1>1, <1>3, <2>1, RowIs
  <2>3. Keys(b) \subseteq Int /\ Keys(c) \subseteq Int
    BY <1>1, <2>1, <2>2, ArraysAre
  <2>4. Before(Keys(b), Keys(c)) \/ Before(Keys(c), Keys(b))
    BY <1>1, <2>1, <2>2 DEF RowInv
  <2>5. QED
    BY <2>3, <2>4 DEF Before
<1>4. QED
  BY <1>2, <1>3

\* RoutedTo names a place of the row, with a root and without.
LEMMA RouteIs ==
    ASSUME TypeOK, NEW key \in Key, NEW slot, NEW b, RoutedTo(key, slot, b)
    PROVE  slot \in 1 .. Len(Row) /\ slot \in Lower(rootkey, key) /\ b = Row[slot]
<1>1. CASE HasRoot
  <2>1. slot \in Lower(rootkey, key) /\ b = children[slot]
    BY <1>1 DEF RoutedTo
  <2>2. slot \in 1 .. Len(rootkey) + 1
    BY <2>1 DEF Lower
  <2>3. QED
    BY <1>1, <2>1, <2>2, RowIs
<1>2. CASE ~HasRoot
  <2>1. slot = 1 /\ headbin # NoBin /\ b = headbin
    BY <1>2 DEF RoutedTo
  <2>2. slot \in Lower(rootkey, key)
    <3>1. Len(rootkey) = 0
      BY <1>2, RowIs
    <3>2. QED
      BY <2>1, <3>1 DEF Lower
  <2>3. Len(Row) = 1 /\ Row[1] = headbin
    BY <1>2, <2>1, RowIs
  <2>4. QED
    BY <2>1, <2>2, <2>3
<1>3. QED
  BY <1>1, <1>2

\* Every key of the arrays left of the routed one is smaller than the key,
\* every key of the arrays right of it is greater.
LEMMA Between ==
    ASSUME TypeOK, RowInv, NEW key \in Key, NEW slot \in 1 .. Len(Row), slot \in Lower(rootkey, key)
    PROVE  /\ \A i \in 1 .. Len(Row) :
                /\ i < slot => Before(Keys(Row[i]), {key})
                /\ i > slot => Before({key}, Keys(Row[i]))
           /\ slot <= Len(rootkey) => key <= Last(slotkey[Row[slot]])
<1>0. Len(Row) \in Nat /\ Len(rootkey) \in Nat /\ Len(Row) <= Len(rootkey) + 1 /\ key \in Int
      /\ (HasRoot => Len(Row) = Len(rootkey) + 1) /\ (~HasRoot => Len(rootkey) = 0)
      /\ \A i \in 1 .. Len(Row) : Row[i] \in Bin
  BY RowIs, KeyAssumption DEF KeyAssumption
<1>1. /\ \A i \in 1 .. slot - 1 : rootkey[i] < key
      /\ \A i \in slot .. Len(rootkey) : key <= rootkey[i]
  BY DEF Lower
<1>2. ASSUME NEW i \in 1 .. Len(rootkey)
      PROVE  /\ i \in 1 .. Len(Row) /\ rootkey[i] = Last(slotkey[Row[i]])
             /\ rootkey[i] \in Keys(Row[i]) /\ rootkey[i] \in Int
             /\ \A x \in Keys(Row[i]) : x \in Int /\ x <= rootkey[i]
  <2>1. HasRoot /\ i \in 1 .. Len(Row)
    BY <1>0
  <2>2. slotkey[Row[i]] # <<>> /\ rootkey[i] = Last(slotkey[Row[i]]) /\ Ascending(slotkey[Row[i]])
    BY <2>1 DEF RowInv
  <2>3. slotkey[Row[i]] \in Seq(Key) /\ Keys(Row[i]) \subseteq Int
    BY <1>0, <2>1, ArraysAre
  <2>4. QED
    BY <2>1, <2>2, <2>3, Ends DEF Keys
<1>3. ASSUME NEW i \in 1 .. Len(Row), i < slot PROVE Before(Keys(Row[i]), {key})
  <2>1. i \in 1 .. Len(rootkey) /\ i \in 1 .. slot - 1
    BY <1>0, <1>3
  <2>2. rootkey[i] < key /\ rootkey[i] \in Int /\ \A x \in Keys(Row[i]) : x \in Int /\ x <= rootkey[i]
    BY <1>1, <1>2, <2>1
  <2>3. \A x \in Keys(Row[i]) : x < key
    BY <1>0, <2>2
  <2>4. QED
    BY <2>3 DEF Before
<1>4. ASSUME NEW i \in 1 .. Len(Row), i > slot PROVE Before({key}, Keys(Row[i]))
  <2>1. slot \in 1 .. Len(rootkey) /\ slot \in slot .. Len(rootkey)
    BY <1>0, <1>4
  <2>2. key <= rootkey[slot] /\ rootkey[slot] \in Keys(Row[slot]) /\ rootkey[slot] \in Int
    BY <1>1, <1>2, <2>1
  <2>3. Before(Keys(Row[slot]), Keys(Row[i])) /\ Keys(Row[i]) \subseteq Int
    BY <1>0, <1>4, ArraysAre DEF RowInv
  <2>4. QED
    BY <1>0, <2>2, <2>3 DEF Before
<1>5. ASSUME slot <= Len(rootkey) PROVE key <= Last(slotkey[Row[slot]])
  <2>1. slot \in 1 .. Len(rootkey) /\ slot \in slot .. Len(rootkey)
    BY <1>0, <1>5
  <2>2. QED
    BY <1>1, <1>2, <2>1
<1>6. QED
  BY <1>3, <1>4, <1>5

\* A key that is not where it is routed is nowhere in the bin.
LEMMA OnlyWhereRouted ==
    ASSUME TypeOK, RowInv, NEW key \in Key, NEW slot \in 1 .. Len(Row), slot \in Lower(rootkey, key),
           NEW i \in 1 .. Len(Row), key \in Keys(Row[i])
    PROVE  i = slot
<1>1. key \in Int /\ Len(Row) \in Nat
  BY RowIs, KeyAssumption DEF KeyAssumption
<1>2. ~(i < slot) /\ ~(i > slot)
  BY <1>1, Between DEF Before
<1>3. QED
  BY <1>1, <1>2

\* Where find_lower looks in the routed array is where the key is, if anywhere.
LEMMA FoundAtLower ==
    ASSUME TypeOK, NEW b \in Bin, Ascending(slotkey[b]), NEW key \in Key,
           NEW cslot \in Lower(slotkey[b], key)
    PROVE  At(b, cslot, key) <=> key \in Keys(b)
<1>1. slotkey[b] \in Seq(Key)
  BY ArraysAre
<1>2. Len(slotkey[b]) \in Nat /\ cslot \in 1 .. Len(slotkey[b]) + 1
      /\ Keys(b) = {slotkey[b][i] : i \in 1 .. Len(slotkey[b])}
      /\ \A i \in 1 .. Len(slotkey[b]) : slotkey[b][i] \in Int
  BY <1>1, KeysAreNumbers DEF Keys, Lower
<1>3. At(b, cslot, key) => key \in Keys(b)
  BY <1>2 DEF At, Used
<1>4. ~At(b, cslot, key) => key \notin Keys(b)
  <2> HAVE ~At(b, cslot, key)
  <2>1. \A i \in 1 .. Len(slotkey[b]) :
            (i < cslot => slotkey[b][i] < key) /\ (i >= cslot => key < slotkey[b][i])
    BY <1>1, LowerSplits DEF At, Used
  <2>2. key \in Int
    BY KeyAssumption DEF KeyAssumption
  <2>3. QED
    BY <1>2, <2>1, <2>2
<1>5. QED
  BY <1>3, <1>4

\* In a row that ascends, the separators route every key to its own array.
LEMMA RoutedWell ==
    ASSUME TypeOK, RowInv
    PROVE  KeysAreRouted
<1> SUFFICES ASSUME NEW b \in live, NEW i \in DOMAIN slotkey[b],
                    NEW slot \in 1 .. Len(rootkey) + 1, NEW c \in live,
                    RoutedTo(slotkey[b][i], slot, c)
             PROVE  c = b
  BY DEF KeysAreRouted
<1>1. PICK j \in 1 .. Len(Row) : b = Row[j]
  BY DEF RowInv
<1>2. slotkey[b] \in Seq(Key) /\ b \in Bin
  BY <1>1, RowIs, ArraysAre
<1>3. slotkey[b][i] \in Key /\ slotkey[b][i] \in Keys(Row[j])
  BY <1>1, <1>2, KeysAreNumbers DEF Keys
<1>4. slot \in 1 .. Len(Row) /\ slot \in Lower(rootkey, slotkey[b][i]) /\ c = Row[slot]
  BY <1>3, RouteIs
<1>5. j = slot
  BY <1>3, <1>4, OnlyWhereRouted
<1>6. QED
  BY <1>1, <1>4, <1>5

-----------------------------------------------------------------------------
(* What an operation leaves behind. *)

\* The bin as a set of entries.
Stock == UNION {Entries(b) : b \in live}
Held(key) == \E v \in Val : <<key, v>> \in Stock

\* After a step, too, no key is twice in the row.
LEMMA ApartNext == TypeOK' /\ RowInv' => Apart'
<1>1. TypeOK /\ RowInv => Apart
  BY RowIsApart
<1>2. QED
  BY <1>1, PTL

\* RowIs after a step.
LEMMA RowIsNext ==
  TypeOK' =>
    (/\ Row' \in Seq(Bin) /\ Len(Row') \in Nat
     /\ \A i \in 1 .. Len(Row') : Row'[i] \in Bin
     /\ Len(rootkey') \in Nat /\ (HasRoot' => Row' = children' /\ Len(Row') = Len(rootkey') + 1)
     /\ (~HasRoot' => Len(rootkey') = 0 /\ rootkey' = <<>>)
     /\ (~HasRoot' /\ headbin' = NoBin => Len(Row') = 0 /\ Row' = <<>>)
     /\ (~HasRoot' /\ headbin' # NoBin => Len(Row') = 1 /\ Row'[1] = headbin' /\ Row' = <<headbin'>>))
<1> DEFINE P ==
     (/\ Row \in Seq(Bin) /\ Len(Row) \in Nat
      /\ \A i \in 1 .. Len(Row) : Row[i] \in Bin
      /\ Len(rootkey) \in Nat /\ (HasRoot => Row = children /\ Len(Row) = Len(rootkey) + 1)
      /\ (~HasRoot => Len(rootkey) = 0 /\ rootkey = <<>>)
      /\ (~HasRoot /\ headbin = NoBin => Len(Row) = 0 /\ Row = <<>>)
      /\ (~HasRoot /\ headbin # NoBin => Len(Row) = 1 /\ Row[1] = headbin /\ Row = <<headbin>>))
<1>1. TypeOK => P
  BY RowIs
<1>2. TypeOK' => P'
  <2> HIDE DEF P
  <2>1. QED
    BY <1>1, PTL
<1>3. QED
  BY <1>2

\* Operations that change neither the row nor the chain.
LEMMA RowStays ==
    ASSUME IInv, Intact, TypeOK', UNCHANGED <<live, chain, children>>,
           Len(rootkey') = Len(rootkey),
           \A i \in 1 .. Len(Row) : Ascending(slotkey'[Row[i]]),
           \A i, j \in 1 .. Len(Row) :
                i < j => Before(ToSet(slotkey'[Row[i]]), ToSet(slotkey'[Row[j]])),
           \A i \in 1 .. Len(rootkey) :
                slotkey'[Row[i]] # <<>> /\ rootkey'[i] = Last(slotkey'[Row[i]])
    PROVE  IInv' /\ RowInv'
<1>1. Row' = Row /\ (HasRoot' <=> HasRoot) /\ Intact'
  BY DEF Row, HasRoot, Intact, chain
<1>2. HasRoot' => rootkey' # <<>>
  <2>1. HasRoot => Len(rootkey) \in Nat \ {0}
    <3>1. rootkey \in Seq(Key)
      BY DEF IInv, TypeOK
    <3>2. QED
      BY <3>1, EmptySeq DEF IInv
  <2>2. rootkey' = <<>> => Len(rootkey') = 0
    OBVIOUS
  <2>3. QED
    BY <1>1, <2>1, <2>2
<1>3. RowInv /\ ChainInv
  BY DEF IInv
<1>4. RowInv'
  <2>1. /\ \A i, j \in 1 .. Len(Row) : Row[i] = Row[j] => i = j
        /\ live' = {Row[i] : i \in 1 .. Len(Row)}
    BY <1>3 DEF RowInv
  <2>2. \A i, j \in 1 .. Len(Row) : i < j => Before(Keys(Row[i])', Keys(Row[j])')
    BY <1>1 DEF Keys
  <2>3. QED
    BY <1>1, <2>1, <2>2 DEF RowInv, Keys
<1>5. ChainInv'
  BY <1>1, <1>3 DEF ChainInv, chain
<1>6. Apart'
  BY <1>4, ApartNext
<1>7. QED
  BY <1>2, <1>4, <1>5, <1>6 DEF IInv

\* find, and every operation that answers without changing anything.
LEMMA NothingChanges ==
    ASSUME IInv, UNCHANGED <<live, data, chain, root>>, is_retraining' \in BOOLEAN,
           ret'.res \in {"ok", "failed", "retrain"}
    PROVE  IInv' /\ Stock' = Stock
<1>1. TypeOK'
  BY DEF IInv, TypeOK, HasRoot, Used, data, chain, root
<1>2. Row' = Row /\ (HasRoot' <=> HasRoot) /\ (Intact' <=> Intact)
  BY DEF Row, HasRoot, Intact, chain, root
<1>3. Apart' /\ (RowInv => RowInv') /\ (ChainInv => ChainInv')
  <2>1. Apart'
    BY DEF IInv, Apart, Keys, data
  <2>2. RowInv => RowInv'
    BY <1>2 DEF RowInv, Keys, data, root
  <2>3. ChainInv => ChainInv'
    BY <1>2 DEF ChainInv, chain
  <2>4. QED
    BY <2>1, <2>2, <2>3
<1>4. Stock' = Stock
  BY DEF Stock, Entries, data
<1>5. QED
  BY <1>1, <1>2, <1>3, <1>4 DEF IInv, root

-----------------------------------------------------------------------------
(* Operations on one array. *)

\* The entries of the bin, from left to right.
LEMMA StockIs ==
    ASSUME TypeOK, RowInv
    PROVE  Stock = UNION {Entries(Row[i]) : i \in 1 .. Len(Row)}
  BY DEF RowInv, Stock

\* A value of an array that is replaced.
LEMMA ReplaceValue ==
    ASSUME NEW s \in Seq(Key), Ascending(s), NEW n \in 1 .. Len(s),
           NEW d \in Seq(Val), Len(d) = Len(s), NEW v \in Val
    PROVE  /\ [d EXCEPT ![n] = v] \in Seq(Val) /\ Len([d EXCEPT ![n] = v]) = Len(d)
           /\ Pairs(s, [d EXCEPT ![n] = v]) = Without(Pairs(s, d), s[n]) \cup {<<s[n], v>>}
<1> DEFINE q == [d EXCEPT ![n] = v]
<1>1. /\ Len(s) \in Nat /\ DOMAIN s = 1 .. Len(s) /\ \A i \in 1 .. Len(s) : s[i] \in Int
  BY KeysAreNumbers
<1>2. q \in Seq(Val) /\ Len(q) = Len(d) /\ \A j \in 1 .. Len(s) : q[j] = IF j = n THEN v ELSE d[j]
  BY ExceptSeq
<1> HIDE DEF q
<1>3. \A x, y \in 1 .. Len(s) : x < y => s[x] < s[y]
  BY <1>1 DEF Ascending
<1>4. \A i \in 1 .. Len(s) : s[i] = s[n] => i = n
  BY <1>1, <1>3
<1>5. ASSUME NEW x \in Pairs(s, q) PROVE x \in Without(Pairs(s, d), s[n]) \cup {<<s[n], v>>}
  <2>1. PICK i \in 1 .. Len(s) : x = <<s[i], q[i]>>
    BY DEF Pairs
  <2>2. QED
    BY <1>2, <1>4, <2>1 DEF Pairs, Without
<1>6. ASSUME NEW x \in Pairs(s, d), x[1] # s[n] PROVE x \in Pairs(s, q)
  <2>1. PICK i \in 1 .. Len(s) : x = <<s[i], d[i]>> /\ i # n
    BY <1>6 DEF Pairs
  <2>2. QED
    BY <1>2, <2>1 DEF Pairs
<1>7. <<s[n], v>> \in Pairs(s, q)
  BY <1>2 DEF Pairs
<1>8. QED
  BY <1>2, <1>5, <1>6, <1>7 DEF q, Without

\* An array changes: what the bin holds changes with what the array holds.
LEMMA StockOfOne ==
    ASSUME NEW b \in live, live' = live, \A c \in live \ {b} : Entries(c)' = Entries(c)
    PROVE  \A x : x \in Stock' <=> x \in Entries(b)' \/ \E c \in live \ {b} : x \in Entries(c)
  BY DEF Stock

\* An entry is in the array that holds its key, and nowhere else.
LEMMA KeyOfEntry ==
    ASSUME TypeOK, NEW b \in Bin
    PROVE  /\ \A x \in Entries(b) : \E i \in 1 .. Used(b) : x = <<slotkey[b][i], slotdata[b][i]>>
           /\ \A k, v : <<k, v>> \in Entries(b) => k \in Keys(b)
           /\ \A x \in Entries(b) : x[1] \in Keys(b)
<1>1. slotkey[b] \in Seq(Key)
  BY ArraysAre
<1>2. Keys(b) = {slotkey[b][i] : i \in 1 .. Len(slotkey[b])}
  BY <1>1, KeysAreNumbers DEF Keys
<1>3. QED
  BY <1>2 DEF Entries, Pairs, Used

\* What an operation does to the bin as a set of entries.
Adds(key, val)     == ~Held(key) /\ Stock' = Stock \cup {<<key, val>>}
Replaces(key, val) == Held(key) /\ Stock' = Without(Stock, key) \cup {<<key, val>>}
Drops(key)         == Held(key) /\ Stock' = Without(Stock, key)

\* A key is held if it is among the keys of an array.
LEMMA HeldIs ==
    ASSUME TypeOK, NEW key
    PROVE  Held(key) <=> \E b \in live : key \in Keys(b)
<1>1. ASSUME NEW b \in live PROVE key \in Keys(b) <=> \E v \in Val : <<key, v>> \in Entries(b)
  <2>1. slotkey[b] \in Seq(Key) /\ slotdata[b] \in Seq(Val) /\ Len(slotdata[b]) = Len(slotkey[b]) /\ b \in Bin
    BY ArraysAre DEF TypeOK
  <2>2. Keys(b) = {slotkey[b][i] : i \in 1 .. Len(slotkey[b])}
    BY <2>1, KeysAreNumbers DEF Keys
  <2>3. \A i \in 1 .. Len(slotkey[b]) : slotdata[b][i] \in Val
    BY <2>1
  <2>4. QED
    BY <2>2, <2>3 DEF Entries, Pairs
<1>2. QED
  BY <1>1 DEF Held, Stock

\* An array that is one of the live ones, and what is stored beside it.
LEMMA HeldWhereRouted ==
    ASSUME TypeOK, RowInv, NEW key \in Key, NEW slot, NEW b \in live, RoutedTo(key, slot, b),
           NEW cslot \in Lower(slotkey[b], key)
    PROVE  /\ At(b, cslot, key) <=> Held(key)
           /\ At(b, cslot, key) <=> key \in Keys(b)
           /\ \A c \in live \ {b} : key \notin Keys(c)
<1>1. slot \in 1 .. Len(Row) /\ slot \in Lower(rootkey, key) /\ b = Row[slot] /\ b \in Bin
  BY RouteIs DEF TypeOK
<1>2. Ascending(slotkey[b])
  BY <1>1 DEF RowInv
<1>3. At(b, cslot, key) <=> key \in Keys(b)
  BY <1>1, <1>2, FoundAtLower
<1>4. ASSUME NEW c \in live, key \in Keys(c) PROVE c = b
  <2>1. PICK i \in 1 .. Len(Row) : c = Row[i]
    BY DEF RowInv
  <2>2. QED
    BY <1>1, <1>4, <2>1, OnlyWhereRouted
<1>5. QED
  BY <1>3, <1>4, HeldIs

\* update changes the value and nothing else.
LEMMA UpdateHitStep ==
    ASSUME IInv, NEW key \in Key, NEW val \in Val, UpdateHit(key, val)
    PROVE  IInv' /\ Replaces(key, val)
<1>1. PICK slot \in 1 .. Len(rootkey) + 1, b \in live :
        /\ RoutedTo(key, slot, b)
        /\ \E cslot \in Lower(slotkey[b], key) :
            /\ At(b, cslot, key)
            /\ slotdata' = [slotdata EXCEPT ![b][cslot] = val]
  BY DEF UpdateHit
<1>2. PICK cslot \in Lower(slotkey[b], key) :
        /\ At(b, cslot, key)
        /\ slotdata' = [slotdata EXCEPT ![b][cslot] = val]
  BY <1>1
<1>3. TypeOK /\ RowInv /\ ChainInv /\ Intact /\ Apart /\ UNCHANGED <<live, slotkey, chain, root, is_retraining>>
  BY DEF UpdateHit, Defined, IInv
<1> DEFINE s == slotkey[b]
           d == slotdata[b]
           q == [d EXCEPT ![cslot] = val]
<1>4. b \in Bin /\ s \in Seq(Key) /\ d \in Seq(Val) /\ Len(d) = Len(s) /\ Ascending(s)
  BY <1>3, ArraysAre DEF TypeOK, Apart
<1>5. cslot \in 1 .. Len(s) /\ s[cslot] = key
  BY <1>2, <1>4 DEF At, Used, Lower
<1>6. /\ q \in Seq(Val) /\ Len(q) = Len(d)
      /\ Pairs(s, q) = Without(Pairs(s, d), key) \cup {<<key, val>>}
  <2>1. s \in Seq(Key) /\ d \in Seq(Val) /\ Len(d) = Len(s) /\ Ascending(s) /\ cslot \in 1 .. Len(s)
    BY <1>4, <1>5
  <2>2. /\ q \in Seq(Val) /\ Len(q) = Len(d)
        /\ Pairs(s, q) = Without(Pairs(s, d), s[cslot]) \cup {<<s[cslot], val>>}
    <3> HIDE DEF s, d
    <3>1. QED
      BY <2>1, ReplaceValue
  <2> HIDE DEF s, d, q
  <2>3. QED
    BY <1>5, <2>2
<1>7. slotdata' = [slotdata EXCEPT ![b] = q] /\ slotdata'[b] = q /\ \A c \in Bin \ {b} : slotdata'[c] = slotdata[c]
  BY <1>2, <1>3, <1>4 DEF TypeOK
<1> HIDE DEF q
<1>8. TypeOK'
  <2>1. slotdata' \in [Bin -> Seq(Val)] /\ \A c \in Bin : Len(slotdata'[c]) = Len(slotdata[c])
    BY <1>3, <1>4, <1>6, <1>7 DEF TypeOK
  <2>2. ret'.res = "ok"
    BY DEF UpdateHit, Answer
  <2>3. QED
    BY <1>3, <2>1, <2>2 DEF TypeOK, HasRoot, Used, chain, root
<1>9. IInv'
  <2>1. Row' = Row /\ (HasRoot' <=> HasRoot) /\ rootkey' = rootkey
    BY <1>3 DEF Row, HasRoot, chain, root
  <2>2. RowInv'
    BY <1>3, <2>1 DEF RowInv, Keys
  <2>3. ChainInv'
    BY <1>3, <2>1 DEF ChainInv, chain
  <2>4. QED
    BY <1>8, <2>1, <2>2, <2>3, ApartNext DEF IInv
<1>10. Held(key) /\ \A c \in live \ {b} : key \notin Keys(c)
  BY <1>1, <1>2, <1>3, HeldWhereRouted
<1>11. ASSUME NEW x PROVE x \in Stock' <=> x \in Without(Stock, key) \cup {<<key, val>>}
  <2>1. \A c \in live \ {b} : Entries(c)' = Entries(c)
    BY <1>3, <1>7 DEF Entries, TypeOK
  <2>2. x \in Stock' <=> x \in Entries(b)' \/ \E c \in live \ {b} : x \in Entries(c)
    BY <1>3, <2>1, StockOfOne
  <2>3. Entries(b)' = Without(Entries(b), key) \cup {<<key, val>>}
    BY <1>3, <1>6, <1>7 DEF Entries
  <2>4. \A c \in live \ {b} : \A y \in Entries(c) : y[1] # key
    BY <1>3, <1>10, KeyOfEntry DEF TypeOK
  <2>5. QED
    BY <2>2, <2>3, <2>4 DEF Stock, Without
<1>12. QED
  BY <1>9, <1>10, <1>11 DEF Replaces

\* A key put into the array it belongs to keeps the row ascending.
LEMMA InsertInChildStep ==
    ASSUME IInv, NEW key \in Key, NEW val \in Val, InsertInChild(key, val)
    PROVE  IInv' /\ Adds(key, val)
<1>1. PICK slot \in 1 .. Len(rootkey) + 1, b \in live :
        /\ RoutedTo(key, slot, b)
        /\ ~IsFull(b)
        /\ \E cslot \in Lower(slotkey[b], key) :
            /\ ~At(b, cslot, key)
            /\ slotkey' = [slotkey EXCEPT ![b] = InsertAt(@, cslot, key)]
            /\ slotdata' = [slotdata EXCEPT ![b] = InsertAt(@, cslot, val)]
  BY DEF InsertInChild
<1>2. PICK cslot \in Lower(slotkey[b], key) :
        /\ ~At(b, cslot, key)
        /\ slotkey' = [slotkey EXCEPT ![b] = InsertAt(@, cslot, key)]
        /\ slotdata' = [slotdata EXCEPT ![b] = InsertAt(@, cslot, val)]
  BY <1>1
<1>3. TypeOK /\ RowInv /\ Intact /\ UNCHANGED <<live, chain, root, is_retraining>>
  BY DEF InsertInChild, Defined, IInv
<1> DEFINE s == slotkey[b]
           d == slotdata[b]
           r == InsertAt(s, cslot, key)
           q == InsertAt(d, cslot, val)
<1>4. /\ slot \in 1 .. Len(Row) /\ slot \in Lower(rootkey, key) /\ b = Row[slot] /\ b \in Bin
      /\ s \in Seq(Key) /\ d \in Seq(Val) /\ Len(d) = Len(s) /\ Ascending(s) /\ Len(s) <= ChildSlotMax
  <2>1. slot \in 1 .. Len(Row) /\ slot \in Lower(rootkey, key) /\ b = Row[slot] /\ b \in Bin
    BY <1>1, <1>3, RouteIs DEF TypeOK
  <2>2. QED
    BY <1>3, <2>1, ArraysAre DEF RowInv
<1>5. /\ cslot \in 1 .. Len(s) + 1
      /\ \A i \in 1 .. Len(s) : (i < cslot => s[i] < key) /\ (i >= cslot => key < s[i])
  BY <1>2, <1>4, LowerSplits DEF At, Used
<1>6. /\ r \in Seq(Key) /\ Len(r) = Len(s) + 1 /\ r # <<>> /\ Ascending(r)
      /\ q \in Seq(Val) /\ Len(q) = Len(s) + 1
      /\ ToSet(r) = ToSet(s) \cup {key} /\ Pairs(r, q) = Pairs(s, d) \cup {<<key, val>>}
      /\ Last(r) = IF cslot > Len(s) THEN key ELSE Last(s)
  <2>1. /\ s \in Seq(Key) /\ d \in Seq(Val) /\ Len(d) = Len(s) /\ Ascending(s)
        /\ cslot \in 1 .. Len(s) + 1
        /\ \A i \in 1 .. Len(s) : (i < cslot => s[i] < key) /\ (i >= cslot => key < s[i])
    BY <1>4, <1>5
  <2> HIDE DEF s, d
  <2>2. QED
    BY SMTT(60), <2>1, PutIn
<1>7. /\ slotkey' = [slotkey EXCEPT ![b] = r] /\ slotdata' = [slotdata EXCEPT ![b] = q]
      /\ slotkey'[b] = r /\ slotdata'[b] = q
      /\ \A c \in Bin \ {b} : slotkey'[c] = slotkey[c] /\ slotdata'[c] = slotdata[c]
  BY <1>2, <1>3, <1>4 DEF TypeOK
<1> HIDE DEF r, q
<1>8. TypeOK'
  <2>1. slotkey' \in [Bin -> Seq(Key)] /\ slotdata' \in [Bin -> Seq(Val)]
    BY <1>3, <1>4, <1>6, <1>7 DEF TypeOK
  <2>2. Len(s) + 1 <= ChildSlotMax
    BY <1>1, <1>4, SlotAssumption DEF IsFull, Used
  <2>3. \A c \in Bin : Used(c)' = Len(slotdata[c])' /\ Used(c)' <= ChildSlotMax
    <3> TAKE c \in Bin
    <3>1. CASE c = b
      BY <1>6, <1>7, <2>2, <3>1 DEF Used
    <3>2. CASE c # b
      BY <1>3, <1>7, <3>2 DEF TypeOK, Used
    <3>3. QED
      BY <3>1, <3>2
  <2>4. ret'.res = "ok"
    BY DEF InsertInChild, Inserted, Answer
  <2>5. QED
    BY <1>3, <2>1, <2>3, <2>4 DEF TypeOK, HasRoot, chain, root
<1>b. /\ \A i \in 1 .. Len(Row) :
            /\ i < slot => Before(Keys(Row[i]), {key})
            /\ i > slot => Before({key}, Keys(Row[i]))
      /\ slot <= Len(rootkey) => key <= Last(slotkey[Row[slot]])
  BY <1>3, <1>4, Between
<1>r. /\ \A i \in 1 .. Len(Row) : i # slot => Row[i] \in Bin \ {b}
      /\ Len(Row) \in Nat /\ Len(rootkey) \in Nat /\ Len(rootkey) <= Len(Row)
  BY <1>3, <1>4, RowIs DEF RowInv
<1>9. IInv'
  <2>1. \A i \in 1 .. Len(Row) : Ascending(slotkey'[Row[i]])
    BY <1>3, <1>4, <1>6, <1>7, <1>r DEF RowInv
  <2>2. ASSUME NEW i \in 1 .. Len(Row), NEW j \in 1 .. Len(Row), i < j
        PROVE  Before(ToSet(slotkey'[Row[i]]), ToSet(slotkey'[Row[j]]))
    <3>1. Before(ToSet(slotkey[Row[i]]), ToSet(slotkey[Row[j]]))
      BY <1>3, <2>2 DEF RowInv, Keys
    <3>2. CASE i = slot
      <4>0. j > slot /\ j # slot
        BY <2>2, <3>2
      <4>1. slotkey'[Row[i]] = r /\ slotkey'[Row[j]] = slotkey[Row[j]] /\ Before({key}, ToSet(slotkey[Row[j]]))
        BY <1>4, <1>7, <1>b, <1>r, <3>2, <4>0 DEF Keys
      <4>2. QED
        BY <1>4, <1>6, <3>1, <3>2, <4>1 DEF Before
    <3>3. CASE j = slot
      <4>0. i < slot /\ i # slot
        BY <2>2, <3>3
      <4>1. slotkey'[Row[j]] = r /\ slotkey'[Row[i]] = slotkey[Row[i]] /\ Before(ToSet(slotkey[Row[i]]), {key})
        BY <1>4, <1>7, <1>b, <1>r, <3>3, <4>0 DEF Keys
      <4>2. QED
        BY <1>4, <1>6, <3>1, <3>3, <4>1 DEF Before
    <3>4. CASE i # slot /\ j # slot
      BY <1>7, <1>r, <3>1, <3>4
    <3>5. QED
      BY <3>2, <3>3, <3>4
  <2>3. ASSUME NEW i \in 1 .. Len(rootkey)
        PROVE  slotkey'[Row[i]] # <<>> /\ rootkey'[i] = Last(slotkey'[Row[i]])
    <3>1. slotkey[Row[i]] # <<>> /\ rootkey[i] = Last(slotkey[Row[i]]) /\ i \in 1 .. Len(Row)
      BY <1>3, <1>r DEF RowInv
    <3>2. CASE i # slot
      BY <1>3, <1>7, <1>r, <3>1, <3>2 DEF root
    <3>3. CASE i = slot
      <4>1. key <= Last(s)
        BY <1>4, <1>b, <1>r, <3>3
      <4>2. ~(cslot > Len(s))
        <5> SUFFICES ASSUME cslot > Len(s) PROVE FALSE
          OBVIOUS
        <5>1. Len(s) \in Nat \ {0} /\ Last(s) = s[Len(s)]
          BY <1>4, <3>1, <3>3, Ends
        <5>2. Last(s) < key
          BY <1>5, <5>1
        <5>3. Last(s) \in Int /\ key \in Int
          BY <1>4, <5>1, KeyAssumption, KeysAreNumbers DEF KeyAssumption
        <5>4. QED
          BY <4>1, <5>2, <5>3
      <4>3. QED
        BY <1>3, <1>4, <1>6, <1>7, <3>1, <3>3, <4>2 DEF root
    <3>4. QED
      BY <3>2, <3>3
  <2>4. UNCHANGED children /\ Len(rootkey') = Len(rootkey)
    BY <1>3 DEF root
  <2>5. QED
    BY <1>3, <1>8, <2>1, <2>2, <2>3, <2>4, RowStays
<1>10. ~Held(key)
  BY <1>1, <1>2, <1>3, HeldWhereRouted
<1>11. ASSUME NEW x PROVE x \in Stock' <=> x \in Stock \cup {<<key, val>>}
  <2>1. \A c \in live \ {b} : Entries(c)' = Entries(c)
    BY <1>3, <1>7 DEF Entries, TypeOK
  <2>2. x \in Stock' <=> x \in Entries(b)' \/ \E c \in live \ {b} : x \in Entries(c)
    BY <1>3, <2>1, StockOfOne
  <2>3. Entries(b)' = Entries(b) \cup {<<key, val>>}
    BY <1>6, <1>7 DEF Entries
  <2>4. QED
    BY <2>2, <2>3 DEF Stock
<1>12. QED
  BY <1>9, <1>10, <1>11 DEF Adds

\* Taking a key out of an array that keeps others: the separator follows.
LEMMA RemoveFromChildStep ==
    ASSUME IInv, NEW key \in Key, RemoveFromChild(key)
    PROVE  IInv' /\ Drops(key)
<1>1. PICK slot \in 1 .. Len(rootkey) + 1, b \in live :
        /\ RoutedTo(key, slot, b)
        /\ Used(b) > 1
        /\ \E cslot \in Lower(slotkey[b], key) :
            /\ At(b, cslot, key)
            /\ slotkey' = [slotkey EXCEPT ![b] = RemoveAt(@, cslot)]
            /\ slotdata' = [slotdata EXCEPT ![b] = RemoveAt(@, cslot)]
            /\ rootkey' = IF cslot = Used(b) /\ slot \in DOMAIN rootkey
                          THEN [rootkey EXCEPT ![slot] = slotkey[b][cslot - 1]]
                          ELSE rootkey
  BY DEF RemoveFromChild
<1>2. PICK cslot \in Lower(slotkey[b], key) :
        /\ At(b, cslot, key)
        /\ slotkey' = [slotkey EXCEPT ![b] = RemoveAt(@, cslot)]
        /\ slotdata' = [slotdata EXCEPT ![b] = RemoveAt(@, cslot)]
        /\ rootkey' = IF cslot = Used(b) /\ slot \in DOMAIN rootkey
                      THEN [rootkey EXCEPT ![slot] = slotkey[b][cslot - 1]]
                      ELSE rootkey
  BY <1>1
<1>3. TypeOK /\ RowInv /\ Intact /\ UNCHANGED <<live, chain, children, is_retraining>>
  BY DEF RemoveFromChild, Defined, IInv
<1> DEFINE s == slotkey[b]
           d == slotdata[b]
           r == RemoveAt(s, cslot)
           q == RemoveAt(d, cslot)
<1>4. /\ slot \in 1 .. Len(Row) /\ slot \in Lower(rootkey, key) /\ b = Row[slot] /\ b \in Bin
      /\ s \in Seq(Key) /\ d \in Seq(Val) /\ Len(d) = Len(s) /\ Ascending(s) /\ Len(s) <= ChildSlotMax
  <2>1. slot \in 1 .. Len(Row) /\ slot \in Lower(rootkey, key) /\ b = Row[slot] /\ b \in Bin
    BY <1>1, <1>3, RouteIs DEF TypeOK
  <2>2. QED
    BY <1>3, <2>1, ArraysAre DEF RowInv
<1>5. /\ cslot \in 1 .. Len(s) /\ s[cslot] = key /\ Len(s) > 1 /\ Len(s) \in Nat
      /\ cslot = Len(s) => s[cslot - 1] \in Key
  <2>1. cslot \in 1 .. Len(s) /\ s[cslot] = key /\ Len(s) > 1 /\ Len(s) \in Nat
    BY <1>1, <1>2, <1>4, LenProperties DEF At, Used, Lower
  <2>2. cslot = Len(s) => cslot - 1 \in 1 .. Len(s)
    BY <2>1
  <2>3. QED
    BY <1>4, <2>1, <2>2, ElementOfSeq
<1>6. /\ r \in Seq(Key) /\ Len(r) = Len(s) - 1 /\ r # <<>> /\ Ascending(r)
      /\ q \in Seq(Val) /\ Len(q) = Len(s) - 1
      /\ ToSet(r) = ToSet(s) \ {key} /\ Pairs(r, q) = Without(Pairs(s, d), key)
      /\ Last(r) = IF cslot = Len(s) THEN s[cslot - 1] ELSE Last(s)
  <2>1. /\ s \in Seq(Key) /\ d \in Seq(Val) /\ Len(d) = Len(s) /\ Ascending(s)
        /\ cslot \in 1 .. Len(s) /\ s[cslot] = key /\ Len(s) > 1
    BY <1>4, <1>5
  <2> HIDE DEF s, d
  <2>2. /\ r \in Seq(Key) /\ Len(r) = Len(s) - 1 /\ Ascending(r)
        /\ q \in Seq(Val) /\ Len(q) = Len(s) - 1
        /\ ToSet(r) = ToSet(s) \ {s[cslot]} /\ Pairs(r, q) = Without(Pairs(s, d), s[cslot])
        /\ Len(s) > 1 =>
                /\ r # <<>>
                /\ Last(r) = IF cslot = Len(s) THEN s[cslot - 1] ELSE Last(s)
    BY <2>1, TakenOut
  <2> HIDE DEF r, q
  <2>3. QED
    BY <2>1, <2>2
<1>7. /\ slotkey' = [slotkey EXCEPT ![b] = r] /\ slotdata' = [slotdata EXCEPT ![b] = q]
      /\ slotkey'[b] = r /\ slotdata'[b] = q
      /\ \A c \in Bin \ {b} : slotkey'[c] = slotkey[c] /\ slotdata'[c] = slotdata[c]
  BY <1>2, <1>3, <1>4 DEF TypeOK
<1> HIDE DEF r, q
<1>k. /\ rootkey' \in Seq(Key) /\ Len(rootkey') = Len(rootkey) /\ Len(rootkey) \in Nat
      /\ \A i \in 1 .. Len(rootkey) :
            rootkey'[i] = IF i = slot /\ cslot = Len(s) THEN s[cslot - 1] ELSE rootkey[i]
  <2>1. rootkey \in Seq(Key) /\ Len(rootkey) \in Nat /\ DOMAIN rootkey = 1 .. Len(rootkey)
    BY <1>3, LenProperties DEF TypeOK
  <2>2. CASE cslot = Len(s) /\ slot \in 1 .. Len(rootkey)
    <3>1. rootkey' = [rootkey EXCEPT ![slot] = s[cslot - 1]] /\ s[cslot - 1] \in Key
      BY <1>2, <1>5, <2>1, <2>2 DEF Used
    <3>2. QED
      BY <2>1, <2>2, <3>1, ExceptSeq
  <2>3. CASE ~(cslot = Len(s) /\ slot \in 1 .. Len(rootkey))
    <3>1. rootkey' = rootkey
      BY <1>2, <2>1, <2>3 DEF Used
    <3>2. QED
      BY <2>1, <2>3, <3>1
  <2>4. QED
    BY <2>2, <2>3
<1>8. TypeOK'
  <2>1. slotkey' \in [Bin -> Seq(Key)] /\ slotdata' \in [Bin -> Seq(Val)]
    BY <1>3, <1>4, <1>6, <1>7 DEF TypeOK
  <2>2. Len(s) - 1 <= ChildSlotMax
    BY <1>4, <1>5, SlotAssumption
  <2>3. \A c \in Bin : Used(c)' = Len(slotdata[c])' /\ Used(c)' <= ChildSlotMax
    <3> TAKE c \in Bin
    <3>1. CASE c = b
      BY <1>6, <1>7, <2>2, <3>1 DEF Used
    <3>2. CASE c # b
      BY <1>3, <1>7, <3>2 DEF TypeOK, Used
    <3>3. QED
      BY <3>1, <3>2
  <2>4. ret'.res = "ok"
    BY DEF RemoveFromChild, Removed, Answer
  <2>5. Len(rootkey') <= RootSlotMax /\ (HasRoot' <=> HasRoot) /\ (HasRoot' => Len(children') = Len(rootkey') + 1)
    BY <1>3, <1>k DEF TypeOK, HasRoot
  <2>6. ~HasRoot' => rootkey' = <<>>
    BY <1>3, <1>k, <2>5, EmptySeq DEF TypeOK
  <2>7. QED
    BY <1>3, <1>k, <2>1, <2>3, <2>4, <2>5, <2>6 DEF TypeOK, chain
<1>r. /\ \A i \in 1 .. Len(Row) : i # slot => Row[i] \in Bin \ {b}
      /\ Len(Row) \in Nat /\ Len(rootkey) \in Nat /\ Len(rootkey) <= Len(Row)
  BY <1>3, <1>4, RowIs DEF RowInv
<1>9. IInv'
  <2>1. \A i \in 1 .. Len(Row) : Ascending(slotkey'[Row[i]]) /\ ToSet(slotkey'[Row[i]]) \subseteq Keys(Row[i])
    BY <1>3, <1>4, <1>6, <1>7, <1>r DEF RowInv, Keys
  <2>2. ASSUME NEW i \in 1 .. Len(Row), NEW j \in 1 .. Len(Row), i < j
        PROVE  Before(ToSet(slotkey'[Row[i]]), ToSet(slotkey'[Row[j]]))
    <3>1. Before(Keys(Row[i]), Keys(Row[j]))
      BY <1>3, <2>2 DEF RowInv
    <3>2. QED
      BY <2>1, <3>1 DEF Before
  <2>3. ASSUME NEW i \in 1 .. Len(rootkey)
        PROVE  slotkey'[Row[i]] # <<>> /\ rootkey'[i] = Last(slotkey'[Row[i]])
    <3>1. slotkey[Row[i]] # <<>> /\ rootkey[i] = Last(slotkey[Row[i]]) /\ i \in 1 .. Len(Row)
      BY <1>3, <1>r DEF RowInv
    <3>2. CASE i # slot
      BY <1>k, <1>7, <1>r, <3>1, <3>2
    <3>3. CASE i = slot
      BY <1>k, <1>4, <1>6, <1>7, <3>1, <3>3
    <3>4. QED
      BY <3>2, <3>3
  <2>4. QED
    BY <1>3, <1>8, <1>k, <2>1, <2>2, <2>3, RowStays
<1>10. Held(key) /\ \A c \in live \ {b} : key \notin Keys(c)
  BY <1>1, <1>2, <1>3, HeldWhereRouted
<1>11. ASSUME NEW x PROVE x \in Stock' <=> x \in Without(Stock, key)
  <2>1. \A c \in live \ {b} : Entries(c)' = Entries(c)
    BY <1>3, <1>7 DEF Entries, TypeOK
  <2>2. x \in Stock' <=> x \in Entries(b)' \/ \E c \in live \ {b} : x \in Entries(c)
    BY <1>3, <2>1, StockOfOne
  <2>3. Entries(b)' = Without(Entries(b), key)
    BY <1>6, <1>7 DEF Entries
  <2>4. \A c \in live \ {b} : \A y \in Entries(c) : y[1] # key
    BY <1>3, <1>10, KeyOfEntry DEF TypeOK
  <2>5. QED
    BY <2>2, <2>3, <2>4 DEF Stock, Without
<1>12. QED
  BY <1>9, <1>10, <1>11 DEF Drops

\* The first key of an empty bin gets an array of its own.
LEMMA InsertFirstStep ==
    ASSUME IInv, NEW key \in Key, NEW val \in Val, InsertFirst(key, val)
    PROVE  IInv' /\ Adds(key, val)
<1>1. PICK b \in Bin \ live :
        /\ live' = live \cup {b}
        /\ slotkey' = [slotkey EXCEPT ![b] = <<key>>]
        /\ slotdata' = [slotdata EXCEPT ![b] = <<val>>]
        /\ headbin' = b
        /\ tailbin' = b
  BY DEF InsertFirst
<1>2. TypeOK /\ RowInv /\ ChainInv /\ Intact /\ ~HasRoot /\ headbin = NoBin
      /\ UNCHANGED <<prevbin, nextbin, root, is_retraining>>
  BY DEF InsertFirst, Defined, IInv
<1>3. Row = <<>> /\ live = {} /\ Len(rootkey) = 0 /\ rootkey = <<>>
  BY <1>2, RowIs DEF RowInv
<1>4. live' = {b} /\ b # NoBin /\ slotkey'[b] = <<key>> /\ slotdata'[b] = <<val>>
      /\ \A c \in Bin \ {b} : slotkey'[c] = slotkey[c] /\ slotdata'[c] = slotdata[c]
  BY <1>1, <1>2, <1>3, NullAssumption DEF TypeOK
<1>5. prevbin'[b] = NoBin /\ nextbin'[b] = NoBin /\ \A c \in Bin : prevbin'[c] = NoBin /\ nextbin'[c] = NoBin
  BY <1>2, <1>3 DEF ChainInv
<1>6. ~HasRoot' /\ Row' = <<b>> /\ Intact' /\ rootkey' = <<>> /\ Len(rootkey') = 0
      /\ Len(Row') = 1 /\ Row'[1] = b
  <2>1. ~HasRoot' /\ rootkey' = <<>> /\ Len(rootkey') = 0 /\ Intact'
    BY <1>2, <1>3 DEF HasRoot, root, Intact
  <2>2. Row' = <<b>>
    BY <1>1, <1>4, <2>1 DEF Row
  <2>3. QED
    BY <2>1, <2>2
<1>7. <<key>> \in Seq(Key) /\ <<val>> \in Seq(Val) /\ Len(<<key>>) = 1 /\ Len(<<val>>) = 1
      /\ <<key>>[1] = key /\ <<val>>[1] = val
  OBVIOUS
<1>8. TypeOK'
  <2>1. slotkey' \in [Bin -> Seq(Key)] /\ slotdata' \in [Bin -> Seq(Val)]
    BY <1>1, <1>2, <1>7 DEF TypeOK
  <2>2. \A c \in Bin : Used(c)' = Len(slotdata[c])' /\ Used(c)' <= ChildSlotMax
    <3> TAKE c \in Bin
    <3>1. CASE c = b
      <4>1. 1 <= ChildSlotMax
        BY SlotAssumption
      <4>2. slotkey'[c] = <<key>> /\ slotdata'[c] = <<val>>
        BY <1>4, <3>1
      <4>3. QED
        BY <1>7, <4>1, <4>2 DEF Used
    <3>2. CASE c # b
      BY <1>2, <1>4, <3>2 DEF TypeOK, Used
    <3>3. QED
      BY <3>1, <3>2
  <2>3. ret'.res = "ok"
    BY DEF InsertFirst, Inserted, Answer
  <2>4. QED
    BY <1>1, <1>2, <1>4, <1>6, <2>1, <2>2, <2>3 DEF TypeOK, root
<1>9. RowInv'
  <2>1. Ascending(<<key>>)
    BY <1>7 DEF Ascending
  <2>2. \A i \in 1 .. Len(Row') : i = 1
    BY <1>6
  <2>3. live' = {Row'[i] : i \in 1 .. Len(Row')}
    BY <1>4, <1>6
  <2>4. \A i \in 1 .. Len(Row') : Ascending(slotkey'[Row'[i]])
    BY <1>4, <1>6, <2>1, <2>2
  <2>5. \A i, j \in 1 .. Len(Row') : i < j => FALSE
    BY <2>2
  <2>6. \A i \in 1 .. Len(rootkey') : FALSE
    BY <1>6
  <2>7. QED
    BY <2>2, <2>3, <2>4, <2>5, <2>6 DEF RowInv
<1>10. ChainInv'
  <2>1. \A i \in 1 .. Len(Row') : i = 1 /\ i = Len(Row') /\ Row'[i] = b
    BY <1>6
  <2>2. Row' # <<>> /\ headbin' = b /\ tailbin' = b
    BY <1>1, <1>6
  <2>3. QED
    BY <1>5, <1>6, <2>1, <2>2 DEF ChainInv
<1>11. IInv'
  BY <1>6, <1>8, <1>9, <1>10, ApartNext DEF IInv
<1>12. Adds(key, val)
  <2>1. Stock = {} /\ ~Held(key)
    BY <1>3 DEF Stock, Held
  <2>2. Stock' = Pairs(<<key>>, <<val>>)
    BY <1>4 DEF Stock, Entries
  <2>3. Pairs(<<key>>, <<val>>) = {<<key, val>>}
    BY <1>7 DEF Pairs
  <2>4. QED
    BY <2>1, <2>2, <2>3 DEF Adds
<1>13. QED
  BY <1>11, <1>12

-----------------------------------------------------------------------------
(* Operations that use the left neighbour. *)

\* A full array is not empty.
LEMMA FullIs ==
    ASSUME TypeOK, NEW b \in Bin, IsFull(b)
    PROVE  slotkey[b] # <<>> /\ Len(slotkey[b]) = ChildSlotMax
<1>1. Len(slotkey[b]) = ChildSlotMax /\ ChildSlotMax # 0
  BY SlotAssumption DEF IsFull, Used
<1>2. slotkey[b] = <<>> => Len(slotkey[b]) = 0
  OBVIOUS
<1>3. QED
  BY <1>1, <1>2

\* The routed array and its left neighbour in the row.
LEMMA NeighbourIs ==
    ASSUME TypeOK, RowInv, Intact, HasRoot, NEW key \in Key, NEW slot \in Lower(rootkey, key),
           IsFull(children[slot]), CanBorrow(slot)
    PROVE  /\ slot \in 1 .. Len(Row) /\ slot - 1 \in 1 .. Len(Row) /\ slot - 1 \in 1 .. Len(rootkey)
           /\ Row = children /\ Len(Row) \in Nat /\ Len(Row) = Len(rootkey) + 1
           /\ Row[slot] \in live /\ Row[slot - 1] \in live /\ Row[slot] # Row[slot - 1]
           /\ live \subseteq Bin /\ slotkey[Row[slot]] # <<>> /\ Ascending(slotkey[Row[slot]])
           /\ Len(slotkey[Row[slot]]) = ChildSlotMax
           /\ Len(slotkey[Row[slot - 1]]) + 1 <= ChildSlotMax /\ Ascending(slotkey[Row[slot - 1]])
           /\ RoutedTo(key, slot, Row[slot])
<1>1. Row = children /\ Len(Row) \in Nat /\ Len(Row) = Len(rootkey) + 1 /\ Len(rootkey) \in Nat
      /\ \A i \in 1 .. Len(Row) : Row[i] \in Bin
  BY RowIs
<1>2. slot \in 1 .. Len(rootkey) + 1 /\ slot > 1 /\ Used(Row[slot - 1]) < RootSlotMax
  BY <1>1 DEF Lower, CanBorrow
<1>3. slot \in 1 .. Len(Row) /\ slot - 1 \in 1 .. Len(Row) /\ slot - 1 \in 1 .. Len(rootkey) /\ slot # slot - 1
  BY <1>1, <1>2
<1>4. Row[slot] \in live /\ Row[slot - 1] \in live /\ Row[slot] # Row[slot - 1] /\ live \subseteq Bin
      /\ Ascending(slotkey[Row[slot]]) /\ Ascending(slotkey[Row[slot - 1]])
  BY <1>3 DEF RowInv, TypeOK
<1>5. slotkey[Row[slot]] # <<>> /\ Len(slotkey[Row[slot]]) = ChildSlotMax
  BY <1>1, <1>4, FullIs
<1>6. Len(slotkey[Row[slot - 1]]) + 1 <= ChildSlotMax
  <2>1. Len(slotkey[Row[slot - 1]]) \in Nat
    BY <1>4, ArraysAre
  <2>2. QED
    BY <1>2, <2>1, SlotAssumption DEF Used
<1>7. RoutedTo(key, slot, Row[slot])
  BY <1>1 DEF RoutedTo
<1>8. QED
  BY <1>1, <1>3, <1>4, <1>5, <1>6, <1>7

\* The key is appended to the left neighbour, and becomes its separator.
LEMMA AppendToLeftStep ==
    ASSUME IInv, NEW key \in Key, NEW val \in Val, AppendToLeft(key, val)
    PROVE  IInv' /\ Adds(key, val)
<1>3. TypeOK /\ RowInv /\ Intact /\ HasRoot /\ UNCHANGED <<live, chain, children, is_retraining>>
  BY DEF AppendToLeft, Defined, IInv
<1>1. PICK slot \in Lower(rootkey, key) :
        /\ IsFull(children[slot]) /\ CanBorrow(slot)
        /\ key < slotkey[children[slot]][1]
        /\ slotkey' = [slotkey EXCEPT ![children[slot - 1]] = Append(@, key)]
        /\ slotdata' = [slotdata EXCEPT ![children[slot - 1]] = Append(@, val)]
        /\ rootkey' = [rootkey EXCEPT ![slot - 1] = key]
  BY DEF AppendToLeft
<1>b1. PICK b : b = Row[slot - 1]
  OBVIOUS
<1>c1. PICK c : c = Row[slot]
  OBVIOUS
<1> DEFINE s == slotkey[b]
           d == slotdata[b]
           r == Append(s, key)
           q == Append(d, val)
<1>2. /\ slot \in 1 .. Len(Row) /\ slot - 1 \in 1 .. Len(Row) /\ slot - 1 \in 1 .. Len(rootkey)
      /\ Row = children /\ Len(Row) \in Nat /\ Len(Row) = Len(rootkey) + 1
      /\ c \in live /\ b \in live /\ c # b
      /\ live \subseteq Bin /\ slotkey[c] # <<>> /\ Ascending(slotkey[c])
      /\ Len(s) + 1 <= ChildSlotMax /\ Ascending(s)
      /\ RoutedTo(key, slot, c) /\ b = children[slot - 1] /\ c = children[slot]
  BY <1>1, <1>3, <1>b1, <1>c1, NeighbourIs
<1>4. s \in Seq(Key) /\ d \in Seq(Val) /\ Len(d) = Len(s) /\ b \in Bin /\ c \in Bin
      /\ slotkey[c] \in Seq(Key) /\ key < slotkey[c][1] /\ key \in Int
  BY <1>1, <1>2, <1>3, ArraysAre, KeyAssumption DEF KeyAssumption
<1>b. /\ \A i \in 1 .. Len(Row) :
            /\ i < slot => Before(Keys(Row[i]), {key})
            /\ i > slot => Before({key}, Keys(Row[i]))
  BY <1>2, <1>3, Between
<1>c. Before({key}, Keys(c)) /\ key \notin Keys(c)
  <2>1. \A x \in Keys(c) : x \in Int /\ slotkey[c][1] \in Int /\ slotkey[c][1] <= x
    <3>1. /\ \A x \in ToSet(slotkey[c]) : slotkey[c][1] <= x
          /\ slotkey[c][1] \in ToSet(slotkey[c]) /\ ToSet(slotkey[c]) \subseteq Int
      BY <1>2, <1>4, Ends, KeysAreNumbers
    <3>2. QED
      BY <3>1 DEF Keys
  <2>2. \A x \in Keys(c) : key < x
    BY <1>4, <2>1
  <2>3. QED
    BY <1>4, <2>2 DEF Before
<1>5. \A i \in 1 .. Len(s) : s[i] < key
  <2>1. slot - 1 < slot
    BY <1>2
  <2>2. Before(ToSet(s), {key})
    BY <1>2, <1>b, <1>b1, <2>1 DEF Keys
  <2>3. QED
    BY <1>4, <2>2, KeysAreNumbers DEF Before
<1>6. /\ r \in Seq(Key) /\ Len(r) = Len(s) + 1 /\ r # <<>> /\ Ascending(r)
      /\ q \in Seq(Val) /\ Len(q) = Len(s) + 1
      /\ ToSet(r) = ToSet(s) \cup {key} /\ Pairs(r, q) = Pairs(s, d) \cup {<<key, val>>}
      /\ Last(r) = key
  <2>1. /\ s \in Seq(Key) /\ d \in Seq(Val) /\ Len(d) = Len(s) /\ Ascending(s)
        /\ \A i \in 1 .. Len(s) : s[i] < key
    BY <1>2, <1>4, <1>5
  <2> HIDE DEF s, d
  <2>2. QED
    BY <2>1, PutBehind
<1>7. /\ slotkey' = [slotkey EXCEPT ![b] = r] /\ slotdata' = [slotdata EXCEPT ![b] = q]
      /\ slotkey'[b] = r /\ slotdata'[b] = q
      /\ \A x \in Bin \ {b} : slotkey'[x] = slotkey[x] /\ slotdata'[x] = slotdata[x]
  BY <1>1, <1>2, <1>3, <1>4 DEF TypeOK
<1>k. /\ rootkey' \in Seq(Key) /\ Len(rootkey') = Len(rootkey)
      /\ \A i \in 1 .. Len(rootkey) : rootkey'[i] = IF i = slot - 1 THEN key ELSE rootkey[i]
  <2>1. rootkey \in Seq(Key) /\ slot - 1 \in 1 .. Len(rootkey)
    BY <1>2, <1>3 DEF TypeOK
  <2> DEFINE n == slot - 1
  <2> HIDE DEF n
  <2>2. n \in 1 .. Len(rootkey) /\ rootkey' = [rootkey EXCEPT ![n] = key]
    BY <1>1, <2>1 DEF n
  <2>3. /\ rootkey' \in Seq(Key) /\ Len(rootkey') = Len(rootkey)
        /\ \A i \in 1 .. Len(rootkey) : rootkey'[i] = IF i = n THEN key ELSE rootkey[i]
    BY <2>1, <2>2, ExceptSeq
  <2>4. QED
    BY <2>3 DEF n
<1> HIDE DEF r, q
<1>8. TypeOK'
  <2>1. slotkey' \in [Bin -> Seq(Key)] /\ slotdata' \in [Bin -> Seq(Val)]
    BY <1>3, <1>4, <1>6, <1>7 DEF TypeOK
  <2>3. \A x \in Bin : Used(x)' = Len(slotdata[x])' /\ Used(x)' <= ChildSlotMax
    <3> TAKE x \in Bin
    <3>1. CASE x = b
      <4>1. Len(r) = Len(q) /\ Len(r) <= ChildSlotMax
        BY <1>2, <1>6
      <4>2. slotkey'[x] = r /\ slotdata'[x] = q
        BY <1>7, <3>1
      <4>3. QED
        BY <4>1, <4>2 DEF Used
    <3>2. CASE x # b
      BY <1>3, <1>7, <3>2 DEF TypeOK, Used
    <3>3. QED
      BY <3>1, <3>2
  <2>4. ret'.res = "ok"
    BY DEF AppendToLeft, Inserted, Answer
  <2>5. QED
    BY <1>3, <1>k, <2>1, <2>3, <2>4 DEF TypeOK, HasRoot, chain
<1>r. /\ \A i \in 1 .. Len(Row) : i # slot - 1 => Row[i] \in Bin \ {b}
      /\ \A i \in 1 .. Len(rootkey) : i \in 1 .. Len(Row)
  BY <1>2, <1>3, <1>b1, RowIs DEF RowInv
<1>9. IInv'
  <2>1. \A i \in 1 .. Len(Row) : Ascending(slotkey'[Row[i]])
    BY <1>3, <1>6, <1>7, <1>b1, <1>r DEF RowInv
  <2>2. ASSUME NEW i \in 1 .. Len(Row), NEW j \in 1 .. Len(Row), i < j
        PROVE  Before(ToSet(slotkey'[Row[i]]), ToSet(slotkey'[Row[j]]))
    <3>1. Before(ToSet(slotkey[Row[i]]), ToSet(slotkey[Row[j]]))
      BY <1>3, <2>2 DEF RowInv, Keys
    <3>2. CASE i = slot - 1
      <4>0. j # slot - 1 /\ (j = slot \/ j > slot)
        BY <1>2, <2>2, <3>2
      <4>1. slotkey'[Row[i]] = r /\ slotkey'[Row[j]] = slotkey[Row[j]]
        BY <1>7, <1>b1, <1>r, <3>2, <4>0
      <4>2. Before({key}, ToSet(slotkey[Row[j]]))
        BY <1>b, <1>c, <1>c1, <4>0 DEF Keys
      <4>3. Before(ToSet(s), ToSet(slotkey[Row[j]]))
        BY <1>b1, <3>1, <3>2
      <4>4. QED
        BY <1>6, <4>1, <4>2, <4>3 DEF Before
    <3>3. CASE j = slot - 1
      <4>0. i < slot /\ i # slot - 1
        BY <1>2, <2>2, <3>3
      <4>1. slotkey'[Row[j]] = r /\ slotkey'[Row[i]] = slotkey[Row[i]] /\ Before(ToSet(slotkey[Row[i]]), {key})
        BY <1>7, <1>b, <1>b1, <1>r, <3>3, <4>0 DEF Keys
      <4>2. Before(ToSet(slotkey[Row[i]]), ToSet(s))
        BY <1>b1, <3>1, <3>3
      <4>3. QED
        BY <1>6, <4>1, <4>2 DEF Before
    <3>4. CASE i # slot - 1 /\ j # slot - 1
      BY <1>7, <1>r, <3>1, <3>4
    <3>5. QED
      BY <3>2, <3>3, <3>4
  <2>3. ASSUME NEW i \in 1 .. Len(rootkey)
        PROVE  slotkey'[Row[i]] # <<>> /\ rootkey'[i] = Last(slotkey'[Row[i]])
    <3>1. slotkey[Row[i]] # <<>> /\ rootkey[i] = Last(slotkey[Row[i]]) /\ i \in 1 .. Len(Row)
      BY <1>3, <1>r DEF RowInv
    <3>2. CASE i # slot - 1
      BY <1>k, <1>7, <1>r, <3>1, <3>2
    <3>3. CASE i = slot - 1
      BY <1>k, <1>6, <1>7, <1>b1, <3>3
    <3>4. QED
      BY <3>2, <3>3
  <2>5. QED
    BY <1>3, <1>8, <1>k, <2>1, <2>2, <2>3, RowStays
<1>10. ~Held(key)
  <2>1. \A i \in 1 .. Len(Row) : key \notin Keys(Row[i])
    BY <1>2, <1>3, <1>c, <1>c1, OnlyWhereRouted
  <2>2. \A x \in live : key \notin Keys(x)
    BY <1>3, <2>1 DEF RowInv
  <2>3. QED
    BY <1>3, <2>2, HeldIs
<1>11. ASSUME NEW x PROVE x \in Stock' <=> x \in Stock \cup {<<key, val>>}
  <2>1. \A y \in live \ {b} : Entries(y)' = Entries(y)
    BY <1>3, <1>7 DEF Entries, TypeOK
  <2>2. x \in Stock' <=> x \in Entries(b)' \/ \E y \in live \ {b} : x \in Entries(y)
    BY <1>2, <1>3, <2>1, StockOfOne
  <2>3. Entries(b)' = Entries(b) \cup {<<key, val>>}
    BY <1>6, <1>7 DEF Entries
  <2>4. QED
    BY <1>2, <2>2, <2>3 DEF Stock
<1>12. QED
  BY <1>9, <1>10, <1>11 DEF Adds

\* Two arrays change.
LEMMA StockOfTwo ==
    ASSUME NEW b \in live, NEW c \in live, live' = live,
           \A y \in live \ {b, c} : Entries(y)' = Entries(y)
    PROVE  \A x : x \in Stock' <=> \/ x \in Entries(b)' \/ x \in Entries(c)'
                                   \/ \E y \in live \ {b, c} : x \in Entries(y)
  BY DEF Stock

\* The first entry of the routed array moves to the left neighbour, whose
\* separator follows it, and the key takes a place behind it.
LEMMA ShiftToLeftStep ==
    ASSUME IInv, NEW key \in Key, NEW val \in Val, ShiftToLeft(key, val)
    PROVE  IInv' /\ Adds(key, val)
<1>3. TypeOK /\ RowInv /\ Intact /\ HasRoot /\ UNCHANGED <<live, chain, children, is_retraining>>
  BY DEF ShiftToLeft, Defined, IInv
<1>0. PICK slot \in Lower(rootkey, key) :
        /\ IsFull(children[slot]) /\ CanBorrow(slot)
        /\ slotkey[children[slot]][1] < key
        /\ \E cslot \in Lower(slotkey[children[slot]], key) :
            /\ ~At(children[slot], cslot, key)
            /\ slotkey' = [slotkey EXCEPT
                    ![children[slot - 1]] = Append(@, slotkey[children[slot]][1]),
                    ![children[slot]] = InsertAt(Tail(@), cslot - 1, key)]
            /\ slotdata' = [slotdata EXCEPT
                    ![children[slot - 1]] = Append(@, slotdata[children[slot]][1]),
                    ![children[slot]] = InsertAt(Tail(@), cslot - 1, val)]
            /\ rootkey' = [i \in DOMAIN rootkey |->
                    IF i = slot - 1 THEN slotkey[children[slot]][1]
                    ELSE IF i = slot /\ cslot > Used(children[slot]) THEN key
                    ELSE rootkey[i]]
  BY DEF ShiftToLeft
<1>b1. PICK b : b = Row[slot - 1]
  OBVIOUS
<1>c1. PICK c : c = Row[slot]
  OBVIOUS
<1> DEFINE a == slotkey[b]
           e == slotdata[b]
           s == slotkey[c]
           d == slotdata[c]
<1>2. /\ slot \in 1 .. Len(Row) /\ slot - 1 \in 1 .. Len(Row) /\ slot - 1 \in 1 .. Len(rootkey)
      /\ Row = children /\ Len(Row) \in Nat /\ Len(Row) = Len(rootkey) + 1
      /\ c \in live /\ b \in live /\ c # b
      /\ live \subseteq Bin /\ s # <<>> /\ Ascending(s) /\ Len(s) = ChildSlotMax
      /\ Len(a) + 1 <= ChildSlotMax /\ Ascending(a)
      /\ RoutedTo(key, slot, c) /\ b = children[slot - 1] /\ c = children[slot]
  BY <1>0, <1>3, <1>b1, <1>c1, NeighbourIs
<1>4. a \in Seq(Key) /\ e \in Seq(Val) /\ Len(e) = Len(a) /\ b \in Bin /\ c \in Bin
      /\ s \in Seq(Key) /\ d \in Seq(Val) /\ Len(d) = Len(s) /\ key \in Int
      /\ Keys(b) \subseteq Int /\ Keys(c) \subseteq Int
  BY <1>2, <1>3, ArraysAre, KeyAssumption DEF KeyAssumption
<1>p. PICK cslot \in Lower(slotkey[children[slot]], key) :
        /\ ~At(children[slot], cslot, key)
        /\ slotkey' = [slotkey EXCEPT
                ![children[slot - 1]] = Append(@, slotkey[children[slot]][1]),
                ![children[slot]] = InsertAt(Tail(@), cslot - 1, key)]
        /\ slotdata' = [slotdata EXCEPT
                ![children[slot - 1]] = Append(@, slotdata[children[slot]][1]),
                ![children[slot]] = InsertAt(Tail(@), cslot - 1, val)]
        /\ rootkey' = [i \in DOMAIN rootkey |->
                IF i = slot - 1 THEN slotkey[children[slot]][1]
                ELSE IF i = slot /\ cslot > Used(children[slot]) THEN key
                ELSE rootkey[i]]
  BY <1>0
<1>1. /\ cslot \in Lower(s, key) /\ ~At(c, cslot, key)
      /\ slotkey' = [slotkey EXCEPT ![b] = Append(a, s[1]), ![c] = InsertAt(Tail(s), cslot - 1, key)]
      /\ slotdata' = [slotdata EXCEPT ![b] = Append(e, d[1]), ![c] = InsertAt(Tail(d), cslot - 1, val)]
      /\ rootkey' = [i \in DOMAIN rootkey |->
                IF i = slot - 1 THEN s[1] ELSE IF i = slot /\ cslot > Used(c) THEN key ELSE rootkey[i]]
  <2>1. b = children[slot - 1] /\ c = children[slot] /\ b # c
    BY <1>2
  <2>2. [slotkey EXCEPT ![b] = Append(@, s[1])][c] = s /\ [slotdata EXCEPT ![b] = Append(@, d[1])][c] = d
    BY <1>3, <1>4, <2>1 DEF TypeOK
  <2>3. QED
    BY <1>p, <2>1, <2>2
<1>f. PICK f : f = s[1]
  OBVIOUS
<1>g. PICK g : g = d[1]
  OBVIOUS
<1> DEFINE r == Append(a, f)
           q == Append(e, g)
           u == InsertAt(Tail(s), cslot - 1, key)
           w == InsertAt(Tail(d), cslot - 1, val)
<1>h. /\ Len(s) > 1 /\ f \in Key /\ g \in Val /\ f < key /\ f \in Int
      /\ f \in ToSet(s) /\ \A x \in ToSet(s) : f <= x
      /\ <<f, g>> \in Pairs(s, d)
  <2>1. Len(s) > 1 /\ 1 \in 1 .. Len(s) /\ 1 \in 1 .. Len(d)
    BY <1>2, <1>4, SlotAssumption
  <2>2. f \in Key /\ g \in Val /\ f < key
    BY <1>0, <1>2, <1>4, <1>f, <1>g, <2>1, ElementOfSeq
  <2>3. f \in ToSet(s) /\ \A x \in ToSet(s) : f <= x
    BY <1>2, <1>4, <1>f, Ends
  <2>4. <<f, g>> \in Pairs(s, d)
    BY <1>f, <1>g, <2>1 DEF Pairs
  <2>5. QED
    BY <2>1, <2>2, <2>3, <2>4, KeyAssumption DEF KeyAssumption
<1>b. /\ \A i \in 1 .. Len(Row) :
            /\ i < slot => Before(Keys(Row[i]), {key})
            /\ i > slot => Before({key}, Keys(Row[i]))
      /\ Before(ToSet(a), ToSet(s))
  <2>1. slot - 1 < slot
    BY <1>2
  <2>2. QED
    BY <1>2, <1>3, <1>b1, <1>c1, <2>1, Between DEF RowInv, Keys
<1>5. /\ r \in Seq(Key) /\ Len(r) = Len(a) + 1 /\ r # <<>> /\ Ascending(r)
      /\ q \in Seq(Val) /\ Len(q) = Len(a) + 1
      /\ ToSet(r) = ToSet(a) \cup {f} /\ Pairs(r, q) = Pairs(a, e) \cup {<<f, g>>}
      /\ Last(r) = f
  <2>1. /\ a \in Seq(Key) /\ e \in Seq(Val) /\ Len(e) = Len(a) /\ Ascending(a) /\ f \in Key /\ g \in Val
    BY <1>2, <1>4, <1>h
  <2>2. \A i \in 1 .. Len(a) : a[i] < f
    BY <1>b, <1>h, <2>1, KeysAreNumbers DEF Before
  <2> HIDE DEF a, e
  <2>3. QED
    BY <2>1, <2>2, PutBehind
<1>6. /\ u \in Seq(Key) /\ Len(u) = Len(s) /\ u # <<>> /\ Ascending(u)
      /\ w \in Seq(Val) /\ Len(w) = Len(s)
      /\ ToSet(u) = (ToSet(s) \ {f}) \cup {key}
      /\ Pairs(u, w) = (Pairs(s, d) \ {<<f, g>>}) \cup {<<key, val>>}
      /\ Last(u) = IF cslot > Len(s) THEN key ELSE Last(s)
  <2>1. /\ s \in Seq(Key) /\ d \in Seq(Val) /\ Len(d) = Len(s) /\ Ascending(s) /\ Len(s) > 1
        /\ cslot \in Lower(s, key) /\ ~(cslot <= Len(s) /\ s[cslot] = key) /\ s[1] < key
    BY <1>1, <1>2, <1>4, <1>f, <1>h DEF At, Used
  <2> HIDE DEF s, d
  <2>2. /\ u \in Seq(Key) /\ Len(u) = Len(s) /\ u # <<>> /\ Ascending(u)
        /\ w \in Seq(Val) /\ Len(w) = Len(s)
        /\ ToSet(u) = (ToSet(s) \ {s[1]}) \cup {key}
        /\ Pairs(u, w) = (Pairs(s, d) \ {<<s[1], d[1]>>}) \cup {<<key, val>>}
        /\ Last(u) = IF cslot > Len(s) THEN key ELSE Last(s)
    BY <2>1, PutForFirst
  <2> HIDE DEF u, w
  <2>3. QED
    BY <1>f, <1>g, <2>2
<1>7. /\ slotkey' = [slotkey EXCEPT ![b] = r, ![c] = u] /\ slotdata' = [slotdata EXCEPT ![b] = q, ![c] = w]
      /\ slotkey'[b] = r /\ slotdata'[b] = q /\ slotkey'[c] = u /\ slotdata'[c] = w
      /\ \A x \in Bin \ {b, c} : slotkey'[x] = slotkey[x] /\ slotdata'[x] = slotdata[x]
  <2>1. slotkey \in [Bin -> Seq(Key)] /\ slotdata \in [Bin -> Seq(Val)]
    BY <1>3 DEF TypeOK
  <2>2. /\ slotkey' = [slotkey EXCEPT ![b] = r, ![c] = u] /\ slotdata' = [slotdata EXCEPT ![b] = q, ![c] = w]
    BY <1>1, <1>2, <1>4, <1>f, <1>g, <2>1
  <2> HIDE DEF r, q, u, w
  <2>3. QED
    BY <1>2, <1>4, <2>1, <2>2
<1>k. /\ rootkey' \in Seq(Key) /\ Len(rootkey') = Len(rootkey)
      /\ \A i \in 1 .. Len(rootkey) : rootkey'[i] =
                IF i = slot - 1 THEN f ELSE IF i = slot /\ cslot > Len(s) THEN key ELSE rootkey[i]
  <2>1. rootkey \in Seq(Key) /\ Len(rootkey) \in Nat /\ DOMAIN rootkey = 1 .. Len(rootkey)
    BY <1>3, LenProperties DEF TypeOK
  <2>2. \A i \in 1 .. Len(rootkey) : rootkey[i] \in Key
    BY <2>1, ElementOfSeq
  <2>3. rootkey' = [i \in 1 .. Len(rootkey) |->
                IF i = slot - 1 THEN f ELSE IF i = slot /\ cslot > Len(s) THEN key ELSE rootkey[i]]
    BY <1>1, <1>f, <2>1 DEF Used
  <2>4. QED
    BY <1>h, <2>1, <2>2, <2>3
<1> HIDE DEF r, q, u, w
<1>8. TypeOK'
  <2>1. slotkey' \in [Bin -> Seq(Key)] /\ slotdata' \in [Bin -> Seq(Val)]
    BY <1>3, <1>4, <1>5, <1>6, <1>7 DEF TypeOK
  <2>3. \A x \in Bin : Used(x)' = Len(slotdata[x])' /\ Used(x)' <= ChildSlotMax
    <3> TAKE x \in Bin
    <3>1. CASE x = b
      <4>1. slotkey'[x] = r /\ slotdata'[x] = q /\ Len(r) = Len(q) /\ Len(r) <= ChildSlotMax
        BY <1>2, <1>5, <1>7, <3>1
      <4>2. QED
        BY <4>1 DEF Used
    <3>2. CASE x = c
      BY <1>2, <1>3, <1>6, <1>7, <3>2 DEF Used, TypeOK
    <3>3. CASE x \notin {b, c}
      BY <1>3, <1>7, <3>3 DEF TypeOK, Used
    <3>4. QED
      BY <3>1, <3>2, <3>3
  <2>4. ret'.res = "ok"
    BY DEF ShiftToLeft, Inserted, Answer
  <2>5. QED
    BY <1>3, <1>k, <2>1, <2>3, <2>4 DEF TypeOK, HasRoot, chain
<1>r. /\ \A i \in 1 .. Len(Row) : i \notin {slot - 1, slot} => Row[i] \in Bin \ {b, c}
      /\ \A i \in 1 .. Len(rootkey) : i \in 1 .. Len(Row)
  BY <1>2, <1>3, <1>b1, <1>c1, RowIs DEF RowInv
<1>9. IInv'
  <2>1. \A i \in 1 .. Len(Row) : Ascending(slotkey'[Row[i]])
    BY ZenonT(60), <1>3, <1>5, <1>6, <1>7, <1>b1, <1>c1, <1>r DEF RowInv
  <2>2. ASSUME NEW i \in 1 .. Len(Row), NEW j \in 1 .. Len(Row), i < j
        PROVE  Before(ToSet(slotkey'[Row[i]]), ToSet(slotkey'[Row[j]]))
    <3>1. Before(ToSet(slotkey[Row[i]]), ToSet(slotkey[Row[j]]))
      BY <1>3, <2>2 DEF RowInv, Keys
    <3>i. slotkey'[Row[i]] = IF i = slot - 1 THEN r ELSE IF i = slot THEN u ELSE slotkey[Row[i]]
      BY <1>2, <1>7, <1>b1, <1>c1, <1>r
    <3>j. slotkey'[Row[j]] = IF j = slot - 1 THEN r ELSE IF j = slot THEN u ELSE slotkey[Row[j]]
      BY <1>2, <1>7, <1>b1, <1>c1, <1>r
    \* of the keys before
    <3>2. CASE i = slot - 1 /\ j = slot
      <4>1. Before(ToSet(a), ToSet(s)) /\ Before(ToSet(a), {key})
        <5>1. slot - 1 < slot
          BY <1>2
        <5>2. QED
          BY <1>2, <1>b, <1>b1, <5>1 DEF Keys
      <4>2. \A x \in ToSet(s) \ {f} : f < x
        <5>1. \A x \in ToSet(s) : x \in Int /\ f <= x
          BY <1>4, <1>h DEF Keys
        <5>2. TAKE x \in ToSet(s) \ {f}
        <5>3. x \in Int /\ f <= x /\ x # f /\ f \in Int
          BY <1>h, <5>1
        <5>4. QED
          BY <5>3
      <4>3. slotkey'[Row[i]] = r /\ slotkey'[Row[j]] = u
        BY <1>2, <3>2, <3>i, <3>j
      <4>4. \A x \in ToSet(r) : \A y \in ToSet(u) : x < y
        <5> TAKE x \in ToSet(r)
        <5> TAKE y \in ToSet(u)
        <5>1. (x \in ToSet(a) \/ x = f) /\ (y = key \/ (y \in ToSet(s) /\ y \in ToSet(s) \ {f}))
          BY <1>5, <1>6
        <5>2. QED
          BY <1>h, <4>1, <4>2, <5>1 DEF Before
      <4>5. QED
        BY <4>3, <4>4 DEF Before
    <3>3. CASE i = slot - 1 /\ j # slot
      <4>0. j > slot /\ j # slot - 1
        BY <1>2, <2>2, <3>3
      <4>1. slotkey'[Row[i]] = r /\ slotkey'[Row[j]] = slotkey[Row[j]]
        BY <3>3, <3>i, <3>j, <4>0
      <4>2. Before(ToSet(s), ToSet(slotkey[Row[j]]))
        BY <1>2, <1>3, <1>c1, <4>0 DEF RowInv, Keys
      <4>3. Before(ToSet(a), ToSet(slotkey[Row[j]]))
        BY <1>b1, <3>1, <3>3
      <4>4. QED
        BY <1>5, <1>h, <4>1, <4>2, <4>3 DEF Before
    <3>4. CASE i = slot
      <4>0. j > slot /\ j # slot - 1 /\ j # slot /\ i # slot - 1
        BY <1>2, <2>2, <3>4
      <4>1. slotkey'[Row[i]] = u /\ slotkey'[Row[j]] = slotkey[Row[j]]
        BY <3>4, <3>i, <3>j, <4>0
      <4>2. Before({key}, ToSet(slotkey[Row[j]]))
        BY <1>b, <4>0 DEF Keys
      <4>3. Before(ToSet(s), ToSet(slotkey[Row[j]]))
        BY <1>c1, <3>1, <3>4
      <4>4. QED
        BY <1>6, <4>1, <4>2, <4>3 DEF Before
    <3>5. CASE i \notin {slot - 1, slot} /\ j = slot - 1
      <4>0. i < slot
        BY <1>2, <2>2, <3>5
      <4>1. slotkey'[Row[i]] = slotkey[Row[i]] /\ slotkey'[Row[j]] = r
        BY <3>5, <3>i, <3>j
      <4>2. Before(ToSet(slotkey[Row[i]]), ToSet(s))
        BY <1>2, <1>3, <1>c1, <4>0 DEF RowInv, Keys
      <4>3. Before(ToSet(slotkey[Row[i]]), ToSet(a))
        BY <1>b1, <3>1, <3>5
      <4>4. QED
        BY <1>5, <1>h, <4>1, <4>2, <4>3 DEF Before
    <3>6. CASE i \notin {slot - 1, slot} /\ j = slot
      <4>0. i < slot /\ j # slot - 1
        BY <1>2, <2>2, <3>6
      <4>1. slotkey'[Row[i]] = slotkey[Row[i]] /\ slotkey'[Row[j]] = u
        BY <3>6, <3>i, <3>j, <4>0
      <4>2. Before(ToSet(slotkey[Row[i]]), {key})
        BY <1>b, <4>0 DEF Keys
      <4>3. Before(ToSet(slotkey[Row[i]]), ToSet(s))
        BY <1>c1, <3>1, <3>6
      <4>4. QED
        BY <1>6, <4>1, <4>2, <4>3 DEF Before
    <3>7. CASE i \notin {slot - 1, slot} /\ j \notin {slot - 1, slot}
      BY <3>1, <3>7, <3>i, <3>j
    <3>8. QED
      BY <3>2, <3>3, <3>4, <3>5, <3>6, <3>7
  <2>3. ASSUME NEW i \in 1 .. Len(rootkey)
        PROVE  slotkey'[Row[i]] # <<>> /\ rootkey'[i] = Last(slotkey'[Row[i]])
    <3>1. slotkey[Row[i]] # <<>> /\ rootkey[i] = Last(slotkey[Row[i]]) /\ i \in 1 .. Len(Row)
      BY <1>3, <1>r DEF RowInv
    <3>2. CASE i \notin {slot - 1, slot}
      BY <1>k, <1>7, <1>r, <3>1, <3>2
    <3>3. CASE i = slot - 1
      BY <1>k, <1>5, <1>7, <1>b1, <3>3
    <3>4. CASE i = slot
      <4>1. i # slot - 1
        BY <1>2, <3>4
      <4>2. QED
        BY <1>k, <1>6, <1>7, <1>c1, <3>1, <3>4, <4>1
    <3>5. QED
      BY <3>2, <3>3, <3>4
  <2>5. QED
    BY <1>3, <1>8, <1>k, <2>1, <2>2, <2>3, RowStays
<1>10. ~Held(key)
  BY <1>1, <1>2, <1>3, HeldWhereRouted
<1>11. ASSUME NEW x PROVE x \in Stock' <=> x \in Stock \cup {<<key, val>>}
  <2>1. \A y \in live \ {b, c} : Entries(y)' = Entries(y)
    BY <1>2, <1>7 DEF Entries
  <2>2. x \in Stock' <=> \/ x \in Entries(b)' \/ x \in Entries(c)'
                         \/ \E y \in live \ {b, c} : x \in Entries(y)
    BY <1>2, <1>3, <2>1, StockOfTwo
  <2>3. Entries(b)' = Entries(b) \cup {<<f, g>>} /\ Entries(c)' = (Entries(c) \ {<<f, g>>}) \cup {<<key, val>>}
        /\ <<f, g>> \in Entries(c)
    BY <1>5, <1>6, <1>7, <1>h DEF Entries
  <2>4. x \in Stock <=> \/ x \in Entries(b) \/ x \in Entries(c)
                        \/ \E y \in live \ {b, c} : x \in Entries(y)
    BY <1>2 DEF Stock
  <2>5. QED
    BY <2>2, <2>3, <2>4
<1>12. QED
  BY <1>9, <1>10, <1>11 DEF Adds

-----------------------------------------------------------------------------
(* Splitting an array. *)

\* Linking the new array behind b keeps the chain equal to the row.
LEMMA LinkKeepsChain ==
    ASSUME TypeOK, RowInv, ChainInv, NEW slot \in 1 .. Len(Row), NEW b, b = Row[slot],
           NEW new \in Bin \ live, Link(b, new), live' = live \cup {new},
           Len(Row') = Len(Row) + 1, Row' # <<>>,
           \A j \in 1 .. Len(Row) + 1 :
                Row'[j] = IF j <= slot THEN Row[j] ELSE IF j = slot + 1 THEN new ELSE Row[j - 1]
    PROVE  /\ ChainInv'
           /\ prevbin' \in [Bin -> Bin \cup {NoBin}] /\ nextbin' \in [Bin -> Bin \cup {NoBin}]
           /\ headbin' = headbin /\ headbin \in Bin /\ tailbin' \in Bin \cup {NoBin}
<1>0. /\ Len(Row) \in Nat /\ NoBin \notin Bin /\ live \subseteq Bin
      /\ \A i \in 1 .. Len(Row) : Row[i] \in Bin /\ Row[i] \in live /\ Row[i] # new /\ Row[i] # NoBin
      /\ \A i, j \in 1 .. Len(Row) : Row[i] = Row[j] => i = j
      /\ live = {Row[i] : i \in 1 .. Len(Row)} /\ new \in Bin /\ new # NoBin
  <2>1. Len(Row) \in Nat /\ \A i \in 1 .. Len(Row) : Row[i] \in Bin
    BY RowIs
  <2>2. NoBin \notin Bin /\ live \subseteq Bin
    BY NullAssumption DEF TypeOK
  <2>3. /\ \A i, j \in 1 .. Len(Row) : Row[i] = Row[j] => i = j
        /\ live = {Row[i] : i \in 1 .. Len(Row)}
    BY DEF RowInv
  <2>4. QED
    BY <2>1, <2>2, <2>3
<1>n. Len(Row) \in Nat
  BY <1>0
<1>1. /\ nextbin \in [Bin -> Bin \cup {NoBin}] /\ prevbin \in [Bin -> Bin \cup {NoBin}]
      /\ headbin \in Bin \cup {NoBin} /\ tailbin \in Bin \cup {NoBin} /\ b \in Bin /\ b # new
  BY <1>0 DEF TypeOK
<1>2. /\ \A i \in 1 .. Len(Row) :
            /\ prevbin[Row[i]] = IF i = 1 THEN NoBin ELSE Row[i - 1]
            /\ nextbin[Row[i]] = IF i = Len(Row) THEN NoBin ELSE Row[i + 1]
      /\ \A c \in Bin \ live : prevbin[c] = NoBin /\ nextbin[c] = NoBin
      /\ Row # <<>> /\ headbin = Row[1] /\ tailbin = Row[Len(Row)]
  <2>1. Row # <<>>
    <3>1. Len(Row) # 0
      BY <1>0
    <3>2. QED
      BY <3>1, EmptySeq
  <2>2. QED
    BY <2>1 DEF ChainInv
<1>3. /\ nextbin[b] = IF slot = Len(Row) THEN NoBin ELSE Row[slot + 1]
      /\ nextbin[b] = NoBin <=> slot = Len(Row)
      /\ \A i \in 1 .. Len(Row) : Row[i] = nextbin[b] <=> i = slot + 1
  <2>1. nextbin[b] = IF slot = Len(Row) THEN NoBin ELSE Row[slot + 1]
    BY <1>2
  <2>2. slot # Len(Row) => slot + 1 \in 1 .. Len(Row)
    BY <1>0
  <2>3. \A i \in 1 .. Len(Row) : slot = Len(Row) => i # slot + 1
    BY <1>0
  <2>4. QED
    BY <1>0, <2>1, <2>2, <2>3
<1>4. /\ nextbin' \in [Bin -> Bin \cup {NoBin}] /\ prevbin' \in [Bin -> Bin \cup {NoBin}]
      /\ nextbin'[b] = new /\ nextbin'[new] = nextbin[b]
      /\ \A c \in Bin \ {b, new} : nextbin'[c] = nextbin[c]
      /\ prevbin'[new] = b
      /\ \A c \in Bin \ {new} : prevbin'[c] = IF c = nextbin[b] THEN new ELSE prevbin[c]
      /\ tailbin' = (IF slot = Len(Row) THEN new ELSE tailbin) /\ headbin' = headbin
  BY <1>0, <1>1, <1>3 DEF Link
<1>5. ASSUME NEW j \in 1 .. Len(Row) + 1
      PROVE  /\ prevbin'[Row'[j]] = IF j = 1 THEN NoBin ELSE Row'[j - 1]
             /\ nextbin'[Row'[j]] = IF j = Len(Row) + 1 THEN NoBin ELSE Row'[j + 1]
  <2>1. CASE j < slot
    <3>1. /\ j \in 1 .. Len(Row) /\ j + 1 \in 1 .. Len(Row) + 1 /\ j + 1 <= slot /\ j <= slot
          /\ j # Len(Row) /\ j # slot /\ j # slot + 1 /\ j # Len(Row) + 1
          /\ (j # 1 => j - 1 \in 1 .. Len(Row) + 1 /\ j - 1 <= slot)
      BY <1>0, <2>1
    <3>2. Row'[j] = Row[j] /\ Row'[j + 1] = Row[j + 1] /\ (j # 1 => Row'[j - 1] = Row[j - 1])
      BY <3>1
    <3>3. Row[j] \in Bin \ {b, new} /\ Row[j] # nextbin[b]
      BY <1>0, <1>3, <3>1
    <3>4. QED
      BY <1>2, <1>4, <3>1, <3>2, <3>3
  <2>2. CASE j = slot
    <3>1. /\ j \in 1 .. Len(Row) /\ j + 1 \in 1 .. Len(Row) + 1 /\ j + 1 = slot + 1 /\ j <= slot /\ ~(j + 1 <= slot)
          /\ j # slot + 1 /\ j # Len(Row) + 1
          /\ (j # 1 => j - 1 \in 1 .. Len(Row) + 1 /\ j - 1 <= slot)
      BY <1>0, <2>2
    <3>2. Row'[j] = b /\ Row'[j + 1] = new /\ (j # 1 => Row'[j - 1] = Row[j - 1])
      BY <2>2, <3>1
    <3>3. b \in Bin \ {new} /\ b # nextbin[b]
      BY <1>0, <1>3, <1>1, <2>2, <3>1
    <3>4. QED
      BY <1>2, <1>4, <2>2, <3>1, <3>2, <3>3
  <2>3. CASE j = slot + 1
    <3>1. /\ j # 1 /\ j - 1 = slot /\ slot \in 1 .. Len(Row) + 1 /\ slot <= slot /\ ~(j <= slot)
          /\ (j = Len(Row) + 1 <=> slot = Len(Row))
          /\ j # Len(Row) + 1 => j + 1 \in 1 .. Len(Row) + 1 /\ ~(j + 1 <= slot) /\ j + 1 # slot + 1 /\ (j + 1) - 1 = slot + 1
      BY <1>0, <2>3
    <3>2. Row'[j] = new /\ Row'[j - 1] = b
      BY <2>3, <3>1
    <3>3. j # Len(Row) + 1 => Row'[j + 1] = Row[slot + 1]
      BY <3>1
    <3>4. QED
      BY <1>3, <1>4, <3>1, <3>2, <3>3
  <2>4. CASE j > slot + 1
    <3>0. PICK m : m = j - 1
      OBVIOUS
    <3>1. /\ m \in 1 .. Len(Row) /\ m # slot /\ m # 1 /\ m + 1 = j /\ (j = Len(Row) + 1 <=> m = Len(Row))
          /\ j # 1 /\ ~(j <= slot) /\ j # slot + 1
      BY <1>n, <2>4, <3>0
    <3>2. j # Len(Row) + 1 => j + 1 \in 1 .. Len(Row) + 1 /\ ~(j + 1 <= slot) /\ j + 1 # slot + 1 /\ (j + 1) - 1 = j
      <4>1. j \in Int /\ slot \in Int
        BY <1>n
      <4>a. 1 <= j /\ j <= Len(Row) + 1
        BY <1>n
      <4>2. j # Len(Row) + 1 => j + 1 \in 1 .. Len(Row) + 1
        <5>1. j + 1 \in Int /\ 1 <= j + 1
          BY <4>1, <4>a
        <5>2. j # Len(Row) + 1 => j + 1 <= Len(Row) + 1
          BY <1>n, <4>1, <4>a
        <5>3. QED
          BY <1>n, <5>1, <5>2
      <4>3. ~(j + 1 <= slot) /\ j + 1 # slot + 1 /\ (j + 1) - 1 = j
        BY <2>4, <4>1
      <4>4. QED
        BY <4>2, <4>3
    <3>3. m \in 1 .. Len(Row) + 1 /\ ~(m <= slot)
      BY <1>n, <2>4, <3>0
    <3>4. /\ Row'[j] = Row[m] /\ (j # Len(Row) + 1 => Row'[j + 1] = Row[j])
          /\ Row'[m] = IF m = slot + 1 THEN new ELSE Row[m - 1]
      BY <3>0, <3>1, <3>2, <3>3
    <3>5. Row[m] \in Bin \ {b, new} /\ (Row[m] = nextbin[b] <=> m = slot + 1)
      BY <1>0, <1>3, <3>1
    <3>6. nextbin[Row[m]] = (IF m = Len(Row) THEN NoBin ELSE Row[m + 1]) /\ prevbin[Row[m]] = Row[m - 1]
      BY <1>2, <3>1
    <3>8. nextbin'[Row[m]] = nextbin[Row[m]] /\ prevbin'[Row[m]] = IF m = slot + 1 THEN new ELSE prevbin[Row[m]]
      BY <1>4, <3>5
    <3>7. QED
      BY <3>0, <3>1, <3>4, <3>6, <3>8
  <2>5. QED
    BY <1>0, <2>1, <2>2, <2>3, <2>4
<1>6. \A c \in Bin \ live' : prevbin'[c] = NoBin /\ nextbin'[c] = NoBin
  <2> TAKE c \in Bin \ live'
  <2>1. c \in Bin \ live /\ c # new /\ c # b
    BY <1>0
  <2>2. c # nextbin[b]
    <3>1. nextbin[b] = NoBin \/ nextbin[b] \in live
      BY <1>0, <1>3
    <3>2. QED
      BY <1>0, <2>1, <3>1
  <2>3. QED
    BY <1>2, <1>4, <2>1, <2>2
<1>7. headbin' = Row'[1] /\ tailbin' = Row'[Len(Row')]
  <2>1. 1 \in 1 .. Len(Row) + 1 /\ 1 <= slot /\ Len(Row) + 1 \in 1 .. Len(Row) + 1 /\ ~(Len(Row) + 1 <= slot)
        /\ (Len(Row) + 1 = slot + 1 <=> slot = Len(Row)) /\ (Len(Row) + 1) - 1 = Len(Row)
    BY <1>0
  <2>2. Row'[1] = Row[1] /\ Row'[Len(Row) + 1] = IF slot = Len(Row) THEN new ELSE Row[Len(Row)]
    BY <2>1
  <2>3. QED
    BY <1>2, <1>4, <2>2
<1>8. ChainInv'
  BY <1>5, <1>6, <1>7 DEF ChainInv
<1>9. headbin \in Bin
  <2>1. 1 \in 1 .. Len(Row)
    BY <1>0
  <2>2. QED
    BY <1>0, <1>2, <2>1
<1>10. QED
  BY <1>0, <1>1, <1>4, <1>8, <1>9

\* The row, the separators and the entries after a split at a place of the row.
LEMMA SplitStep ==
    ASSUME IInv, Intact, NEW key \in Key, NEW val \in Val,
           NEW slot \in 1 .. Len(Row), slot \in Lower(rootkey, key),
           NEW b \in live, b = Row[slot], RoutedTo(key, slot, b), IsFull(b),
           NEW cslot \in Lower(slotkey[b], key), ~At(b, cslot, key),
           NEW new \in Bin \ live, Split(b, new, cslot, key, val),
           rootkey' \in Seq(Key), Len(rootkey') = Len(rootkey) + 1,
           \A i \in 1 .. Len(rootkey) + 1 : rootkey'[i] =
                IF i < slot THEN rootkey[i] ELSE IF i = slot THEN SplitKey(b) ELSE rootkey[i - 1],
           children' \in Seq(Bin), Len(children') = Len(Row) + 1,
           \A j \in 1 .. Len(Row) + 1 : children'[j] =
                IF j <= slot THEN Row[j] ELSE IF j = slot + 1 THEN new ELSE Row[j - 1],
           Len(rootkey) + 1 = Len(Row), Len(rootkey) < RootSlotMax,
           UNCHANGED is_retraining, ret'.res = "ok"
    PROVE  IInv' /\ Adds(key, val)
<1> DEFINE s == slotkey[b]
           d == slotdata[b]
           L == LeftHalf(s, cslot, key)
           R == RightHalf(s, cslot, key)
           DL == LeftHalf(d, cslot, val)
           DR == RightHalf(d, cslot, val)
           Old(j) == IF j <= slot THEN j ELSE j - 1
<1>1. TypeOK /\ RowInv /\ ChainInv
  BY DEF IInv
<1>2. /\ Len(Row) \in Nat /\ Len(rootkey) \in Nat /\ \A i \in 1 .. Len(Row) : Row[i] \in Bin /\ Row[i] \in live
      /\ b \in Bin /\ new \in Bin /\ b # new /\ live \subseteq Bin
  <2>1. Len(Row) \in Nat /\ Len(rootkey) \in Nat /\ \A i \in 1 .. Len(Row) : Row[i] \in Bin
    BY <1>1, RowIs
  <2>2. \A i \in 1 .. Len(Row) : Row[i] \in live
    BY <1>1 DEF RowInv
  <2>3. QED
    BY <1>1, <2>1, <2>2 DEF TypeOK
<1>n. Len(Row) \in Nat
  BY <1>2
<1>3. /\ s \in Seq(Key) /\ d \in Seq(Val) /\ Len(d) = Len(s) /\ Ascending(s)
      /\ Len(s) = ChildSlotMax /\ s # <<>>
  BY <1>1, <1>2, ArraysAre, FullIs DEF RowInv
<1>4. /\ L \in Seq(Key) /\ R \in Seq(Key) /\ Ascending(L) /\ Ascending(R)
      /\ Len(L) <= ChildSlotMax /\ Len(R) <= ChildSlotMax /\ L # <<>> /\ R # <<>>
      /\ DL \in Seq(Val) /\ DR \in Seq(Val) /\ Len(DL) = Len(L) /\ Len(DR) = Len(R)
      /\ ToSet(L) \cup ToSet(R) = ToSet(s) \cup {key} /\ Before(ToSet(L), ToSet(R))
      /\ Pairs(L, DL) \cup Pairs(R, DR) = Pairs(s, d) \cup {<<key, val>>}
      /\ Last(L) = s[Mid]
      /\ Last(R) = IF cslot > Len(s) THEN key ELSE Last(s)
  <2>1. /\ s \in Seq(Key) /\ Ascending(s) /\ Len(s) = ChildSlotMax
        /\ cslot \in Lower(s, key) /\ ~(cslot <= Len(s) /\ s[cslot] = key)
        /\ d \in Seq(Val) /\ Len(d) = Len(s)
    BY <1>3 DEF At, Used
  <2> HIDE DEF s, d
  <2>2. QED
    BY <2>1, HalvesAre
<1>5. /\ slotkey' = [slotkey EXCEPT ![b] = L, ![new] = R]
      /\ slotdata' = [slotdata EXCEPT ![b] = DL, ![new] = DR]
      /\ live' = live \cup {new} /\ Link(b, new)
  BY DEF Split, Halve
<1> HIDE DEF L, R, DL, DR
<1>6. /\ slotkey'[b] = L /\ slotdata'[b] = DL /\ slotkey'[new] = R /\ slotdata'[new] = DR
      /\ \A x \in Bin \ {b, new} : slotkey'[x] = slotkey[x] /\ slotdata'[x] = slotdata[x]
  <2>1. slotkey \in [Bin -> Seq(Key)] /\ slotdata \in [Bin -> Seq(Val)]
    BY <1>1 DEF TypeOK
  <2>2. QED
    BY <1>2, <1>5, <2>1
<1>7. /\ HasRoot' /\ Row' = children' /\ Len(Row') = Len(Row) + 1 /\ Row' # <<>>
      /\ \A j \in 1 .. Len(Row) + 1 :
            Row'[j] = IF j <= slot THEN Row[j] ELSE IF j = slot + 1 THEN new ELSE Row[j - 1]
  <2>1. Len(children') # 0
    BY <1>n
  <2>2. HasRoot' /\ children' # <<>>
    BY <2>1, EmptySeq DEF HasRoot
  <2>3. Row' = children'
    BY <2>2 DEF Row
  <2>4. QED
    BY <2>2, <2>3
<1>8. /\ ChainInv'
      /\ prevbin' \in [Bin -> Bin \cup {NoBin}] /\ nextbin' \in [Bin -> Bin \cup {NoBin}]
      /\ headbin' = headbin /\ headbin \in Bin /\ tailbin' \in Bin \cup {NoBin}
  BY <1>1, <1>5, <1>7, LinkKeepsChain
<1>9. TypeOK'
  <2>1. slotkey' \in [Bin -> Seq(Key)] /\ slotdata' \in [Bin -> Seq(Val)]
    BY <1>1, <1>2, <1>4, <1>5 DEF TypeOK
  <2>2. \A x \in Bin : Used(x)' = Len(slotdata[x])' /\ Used(x)' <= ChildSlotMax
    <3> TAKE x \in Bin
    <3>1. CASE x = b
      BY <1>4, <1>6, <3>1 DEF Used
    <3>2. CASE x = new
      BY <1>4, <1>6, <3>2 DEF Used
    <3>3. CASE x \notin {b, new}
      BY <1>1, <1>6, <3>3 DEF TypeOK, Used
    <3>4. QED
      BY <3>1, <3>2, <3>3
  <2>3. Len(rootkey') <= RootSlotMax /\ Len(children') = Len(rootkey') + 1
    BY <1>2, SlotAssumption
  <2>4. QED
    BY <1>1, <1>2, <1>5, <1>7, <1>8, <2>1, <2>2, <2>3 DEF TypeOK
\* what stands at each place of the new row
<1>10. ASSUME NEW j \in 1 .. Len(Row) + 1
       PROVE  /\ Old(j) \in 1 .. Len(Row) /\ Old(j) \in Nat /\ (Old(j) = slot <=> j \in {slot, slot + 1})
              /\ Row'[j] = IF j = slot + 1 THEN new ELSE Row[Old(j)]
  <2>1. Old(j) \in 1 .. Len(Row) /\ Old(j) \in Nat /\ (Old(j) = slot <=> j \in {slot, slot + 1})
        /\ (j = slot + 1 => ~(j <= slot))
    BY <1>n
  <2>2. QED
    BY <1>7, <2>1
<1>11. ASSUME NEW i \in 1 .. Len(Row) + 1, NEW j \in 1 .. Len(Row) + 1, i < j
       PROVE  Old(i) < Old(j) \/ (i = slot /\ j = slot + 1)
  BY <1>n, <1>11
<1> HIDE DEF Old
<1>12. ASSUME NEW j \in 1 .. Len(Row) + 1
       PROVE  /\ slotkey'[Row'[j]] = IF j = slot THEN L ELSE IF j = slot + 1 THEN R ELSE slotkey[Row[Old(j)]]
              /\ Ascending(slotkey'[Row'[j]])
              /\ ToSet(slotkey'[Row'[j]]) \subseteq Keys(Row[Old(j)]) \cup (IF Old(j) = slot THEN {key} ELSE {})
  <2>1. Old(j) \in 1 .. Len(Row) /\ (Old(j) = slot <=> j \in {slot, slot + 1})
        /\ Row'[j] = IF j = slot + 1 THEN new ELSE Row[Old(j)]
    BY <1>10
  <2>2. Row[Old(j)] = b <=> Old(j) = slot
    BY <1>1, <2>1 DEF RowInv
  <2>3. slotkey'[Row'[j]] = IF j = slot THEN L ELSE IF j = slot + 1 THEN R ELSE slotkey[Row[Old(j)]]
    <3>1. CASE j = slot + 1
      <4>1. j # slot
        BY <1>n, <3>1
      <4>2. QED
        BY <1>6, <2>1, <3>1, <4>1
    <3>2. CASE j = slot
      <4>1. j # slot + 1 /\ Old(j) = slot
        BY <1>n, <2>1, <3>2
      <4>2. QED
        BY <1>6, <2>1, <3>2, <4>1
    <3>3. CASE j \notin {slot, slot + 1}
      <4>1. Row[Old(j)] \in Bin \ {b, new}
        BY <1>2, <2>1, <2>2, <3>3
      <4>2. QED
        BY <1>6, <2>1, <3>3, <4>1
    <3>4. QED
      BY <3>1, <3>2, <3>3
  <2>4. Ascending(slotkey[Row[Old(j)]])
    BY <1>1, <2>1 DEF RowInv
  <2>5. ToSet(L) \subseteq ToSet(s) \cup {key} /\ ToSet(R) \subseteq ToSet(s) \cup {key}
    BY <1>4
  <2>6. Keys(Row[Old(j)]) = ToSet(slotkey[Row[Old(j)]])
    BY DEF Keys
  <2>7. Ascending(slotkey'[Row'[j]])
    BY <1>4, <2>3, <2>4
  <2>8. ToSet(slotkey'[Row'[j]]) \subseteq ToSet(slotkey[Row[Old(j)]]) \cup (IF Old(j) = slot THEN {key} ELSE {})
    <3>1. CASE j \in {slot, slot + 1}
      BY <2>1, <2>2, <2>3, <2>5, <3>1
    <3>2. CASE j \notin {slot, slot + 1}
      BY <2>3, <3>2
    <3>3. QED
      BY <3>1, <3>2
  <2>9. QED
    BY <2>3, <2>6, <2>7, <2>8
<1>b. /\ \A i \in 1 .. Len(Row) :
            /\ i < slot => Before(Keys(Row[i]), {key})
            /\ i > slot => Before({key}, Keys(Row[i]))
      /\ slot <= Len(rootkey) => key <= Last(slotkey[Row[slot]])
  BY <1>1, Between
<1>13. RowInv'
  <2>1. \A i, j \in 1 .. Len(Row) + 1 : Row'[i] = Row'[j] => i = j
    <3> SUFFICES ASSUME NEW i \in 1 .. Len(Row) + 1, NEW j \in 1 .. Len(Row) + 1, i < j
                 PROVE  Row'[i] # Row'[j]
      BY <1>n
    <3>1. /\ Old(i) \in 1 .. Len(Row) /\ Row'[i] = IF i = slot + 1 THEN new ELSE Row[Old(i)]
          /\ Old(j) \in 1 .. Len(Row) /\ Row'[j] = IF j = slot + 1 THEN new ELSE Row[Old(j)]
      BY <1>10
    <3>2. i # slot + 1 \/ j # slot + 1
      BY <1>n
    <3>3. Old(i) # Old(j) \/ j = slot + 1
      BY <1>11, <3>1
    <3>4. Row[Old(i)] # new /\ Row[Old(j)] # new
      BY <1>2, <3>1
    <3>5. Old(i) # Old(j) => Row[Old(i)] # Row[Old(j)]
      BY <1>1, <3>1 DEF RowInv
    <3>6. QED
      BY <3>1, <3>2, <3>3, <3>4, <3>5
  <2>2. live' = {Row'[j] : j \in 1 .. Len(Row) + 1}
    <3>1. ASSUME NEW x \in live' PROVE \E j \in 1 .. Len(Row) + 1 : x = Row'[j]
      <4>1. CASE x = new
        <5>1. slot + 1 \in 1 .. Len(Row) + 1
          BY <1>n
        <5>2. QED
          BY <1>10, <4>1, <5>1
      <4>2. CASE x \in live
        <5>1. PICK i \in 1 .. Len(Row) : x = Row[i]
          BY <1>1, <4>2 DEF RowInv
        <5>2. CASE i <= slot
          <6>1. i \in 1 .. Len(Row) + 1
            BY <1>n
          <6>2. Row'[i] = x
            BY <1>7, <5>1, <5>2, <6>1
          <6>3. QED
            BY <6>1, <6>2
        <5>3. CASE i > slot
          <6>1. i + 1 \in 1 .. Len(Row) + 1 /\ ~(i + 1 <= slot) /\ i + 1 # slot + 1 /\ (i + 1) - 1 = i
            BY <1>n, <5>3
          <6>2. Row'[i + 1] = x
            BY <1>7, <5>1, <6>1
          <6>3. QED
            BY <6>1, <6>2
        <5>4. QED
          BY <1>n, <5>2, <5>3
      <4>3. QED
        BY <1>5, <4>1, <4>2
    <3>2. ASSUME NEW j \in 1 .. Len(Row) + 1 PROVE Row'[j] \in live'
      BY <1>2, <1>5, <1>10
    <3>3. QED
      BY <3>1, <3>2
  <2>3. \A i, j \in 1 .. Len(Row) + 1 : i < j => Before(ToSet(slotkey'[Row'[i]]), ToSet(slotkey'[Row'[j]]))
    <3> SUFFICES ASSUME NEW i \in 1 .. Len(Row) + 1, NEW j \in 1 .. Len(Row) + 1, i < j
                 PROVE  Before(ToSet(slotkey'[Row'[i]]), ToSet(slotkey'[Row'[j]]))
      OBVIOUS
    <3>1. CASE i = slot /\ j = slot + 1
      <4>1. j # slot
        BY <1>n, <3>1
      <4>2. slotkey'[Row'[i]] = L /\ slotkey'[Row'[j]] = R
        BY <1>12, <3>1, <4>1
      <4>3. QED
        BY <1>4, <4>2
    <3>2. CASE Old(i) < Old(j)
      <4>1. Old(i) \in 1 .. Len(Row) /\ Old(j) \in 1 .. Len(Row) /\ Old(i) \in Nat /\ Old(j) \in Nat
        BY <1>10
      <4>2. Before(Keys(Row[Old(i)]), Keys(Row[Old(j)]))
        BY <1>1, <3>2, <4>1 DEF RowInv
      <4>3. /\ Old(i) = slot => Old(j) # slot /\ Before({key}, Keys(Row[Old(j)]))
            /\ Old(j) = slot => Old(i) # slot /\ Before(Keys(Row[Old(i)]), {key})
        <5>1. Old(i) = slot => Old(j) > slot /\ Old(j) # slot
          BY <3>2, <4>1
        <5>2. Old(j) = slot => Old(i) < slot /\ Old(i) # slot
          BY <3>2, <4>1
        <5>3. Old(j) > slot => Before({key}, Keys(Row[Old(j)]))
          BY <1>b, <4>1, Zenon
        <5>4. Old(i) < slot => Before(Keys(Row[Old(i)]), {key})
          BY <1>b, <4>1, Zenon
        <5>5. QED
          BY <5>1, <5>2, <5>3, <5>4
      <4>4. /\ ToSet(slotkey'[Row'[i]]) \subseteq Keys(Row[Old(i)]) \cup (IF Old(i) = slot THEN {key} ELSE {})
            /\ ToSet(slotkey'[Row'[j]]) \subseteq Keys(Row[Old(j)]) \cup (IF Old(j) = slot THEN {key} ELSE {})
        BY <1>12
      <4>5. QED
        BY <4>2, <4>3, <4>4 DEF Before
    <3>3. QED
      BY <1>11, <3>1, <3>2
  <2>4. ASSUME NEW i \in 1 .. Len(rootkey) + 1
        PROVE  slotkey'[Row'[i]] # <<>> /\ rootkey'[i] = Last(slotkey'[Row'[i]])
    <3>0. i \in 1 .. Len(Row) + 1 /\ i < Len(Row) + 1
      BY <1>2
    <3>1. CASE i < slot
      <4>1. i # slot /\ i # slot + 1 /\ Old(i) = i /\ i \in 1 .. Len(rootkey)
        BY <1>2, <3>1 DEF Old
      <4>2. slotkey'[Row'[i]] = slotkey[Row[i]] /\ rootkey'[i] = rootkey[i]
        BY <1>12, <3>0, <3>1, <4>1
      <4>3. QED
        BY <1>1, <4>1, <4>2 DEF RowInv
    <3>2. CASE i = slot
      <4>1. slotkey'[Row'[i]] = L /\ rootkey'[i] = s[Mid]
        <5>1. ~(i < slot)
          BY <1>n, <3>2
        <5>2. QED
          BY <1>12, <3>0, <3>2, <5>1 DEF SplitKey
      <4>2. QED
        BY <1>4, <4>1
    <3>3. CASE i = slot + 1
      <4>1. ~(i < slot) /\ i # slot /\ i - 1 = slot /\ slot \in 1 .. Len(rootkey) /\ slot <= Len(rootkey)
        <5>1. slot \in Nat /\ slot >= 1 /\ Len(rootkey) \in Nat /\ i <= Len(rootkey) + 1
          BY <1>2
        <5>2. i - 1 = slot /\ ~(i < slot) /\ i # slot /\ slot <= Len(rootkey)
          BY <3>3, <5>1
        <5>3. QED
          BY <5>1, <5>2
      <4>2. slotkey'[Row'[i]] = R /\ rootkey'[i] = rootkey[slot]
        BY <1>12, <3>0, <3>3, <4>1
      <4>3. rootkey[slot] = Last(s) /\ key <= Last(s)
        BY <1>1, <1>b, <4>1 DEF RowInv
      <4>4. ~(cslot > Len(s))
        <5> SUFFICES ASSUME cslot > Len(s) PROVE FALSE
          OBVIOUS
        <5>1. Len(s) \in Nat \ {0} /\ Last(s) = s[Len(s)]
          BY <1>3, Ends
        <5>2. Last(s) < key
          <6>1. cslot \in 1 .. Len(s) + 1 /\ \A x \in 1 .. Len(s) : (x < cslot => s[x] < key) /\ (x >= cslot => key < s[x])
            BY <1>3, LowerSplits DEF At, Used
          <6>2. Len(s) \in 1 .. Len(s) /\ Len(s) < cslot
            BY <5>1
          <6>3. s[Len(s)] < key
            BY <6>1, <6>2
          <6>4. QED
            BY <5>1, <6>3
        <5>3. Last(s) \in Int /\ key \in Int
          BY <1>3, <5>1, KeyAssumption, KeysAreNumbers DEF KeyAssumption
        <5>4. QED
          BY <4>3, <5>2, <5>3
      <4>5. QED
        BY <1>4, <4>2, <4>3, <4>4
    <3>4. CASE i > slot + 1
      <4>0. PICK m : m = i - 1
        OBVIOUS
      <4>1. i # slot /\ i # slot + 1 /\ ~(i < slot) /\ ~(i <= slot) /\ m \in 1 .. Len(rootkey)
        BY <1>2, <3>4, <4>0
      <4>2. slotkey'[Row'[i]] = slotkey[Row[m]] /\ rootkey'[i] = rootkey[m]
        BY <1>12, <3>0, <4>0, <4>1 DEF Old
      <4>3. QED
        BY <1>1, <4>1, <4>2 DEF RowInv
    <3>5. QED
      BY <1>2, <3>1, <3>2, <3>3, <3>4
  <2>5. \A j \in 1 .. Len(Row) + 1 : Ascending(slotkey'[Row'[j]])
    BY <1>12
  <2>6. Len(Row') = Len(Row) + 1 /\ Len(rootkey') = Len(rootkey) + 1
    BY <1>7
  <2>7. QED
    BY <2>1, <2>2, <2>3, <2>4, <2>5, <2>6 DEF RowInv, Keys
<1>14. IInv'
  <2>1. rootkey' # <<>>
    <3>1. Len(rootkey') # 0
      BY <1>2
    <3>2. QED
      BY <3>1, EmptySeq
  <2>2. QED
    BY <1>8, <1>9, <1>13, <2>1, ApartNext DEF IInv
<1>15. ~Held(key)
  BY <1>1, HeldWhereRouted
<1>16. ASSUME NEW x PROVE x \in Stock' <=> x \in Stock \cup {<<key, val>>}
  <2>1. \A y \in live \ {b} : Entries(y)' = Entries(y)
    BY <1>2, <1>6 DEF Entries
  <2>2. x \in Stock' <=> \/ x \in Entries(b)' \/ x \in Entries(new)'
                         \/ \E y \in live \ {b} : x \in Entries(y)
    BY <1>5, <2>1 DEF Stock
  <2>3. Entries(b)' \cup Entries(new)' = Entries(b) \cup {<<key, val>>}
    BY <1>4, <1>6 DEF Entries
  <2>4. x \in Stock <=> x \in Entries(b) \/ \E y \in live \ {b} : x \in Entries(y)
    BY DEF Stock
  <2>5. QED
    BY <2>2, <2>3, <2>4
<1>17. QED
  BY <1>14, <1>15, <1>16 DEF Adds

\* The separator of a split is one of the keys.
LEMMA SplitKeyIs ==
    ASSUME TypeOK, NEW b \in Bin, IsFull(b)
    PROVE  SplitKey(b) \in Key
<1>1. slotkey[b] \in Seq(Key) /\ Len(slotkey[b]) = ChildSlotMax
  BY ArraysAre, FullIs
<1>2. ChildSlotMax \in Nat /\ ChildSlotMax >= 2
  BY SlotAssumption
<1>3. ChildSlotMax \div 2 \in 1 .. ChildSlotMax
  BY <1>2
<1>4. Mid \in 1 .. Len(slotkey[b])
  BY <1>1, <1>3 DEF Mid
<1>5. QED
  BY <1>1, <1>4, ElementOfSeq DEF SplitKey

\* Splitting the only array makes the root.
LEMMA SplitSingleStep ==
    ASSUME IInv, NEW key \in Key, NEW val \in Val, SplitSingle(key, val)
    PROVE  IInv' /\ Adds(key, val)
<1>1. PICK cslot \in Lower(slotkey[headbin], key), new \in Bin \ live :
        /\ ~At(headbin, cslot, key)
        /\ Split(headbin, new, cslot, key, val)
        /\ rootkey' = <<SplitKey(headbin)>>
        /\ children' = <<headbin, new>>
  BY DEF SplitSingle
<1>2. /\ TypeOK /\ RowInv /\ Intact /\ ~HasRoot /\ headbin # NoBin /\ IsFull(headbin)
      /\ UNCHANGED is_retraining /\ ret'.res = "ok"
  BY DEF SplitSingle, Defined, IInv, Inserted, Answer
<1>b1. PICK b : b = headbin
  OBVIOUS
<1>k1. PICK k : k = SplitKey(headbin)
  OBVIOUS
<1>3. /\ Len(Row) = 1 /\ Row[1] = b /\ Len(rootkey) = 0 /\ 1 \in 1 .. Len(Row)
      /\ Len(rootkey) + 1 = Len(Row) /\ Len(rootkey) < RootSlotMax
  <2>1. RootSlotMax \in Nat /\ RootSlotMax > 0
    BY SlotAssumption
  <2>2. Row = <<b>> /\ rootkey = <<>>
    BY <1>2, <1>b1 DEF Row, TypeOK, HasRoot
  <2>3. Len(Row) = 1 /\ Row[1] = b /\ Len(rootkey) = 0
    BY <2>2
  <2>4. 1 \in 1 .. 1 /\ 0 + 1 = 1 /\ 0 < RootSlotMax
    BY <2>1
  <2>5. QED
    BY <2>3, <2>4
<1>4. b \in live /\ b \in Bin
  BY <1>2, <1>3 DEF RowInv, TypeOK
<1>5. RoutedTo(key, 1, b)
  BY <1>2, <1>b1 DEF RoutedTo
<1>6. 1 \in Lower(rootkey, key)
  BY <1>2, <1>5, RouteIs
<1>7. k \in Key /\ new \in Bin
  BY <1>2, <1>4, <1>b1, <1>k1, SplitKeyIs
<1>8. /\ rootkey' = <<k>> /\ rootkey' \in Seq(Key) /\ Len(rootkey') = 1 /\ rootkey'[1] = k
      /\ children' = <<b, new>> /\ children' \in Seq(Bin) /\ Len(children') = 2
      /\ children'[1] = b /\ children'[2] = new
  <2>1. rootkey' = <<k>> /\ children' = <<b, new>>
    BY <1>1, <1>b1, <1>k1
  <2>2. <<k>> \in Seq(Key) /\ Len(<<k>>) = 1 /\ <<k>>[1] = k
    BY <1>7
  <2>3. <<b, new>> \in Seq(Bin) /\ Len(<<b, new>>) = 2 /\ <<b, new>>[1] = b /\ <<b, new>>[2] = new
    BY <1>4, <1>7
  <2>4. QED
    BY <2>1, <2>2, <2>3
<1>s. PICK slot : slot = 1
  OBVIOUS
<1>9. \A i \in 1 .. Len(rootkey) + 1 : rootkey'[i] =
                IF i < slot THEN rootkey[i] ELSE IF i = slot THEN SplitKey(b) ELSE rootkey[i - 1]
  <2> TAKE i \in 1 .. Len(rootkey) + 1
  <2>1. i = 1 /\ i = slot /\ ~(i < slot)
    BY <1>3, <1>s
  <2>2. QED
    BY <1>8, <1>b1, <1>k1, <2>1
<1>10. \A j \in 1 .. Len(Row) + 1 : children'[j] =
                IF j <= slot THEN Row[j] ELSE IF j = slot + 1 THEN new ELSE Row[j - 1]
  <2> TAKE j \in 1 .. Len(Row) + 1
  <2>1. (j = 1 /\ j <= slot) \/ (j = 2 /\ ~(j <= slot) /\ j = slot + 1)
    BY <1>3, <1>s
  <2>2. QED
    BY <1>3, <1>8, <2>1
<1>11. /\ slot \in 1 .. Len(Row) /\ slot \in Lower(rootkey, key) /\ b = Row[slot] /\ RoutedTo(key, slot, b)
       /\ IsFull(b) /\ cslot \in Lower(slotkey[b], key) /\ ~At(b, cslot, key) /\ Split(b, new, cslot, key, val)
       /\ Len(rootkey') = Len(rootkey) + 1 /\ Len(children') = Len(Row) + 1
  BY <1>1, <1>2, <1>3, <1>5, <1>6, <1>8, <1>b1, <1>s
<1>12. QED
  BY <1>2, <1>3, <1>4, <1>8, <1>9, <1>10, <1>11, SplitStep

\* Splitting an array under the root adds a child and a separator.
LEMMA SplitChildStep ==
    ASSUME IInv, NEW key \in Key, NEW val \in Val, SplitChild(key, val)
    PROVE  IInv' /\ Adds(key, val)
<1>0. PICK slot \in Lower(rootkey, key) :
        /\ IsFull(children[slot])
        /\ \E cslot \in Lower(slotkey[children[slot]], key), new \in Bin \ live :
            /\ ~At(children[slot], cslot, key)
            /\ Split(children[slot], new, cslot, key, val)
            /\ rootkey' = InsertAt(rootkey, slot, SplitKey(children[slot]))
            /\ children' = InsertAt(children, slot + 1, new)
  BY DEF SplitChild
<1>1. PICK cslot \in Lower(slotkey[children[slot]], key), new \in Bin \ live :
        /\ IsFull(children[slot])
        /\ ~At(children[slot], cslot, key)
        /\ Split(children[slot], new, cslot, key, val)
        /\ rootkey' = InsertAt(rootkey, slot, SplitKey(children[slot]))
        /\ children' = InsertAt(children, slot + 1, new)
  BY <1>0
<1>2. /\ TypeOK /\ RowInv /\ Intact /\ HasRoot /\ ~RootFull
      /\ UNCHANGED is_retraining /\ ret'.res = "ok"
  BY DEF SplitChild, Defined, IInv, Inserted, Answer
<1>b1. PICK b : b = children[slot]
  OBVIOUS
<1>k1. PICK k : k = SplitKey(b)
  OBVIOUS
<1>3. /\ Row = children /\ Len(Row) \in Nat /\ Len(rootkey) \in Nat /\ Len(rootkey) + 1 = Len(Row)
      /\ Row \in Seq(Bin) /\ rootkey \in Seq(Key)
      /\ slot \in 1 .. Len(rootkey) + 1 /\ slot \in 1 .. Len(Row)
  <2>1. /\ Row = children /\ Len(Row) \in Nat /\ Len(rootkey) \in Nat /\ Len(rootkey) + 1 = Len(Row)
        /\ Row \in Seq(Bin) /\ rootkey \in Seq(Key)
    BY <1>2, RowIs DEF TypeOK
  <2>2. QED
    BY <2>1 DEF Lower
<1>4. Len(rootkey) < RootSlotMax
  BY <1>2, <1>3, SlotAssumption DEF TypeOK, RootFull
<1>5. b = Row[slot] /\ b \in live /\ b \in Bin /\ RoutedTo(key, slot, b)
  <2>1. b = Row[slot] /\ b \in live
    BY <1>2, <1>3, <1>b1 DEF RowInv
  <2>2. QED
    BY <1>2, <1>3, <2>1 DEF RoutedTo, TypeOK
<1>6. k \in Key
  BY <1>1, <1>2, <1>5, <1>b1, <1>k1, SplitKeyIs
<1>7. /\ rootkey' \in Seq(Key) /\ Len(rootkey') = Len(rootkey) + 1
      /\ \A i \in 1 .. Len(rootkey) + 1 :
            rootkey'[i] = IF i < slot THEN rootkey[i] ELSE IF i = slot THEN k ELSE rootkey[i - 1]
  <2>1. rootkey' = InsertAt(rootkey, slot, k)
    BY <1>1, <1>b1, <1>k1
  <2>2. /\ InsertAt(rootkey, slot, k) \in Seq(Key)
        /\ Len(InsertAt(rootkey, slot, k)) = Len(rootkey) + 1
        /\ \A i \in 1 .. Len(rootkey) + 1 : InsertAt(rootkey, slot, k)[i] =
                IF i < slot THEN rootkey[i] ELSE IF i = slot THEN k ELSE rootkey[i - 1]
    <3>1. PICK s : s = rootkey
      OBVIOUS
    <3>2. k \in Key /\ s \in Seq(Key) /\ slot \in 1 .. Len(s) + 1
      BY <1>3, <1>6, <3>1
    <3>3. /\ InsertAt(s, slot, k) \in Seq(Key)
          /\ Len(InsertAt(s, slot, k)) = Len(s) + 1
          /\ \A i \in 1 .. Len(s) + 1 : InsertAt(s, slot, k)[i] =
                IF i < slot THEN s[i] ELSE IF i = slot THEN k ELSE s[i - 1]
      BY <3>2, InsertAtIs, SMTT(60)
    <3>4. QED
      BY <3>1, <3>3
  <2>3. QED
    BY <2>1, <2>2
<1>8. /\ children' \in Seq(Bin) /\ Len(children') = Len(Row) + 1
      /\ \A j \in 1 .. Len(Row) + 1 : children'[j] =
                IF j <= slot THEN Row[j] ELSE IF j = slot + 1 THEN new ELSE Row[j - 1]
  <2>0. PICK m : m = slot + 1
    OBVIOUS
  <2>1. children' = InsertAt(Row, m, new) /\ m \in 1 .. Len(Row) + 1
    BY <1>1, <1>3, <2>0
  <2>2. /\ children' \in Seq(Bin) /\ Len(children') = Len(Row) + 1
        /\ \A j \in 1 .. Len(Row) + 1 :
                children'[j] = IF j < m THEN Row[j] ELSE IF j = m THEN new ELSE Row[j - 1]
    <3>1. /\ InsertAt(Row, m, new) \in Seq(Bin)
          /\ Len(InsertAt(Row, m, new)) = Len(Row) + 1
          /\ \A j \in 1 .. Len(Row) + 1 : InsertAt(Row, m, new)[j] =
                IF j < m THEN Row[j] ELSE IF j = m THEN new ELSE Row[j - 1]
      <4>1. PICK s : s = Row
        OBVIOUS
      <4>2. new \in Bin /\ s \in Seq(Bin) /\ m \in 1 .. Len(s) + 1
        BY <1>3, <2>1, <4>1
      <4>3. /\ InsertAt(s, m, new) \in Seq(Bin)
            /\ Len(InsertAt(s, m, new)) = Len(s) + 1
            /\ \A j \in 1 .. Len(s) + 1 : InsertAt(s, m, new)[j] =
                IF j < m THEN s[j] ELSE IF j = m THEN new ELSE s[j - 1]
        BY <4>2, InsertAtIs, SMTT(60)
      <4>4. QED
        BY <4>1, <4>3
    <3>2. QED
      BY <2>1, <3>1
  <2>3. \A j \in 1 .. Len(Row) + 1 : j < m <=> j <= slot
    BY <1>3, <2>0
  <2>4. QED
    BY <2>0, <2>2, <2>3
<1>9. /\ IsFull(b) /\ cslot \in Lower(slotkey[b], key) /\ ~At(b, cslot, key) /\ Split(b, new, cslot, key, val)
  BY <1>1, <1>b1
<1>10. QED
  BY ZenonT(60), <1>1, <1>2, <1>3, <1>4, <1>5, <1>7, <1>8, <1>9, <1>k1, SplitStep

-----------------------------------------------------------------------------
(* Taking an array out. *)

\* What the chain's pointers are when the array at a place of the row is
\* taken out.
LEMMA UnchainIs ==
    ASSUME TypeOK, RowInv, ChainInv, NEW slot \in 1 .. Len(Row), NEW b, b = Row[slot], Unchain(b)
    PROVE  /\ nextbin' \in [Bin -> Bin \cup {NoBin}] /\ prevbin' \in [Bin -> Bin \cup {NoBin}]
           /\ headbin' \in Bin \cup {NoBin} /\ tailbin' \in Bin \cup {NoBin}
           /\ \A m \in 1 .. Len(Row) : m # slot =>
                /\ nextbin'[Row[m]] =
                        IF m + 1 = slot THEN IF slot = Len(Row) THEN NoBin ELSE Row[slot + 1]
                        ELSE IF m = Len(Row) THEN NoBin ELSE Row[m + 1]
                /\ prevbin'[Row[m]] =
                        IF m = slot + 1 THEN IF slot = 1 THEN NoBin ELSE Row[slot - 1]
                        ELSE IF m = 1 THEN NoBin ELSE Row[m - 1]
           /\ \A c \in Bin \ (live \ {b}) : prevbin'[c] = NoBin /\ nextbin'[c] = NoBin
           /\ headbin' = IF slot = 1 THEN IF Len(Row) = 1 THEN NoBin ELSE Row[2] ELSE Row[1]
           /\ tailbin' = IF slot = Len(Row) THEN IF slot = 1 THEN NoBin ELSE Row[slot - 1] ELSE Row[Len(Row)]
<1>0. /\ Len(Row) \in Nat /\ NoBin \notin Bin /\ live \subseteq Bin
      /\ \A i \in 1 .. Len(Row) : Row[i] \in Bin /\ Row[i] \in live /\ Row[i] # NoBin
      /\ \A i, j \in 1 .. Len(Row) : Row[i] = Row[j] => i = j
      /\ live = {Row[i] : i \in 1 .. Len(Row)}
  <2>1. Len(Row) \in Nat /\ \A i \in 1 .. Len(Row) : Row[i] \in Bin
    BY RowIs
  <2>2. NoBin \notin Bin /\ live \subseteq Bin
    BY NullAssumption DEF TypeOK
  <2>3. /\ \A i, j \in 1 .. Len(Row) : Row[i] = Row[j] => i = j
        /\ live = {Row[i] : i \in 1 .. Len(Row)}
    BY DEF RowInv
  <2>4. QED
    BY <2>1, <2>2, <2>3
<1>n. Len(Row) \in Nat
  BY <1>0
<1>1. /\ nextbin \in [Bin -> Bin \cup {NoBin}] /\ prevbin \in [Bin -> Bin \cup {NoBin}]
      /\ headbin \in Bin \cup {NoBin} /\ tailbin \in Bin \cup {NoBin} /\ b \in Bin /\ b # NoBin
  BY <1>0 DEF TypeOK
<1>2. /\ \A i \in 1 .. Len(Row) :
            /\ prevbin[Row[i]] = IF i = 1 THEN NoBin ELSE Row[i - 1]
            /\ nextbin[Row[i]] = IF i = Len(Row) THEN NoBin ELSE Row[i + 1]
      /\ \A c \in Bin \ live : prevbin[c] = NoBin /\ nextbin[c] = NoBin
      /\ headbin = Row[1] /\ tailbin = Row[Len(Row)]
  <2>1. Row # <<>>
    <3>1. Len(Row) # 0
      BY <1>n
    <3>2. QED
      BY <3>1, EmptySeq
  <2>2. QED
    BY <2>1 DEF ChainInv
<1>3. /\ prevbin[b] = IF slot = 1 THEN NoBin ELSE Row[slot - 1]
      /\ nextbin[b] = IF slot = Len(Row) THEN NoBin ELSE Row[slot + 1]
      /\ slot # 1 => slot - 1 \in 1 .. Len(Row)
      /\ slot # Len(Row) => slot + 1 \in 1 .. Len(Row)
  BY <1>n, <1>2
<1>4. /\ prevbin[b] = NoBin <=> slot = 1
      /\ nextbin[b] = NoBin <=> slot = Len(Row)
      /\ prevbin[b] \in live \cup {NoBin} /\ nextbin[b] \in live \cup {NoBin}
  BY <1>0, <1>3
<1>5. \A m \in 1 .. Len(Row) :
        /\ Row[m] = b <=> m = slot
        /\ Row[m] = prevbin[b] <=> m + 1 = slot
        /\ Row[m] = nextbin[b] <=> m = slot + 1
  <2> TAKE m \in 1 .. Len(Row)
  <2>1. Row[m] = b <=> m = slot
    BY <1>0
  <2>2. Row[m] = prevbin[b] <=> m + 1 = slot
    <3>1. CASE slot = 1
      <4>1. m + 1 # slot
        BY <1>n, <3>1
      <4>2. QED
        BY <1>0, <1>3, <3>1, <4>1
    <3>2. CASE slot # 1
      <4>1. m = slot - 1 <=> m + 1 = slot
        BY <1>n
      <4>2. QED
        BY <1>0, <1>3, <3>2, <4>1
    <3>3. QED
      BY <3>1, <3>2
  <2>3. Row[m] = nextbin[b] <=> m = slot + 1
    <3>1. CASE slot = Len(Row)
      <4>1. m # slot + 1
        BY <1>n, <3>1
      <4>2. QED
        BY <1>0, <1>3, <3>1, <4>1
    <3>2. CASE slot # Len(Row)
      BY <1>0, <1>3, <3>2
    <3>3. QED
      BY <3>1, <3>2
  <2>4. QED
    BY <2>1, <2>2, <2>3
<1>6. /\ nextbin' \in [Bin -> Bin \cup {NoBin}] /\ prevbin' \in [Bin -> Bin \cup {NoBin}]
      /\ headbin' \in Bin \cup {NoBin} /\ tailbin' \in Bin \cup {NoBin}
      /\ nextbin'[b] = NoBin /\ prevbin'[b] = NoBin
      /\ \A c \in Bin \ {b} : nextbin'[c] = IF c = prevbin[b] THEN nextbin[b] ELSE nextbin[c]
      /\ \A c \in Bin \ {b} : prevbin'[c] = IF c = nextbin[b] THEN prevbin[b] ELSE prevbin[c]
      /\ headbin' = IF prevbin[b] = NoBin THEN nextbin[b] ELSE headbin
      /\ tailbin' = IF nextbin[b] = NoBin THEN prevbin[b] ELSE tailbin
  BY <1>1 DEF Unchain
<1>7. ASSUME NEW m \in 1 .. Len(Row), m # slot
      PROVE  /\ nextbin'[Row[m]] =
                    IF m + 1 = slot THEN IF slot = Len(Row) THEN NoBin ELSE Row[slot + 1]
                    ELSE IF m = Len(Row) THEN NoBin ELSE Row[m + 1]
             /\ prevbin'[Row[m]] =
                    IF m = slot + 1 THEN IF slot = 1 THEN NoBin ELSE Row[slot - 1]
                    ELSE IF m = 1 THEN NoBin ELSE Row[m - 1]
  <2>1. Row[m] \in Bin \ {b}
    BY <1>0, <1>5, <1>7
  <2>2. /\ nextbin'[Row[m]] = IF m + 1 = slot THEN nextbin[b] ELSE nextbin[Row[m]]
        /\ prevbin'[Row[m]] = IF m = slot + 1 THEN prevbin[b] ELSE prevbin[Row[m]]
    BY <1>5, <1>6, <2>1
  <2>3. QED
    BY <1>2, <1>3, <2>2
<1>8. ASSUME NEW c \in Bin \ (live \ {b}) PROVE prevbin'[c] = NoBin /\ nextbin'[c] = NoBin
  <2>1. CASE c = b
    BY <1>6, <2>1
  <2>2. CASE c # b
    <3>1. c \in Bin \ live /\ c # NoBin
      BY <1>0, <2>2
    <3>2. c # prevbin[b] /\ c # nextbin[b]
      BY <1>4, <3>1
    <3>3. QED
      BY <1>2, <1>6, <2>2, <3>1, <3>2
  <2>3. QED
    BY <2>1, <2>2
<1>9. headbin' = IF slot = 1 THEN IF Len(Row) = 1 THEN NoBin ELSE Row[2] ELSE Row[1]
  <2>1. slot = 1 => slot + 1 = 2
    OBVIOUS
  <2>2. QED
    BY <1>2, <1>3, <1>4, <1>6, <2>1
<1>10. tailbin' = IF slot = Len(Row) THEN IF slot = 1 THEN NoBin ELSE Row[slot - 1] ELSE Row[Len(Row)]
  BY <1>2, <1>3, <1>4, <1>6
<1>11. QED
  BY <1>6, <1>7, <1>8, <1>9, <1>10

\* Taking an array out keeps the chain equal to the row.
LEMMA UnchainKeepsChain ==
    ASSUME TypeOK, RowInv, ChainInv, NEW slot \in 1 .. Len(Row), NEW b, b = Row[slot], Unchain(b),
           live' = live \ {b}, Len(Row') = Len(Row) - 1, Row' = <<>> <=> Len(Row) = 1,
           \A j \in 1 .. Len(Row) - 1 : Row'[j] = IF j < slot THEN Row[j] ELSE Row[j + 1]
    PROVE  ChainInv'
<1>n. Len(Row) \in Nat
  BY RowIs
<1>1. /\ \A m \in 1 .. Len(Row) : m # slot =>
            /\ nextbin'[Row[m]] =
                    IF m + 1 = slot THEN IF slot = Len(Row) THEN NoBin ELSE Row[slot + 1]
                    ELSE IF m = Len(Row) THEN NoBin ELSE Row[m + 1]
            /\ prevbin'[Row[m]] =
                    IF m = slot + 1 THEN IF slot = 1 THEN NoBin ELSE Row[slot - 1]
                    ELSE IF m = 1 THEN NoBin ELSE Row[m - 1]
      /\ \A c \in Bin \ (live \ {b}) : prevbin'[c] = NoBin /\ nextbin'[c] = NoBin
      /\ headbin' = IF slot = 1 THEN IF Len(Row) = 1 THEN NoBin ELSE Row[2] ELSE Row[1]
      /\ tailbin' = IF slot = Len(Row) THEN IF slot = 1 THEN NoBin ELSE Row[slot - 1] ELSE Row[Len(Row)]
  BY UnchainIs
<1>2. ASSUME NEW j \in 1 .. Len(Row) - 1
      PROVE  /\ prevbin'[Row'[j]] = IF j = 1 THEN NoBin ELSE Row'[j - 1]
             /\ nextbin'[Row'[j]] = IF j = Len(Row) - 1 THEN NoBin ELSE Row'[j + 1]
  <2>i. /\ j # 1 => j - 1 \in 1 .. Len(Row) - 1
        /\ j # Len(Row) - 1 => j + 1 \in 1 .. Len(Row) - 1
    BY <1>n
  <2>1. CASE j + 1 < slot
    <3>1. /\ j \in 1 .. Len(Row) /\ j # slot /\ j # slot + 1 /\ j + 1 # slot /\ j # Len(Row)
          /\ j < slot /\ j # Len(Row) - 1 /\ (j # 1 => j - 1 < slot)
      BY <1>n, <2>1
    <3>2. Row'[j] = Row[j] /\ Row'[j + 1] = Row[j + 1] /\ (j # 1 => Row'[j - 1] = Row[j - 1])
      BY <2>1, <2>i, <3>1
    <3>3. QED
      BY <1>1, <3>1, <3>2
  <2>2. CASE j + 1 = slot
    <3>1. /\ j \in 1 .. Len(Row) /\ j # slot /\ j # slot + 1 /\ j < slot /\ (j # 1 => j - 1 < slot)
          /\ (j = Len(Row) - 1 <=> slot = Len(Row)) /\ ~(slot < slot)
      BY <1>n, <2>2
    <3>2. /\ Row'[j] = Row[j] /\ (j # 1 => Row'[j - 1] = Row[j - 1])
          /\ (j # Len(Row) - 1 => Row'[j + 1] = Row[slot + 1])
      BY <2>2, <2>i, <3>1
    <3>3. QED
      BY <1>1, <2>2, <3>1, <3>2
  <2>3. CASE j = slot
    <3>0. PICK m : m = j + 1
      OBVIOUS
    <3>1. /\ m \in 1 .. Len(Row) /\ m # slot /\ m + 1 # slot /\ m = slot + 1 /\ ~(j < slot) /\ ~(j + 1 < slot)
          /\ (j = Len(Row) - 1 <=> m = Len(Row)) /\ (j # 1 => j - 1 < slot)
      BY <1>n, <2>3, <3>0
    <3>2. /\ Row'[j] = Row[m] /\ (j # 1 => Row'[j - 1] = Row[slot - 1])
          /\ (j # Len(Row) - 1 => Row'[j + 1] = Row[m + 1])
      BY <2>3, <2>i, <3>0, <3>1
    <3>3. QED
      BY <1>1, <2>3, <3>1, <3>2
  <2>4. CASE j > slot
    <3>0. PICK m : m = j + 1
      OBVIOUS
    <3>1. /\ m \in 1 .. Len(Row) /\ m # slot /\ m + 1 # slot /\ m # slot + 1 /\ m # 1 /\ m - 1 = j /\ j # 1
          /\ ~(j < slot) /\ ~(j + 1 < slot) /\ ~(j - 1 < slot) /\ (j - 1) + 1 = j
          /\ (j = Len(Row) - 1 <=> m = Len(Row))
      BY <1>n, <2>4, <3>0
    <3>2. /\ Row'[j] = Row[m] /\ Row'[j - 1] = Row[j]
          /\ (j # Len(Row) - 1 => Row'[j + 1] = Row[m + 1])
      BY <2>i, <3>0, <3>1
    <3>3. QED
      BY ZenonT(60), <1>1, <3>1, <3>2
  <2>5. QED
    BY <1>n, <2>1, <2>2, <2>3, <2>4
<1>3. headbin' = IF Row' = <<>> THEN NoBin ELSE Row'[1]
  <2>1. CASE Len(Row) = 1
    <3>1. slot = 1
      BY <2>1
    <3>2. QED
      BY <1>1, <2>1, <3>1
  <2>2. CASE Len(Row) # 1
    <3>1. 1 \in 1 .. Len(Row) - 1 /\ (1 < slot <=> slot # 1) /\ 1 + 1 = 2
      BY <1>n, <2>2
    <3>2. QED
      BY <1>1, <2>2, <3>1
  <2>3. QED
    BY <2>1, <2>2
<1>4. tailbin' = IF Row' = <<>> THEN NoBin ELSE Row'[Len(Row')]
  <2>1. CASE Len(Row) = 1
    <3>1. slot = 1
      BY <2>1
    <3>2. QED
      BY <1>1, <2>1, <3>1
  <2>2. CASE Len(Row) # 1
    <3>1. Len(Row) - 1 \in 1 .. Len(Row) - 1 /\ (Len(Row) - 1 < slot <=> slot = Len(Row)) /\ (Len(Row) - 1) + 1 = Len(Row)
          /\ (slot = Len(Row) => slot # 1)
      BY <1>n, <2>2
    <3>2. QED
      BY <1>1, <2>2, <3>1
  <2>3. QED
    BY <2>1, <2>2
<1>5. QED
  BY <1>1, <1>2, <1>3, <1>4 DEF ChainInv

\* What a removal that frees an array leaves, wherever the root points.
LEMMA FreeStep ==
    ASSUME IInv, Intact, NEW key \in Key, NEW slot \in 1 .. Len(Row), NEW b \in live, b = Row[slot],
           RoutedTo(key, slot, b), slotkey[b] = <<key>>, Unchain(b), Free(b),
           rootkey' \in Seq(Key), Len(rootkey') <= RootSlotMax, children' \in Seq(Bin),
           IF HasRoot' THEN Len(children') = Len(rootkey') + 1 ELSE rootkey' = <<>>,
           UNCHANGED is_retraining, ret'.res = "ok"
    PROVE  /\ TypeOK' /\ Apart' /\ Drops(key)
           /\ live' = live \ {b} /\ \A c \in live' : slotkey'[c] = slotkey[c]
<1>1. TypeOK /\ RowInv /\ ChainInv /\ Apart
  BY DEF IInv
<1>2. /\ live' = live \ {b} /\ live \subseteq Bin /\ b \in Bin
      /\ slotkey' = [slotkey EXCEPT ![b] = <<>>] /\ slotdata' = [slotdata EXCEPT ![b] = <<>>]
      /\ slotkey \in [Bin -> Seq(Key)] /\ slotdata \in [Bin -> Seq(Val)]
  BY <1>1 DEF Free, TypeOK
<1>3. /\ slotkey'[b] = <<>> /\ slotdata'[b] = <<>>
      /\ \A c \in Bin \ {b} : slotkey'[c] = slotkey[c] /\ slotdata'[c] = slotdata[c]
  BY <1>2
<1>4. TypeOK'
  <2>1. /\ nextbin' \in [Bin -> Bin \cup {NoBin}] /\ prevbin' \in [Bin -> Bin \cup {NoBin}]
        /\ headbin' \in Bin \cup {NoBin} /\ tailbin' \in Bin \cup {NoBin}
    BY <1>1, UnchainIs
  <2>2. slotkey' \in [Bin -> Seq(Key)] /\ slotdata' \in [Bin -> Seq(Val)]
    BY <1>2
  <2>3. \A x \in Bin : Used(x)' = Len(slotdata[x])' /\ Used(x)' <= ChildSlotMax
    <3> TAKE x \in Bin
    <3>1. CASE x = b
      <4>1. slotkey'[x] = <<>> /\ slotdata'[x] = <<>> /\ Len(<<>>) = 0 /\ 0 <= ChildSlotMax
        BY <1>3, <3>1, SlotAssumption
      <4>2. QED
        BY <4>1 DEF Used
    <3>2. CASE x # b
      BY <1>1, <1>3, <3>2 DEF TypeOK, Used
    <3>3. QED
      BY <3>1, <3>2
  <2>4. QED
    BY <1>1, <1>2, <2>1, <2>2, <2>3 DEF TypeOK
<1>5. Apart'
  <2>1. \A c \in live' : c \in live /\ slotkey'[c] = slotkey[c]
    BY <1>2, <1>3
  <2>2. QED
    BY <1>1, <2>1 DEF Apart, Keys
<1>6. Drops(key)
  <2>1. slotkey[b] \in Seq(Key) /\ slotdata[b] \in Seq(Val) /\ Len(slotdata[b]) = Len(slotkey[b])
    BY <1>1, <1>2, ArraysAre
  <2>2. Len(slotkey[b]) = 1 /\ slotkey[b][1] = key /\ Keys(b) = {key}
    <3>1. Len(slotkey[b]) = 1 /\ slotkey[b][1] = key
      OBVIOUS
    <3>2. Keys(b) = {slotkey[b][i] : i \in 1 .. Len(slotkey[b])}
      BY <2>1, KeysAreNumbers DEF Keys
    <3>3. 1 .. Len(slotkey[b]) = {1}
      BY <3>1
    <3>4. Keys(b) = {slotkey[b][1]}
      BY <3>2, <3>3
    <3>5. QED
      BY <3>1, <3>4
  <2>3. \A c \in live \ {b} : key \notin Keys(c)
    BY <1>1, <2>2 DEF Apart
  <2>4. Held(key)
    BY <1>1, <2>2, HeldIs
  <2>5. ASSUME NEW x PROVE x \in Stock' <=> x \in Without(Stock, key)
    <3>1. x \in Stock' <=> \E c \in live \ {b} : x \in Entries(c)
      BY <1>2, <1>3 DEF Stock, Entries
    <3>2. \A y \in Entries(b) : y[1] = key
      BY <1>1, <1>2, <2>2, KeyOfEntry
    <3>3. \A c \in live \ {b} : \A y \in Entries(c) : y[1] # key
      BY <1>1, <1>2, <2>3, KeyOfEntry
    <3>4. QED
      BY <3>1, <3>2, <3>3 DEF Stock, Without
  <2>6. QED
    BY <2>4, <2>5 DEF Drops
<1>7. QED
  BY <1>2, <1>3, <1>4, <1>5, <1>6

\* The row closes where the array was, and its separators with it.
LEMMA RowCloses ==
    ASSUME TypeOK, RowInv, NEW slot \in 1 .. Len(Row), NEW b, b = Row[slot],
           live' = live \ {b}, \A c \in live' : slotkey'[c] = slotkey[c],
           Len(Row') = Len(Row) - 1,
           \A j \in 1 .. Len(Row) - 1 : Row'[j] = IF j < slot THEN Row[j] ELSE Row[j + 1],
           Len(rootkey') = 0 \/ Len(rootkey') = Len(rootkey) - 1,
           \A i \in 1 .. Len(rootkey') : rootkey'[i] = IF i < slot THEN rootkey[i] ELSE rootkey[i + 1]
    PROVE  RowInv'
<1> DEFINE Old(j) == IF j < slot THEN j ELSE j + 1
<1>1. Len(Row) \in Nat /\ Len(rootkey) \in Nat /\ Len(rootkey) <= Len(Row)
      /\ (\A i \in 1 .. Len(Row) : Row[i] \in live)
      /\ (\A i, j \in 1 .. Len(Row) : Row[i] = Row[j] => i = j)
  <2>1. Len(Row) \in Nat /\ Len(rootkey) \in Nat /\ Len(rootkey) <= Len(Row)
    BY RowIs
  <2>2. QED
    BY <2>1 DEF RowInv
<1>n. Len(Row) \in Nat
  BY <1>1
<1>2. ASSUME NEW j \in 1 .. Len(Row) - 1
      PROVE  /\ Old(j) \in 1 .. Len(Row) /\ Old(j) # slot /\ Row'[j] = Row[Old(j)]
             /\ Row'[j] \in live' /\ slotkey'[Row'[j]] = slotkey[Row[Old(j)]]
  <2>1. Old(j) \in 1 .. Len(Row) /\ Old(j) # slot /\ Row'[j] = Row[Old(j)]
    BY <1>n
  <2> HIDE DEF Old
  <2>2. Row[Old(j)] \in live /\ Row[Old(j)] # b
    BY <1>1, <2>1
  <2>3. QED
    BY <2>1, <2>2
<1>3. ASSUME NEW i \in 1 .. Len(Row) - 1, NEW j \in 1 .. Len(Row) - 1
      PROVE  (i < j => Old(i) < Old(j)) /\ (Old(i) = Old(j) => i = j)
  BY <1>n
<1>4. ASSUME NEW m \in 1 .. Len(Row), m # slot PROVE \E j \in 1 .. Len(Row) - 1 : Old(j) = m
  <2>1. CASE m < slot
    <3>1. m \in 1 .. Len(Row) - 1 /\ Old(m) = m
      BY <1>n, <2>1
    <3>2. QED
      BY <3>1
  <2>2. CASE m > slot
    <3>1. m - 1 \in 1 .. Len(Row) - 1 /\ Old(m - 1) = m
      BY <1>n, <2>2
    <3>2. QED
      BY <3>1
  <2>3. QED
    BY <1>n, <1>4, <2>1, <2>2
<1>5. \A i \in 1 .. Len(rootkey') : i \in 1 .. Len(Row) - 1 /\ Old(i) \in 1 .. Len(rootkey) /\ rootkey'[i] = rootkey[Old(i)]
  <2> TAKE i \in 1 .. Len(rootkey')
  <2>1. Len(rootkey') = Len(rootkey) - 1
    OBVIOUS
  <2>2. i \in 1 .. Len(Row) - 1 /\ Old(i) \in 1 .. Len(rootkey)
    BY <1>1, <2>1
  <2>3. QED
    BY <2>2
<1> HIDE DEF Old
<1>6. \A i, j \in 1 .. Len(Row) - 1 : Row'[i] = Row'[j] => i = j
  BY <1>1, <1>2, <1>3
<1>7. live' = {Row'[j] : j \in 1 .. Len(Row) - 1}
  <2>1. ASSUME NEW x \in live' PROVE \E j \in 1 .. Len(Row) - 1 : x = Row'[j]
    <3>1. PICK m \in 1 .. Len(Row) : x = Row[m]
      BY DEF RowInv
    <3>2. m # slot
      BY <3>1
    <3>3. PICK j \in 1 .. Len(Row) - 1 : Old(j) = m
      BY <1>4, <3>2
    <3>4. QED
      BY <1>2, <3>1, <3>3
  <2>2. QED
    BY <1>2, <2>1
<1>8. \A j \in 1 .. Len(Row) - 1 : Ascending(slotkey'[Row'[j]])
  BY <1>2 DEF RowInv
<1>9. ASSUME NEW i \in 1 .. Len(Row) - 1, NEW j \in 1 .. Len(Row) - 1, i < j
      PROVE  Before(ToSet(slotkey'[Row'[i]]), ToSet(slotkey'[Row'[j]]))
  <2>1. Old(i) < Old(j) /\ Old(i) \in 1 .. Len(Row) /\ Old(j) \in 1 .. Len(Row)
    BY <1>2, <1>3, <1>9
  <2>2. Before(Keys(Row[Old(i)]), Keys(Row[Old(j)]))
    BY <2>1 DEF RowInv
  <2>3. slotkey'[Row'[i]] = slotkey[Row[Old(i)]] /\ slotkey'[Row'[j]] = slotkey[Row[Old(j)]]
    BY <1>2
  <2>4. QED
    BY <2>2, <2>3 DEF Keys
<1>10. \A i \in 1 .. Len(rootkey') :
            slotkey'[Row'[i]] # <<>> /\ rootkey'[i] = Last(slotkey'[Row'[i]])
  <2> TAKE i \in 1 .. Len(rootkey')
  <2>1. i \in 1 .. Len(Row) - 1 /\ Old(i) \in 1 .. Len(rootkey) /\ rootkey'[i] = rootkey[Old(i)]
    BY <1>5
  <2>2. slotkey'[Row'[i]] = slotkey[Row[Old(i)]]
    BY <1>2, <2>1
  <2>3. slotkey[Row[Old(i)]] # <<>> /\ rootkey[Old(i)] = Last(slotkey[Row[Old(i)]])
    BY <2>1 DEF RowInv
  <2>4. QED
    BY <2>1, <2>2, <2>3
<1>11. Len(Row') = Len(Row) - 1
  OBVIOUS
<1>12. QED
  BY <1>6, <1>7, <1>8, <1>9, <1>10, <1>11 DEF RowInv, Keys

\* The last key of the only array goes: the bin is empty.
LEMMA RemoveSingleStep ==
    ASSUME IInv, NEW key \in Key, RemoveSingle(key)
    PROVE  IInv' /\ Drops(key)
<1>1. /\ TypeOK /\ RowInv /\ ChainInv /\ Intact /\ ~HasRoot /\ headbin # NoBin
      /\ slotkey[headbin] = <<key>> /\ Unchain(headbin) /\ Free(headbin)
      /\ UNCHANGED <<root, is_retraining>> /\ ret'.res = "ok"
  BY DEF RemoveSingle, Defined, IInv, Removed, Answer
<1>b. PICK b : b = headbin
  OBVIOUS
<1>2. /\ Len(Row) = 1 /\ Row[1] = b /\ rootkey = <<>> /\ Len(rootkey) = 0 /\ 1 \in 1 .. Len(Row)
  BY <1>1, <1>b, RowIs
<1>3. b \in live /\ RoutedTo(key, 1, b) /\ slotkey[b] = <<key>> /\ Unchain(b) /\ Free(b)
  BY <1>1, <1>2, <1>b DEF RowInv, RoutedTo
<1>s. PICK slot : slot = 1
  OBVIOUS
<1>4. /\ ~HasRoot' /\ rootkey' = <<>> /\ Len(rootkey') = 0 /\ rootkey' \in Seq(Key) /\ children' \in Seq(Bin)
      /\ Len(rootkey') <= RootSlotMax
  BY <1>1, <1>2, SlotAssumption DEF root, HasRoot, TypeOK
<1>5. slot \in 1 .. Len(Row) /\ b = Row[slot] /\ RoutedTo(key, slot, b)
  BY <1>2, <1>3, <1>s
<1>6. /\ TypeOK' /\ Apart' /\ Drops(key)
      /\ live' = live \ {b} /\ \A c \in live' : slotkey'[c] = slotkey[c]
  BY <1>1, <1>3, <1>4, <1>5, FreeStep
<1>7. Row' = <<>> /\ Len(Row') = 0
  <2>1. headbin' = IF slot = 1 THEN IF Len(Row) = 1 THEN NoBin ELSE Row[2] ELSE Row[1]
    BY <1>1, <1>3, <1>5, UnchainIs
  <2>2. headbin' = NoBin
    BY <1>2, <1>s, <2>1
  <2>3. QED
    BY <1>4, <2>2 DEF Row
<1>8. RowInv'
  <2>1. live' = {}
    <3>1. live = {Row[i] : i \in 1 .. Len(Row)} /\ Len(Row) = 1 /\ Row[1] = b
      BY <1>1, <1>2 DEF RowInv
    <3>2. 1 .. Len(Row) = {1}
      BY <3>1
    <3>3. live = {b}
      BY <3>1, <3>2
    <3>4. QED
      BY <1>6, <3>3
  <2>2. QED
    BY <1>4, <1>7, <2>1 DEF RowInv
<1>9. ChainInv'
  <2>1. \A j \in 1 .. Len(Row) - 1 : Row'[j] = IF j < slot THEN Row[j] ELSE Row[j + 1]
    BY <1>2
  <2>2. Len(Row') = Len(Row) - 1 /\ (Row' = <<>> <=> Len(Row) = 1)
    BY <1>2, <1>7
  <2>3. QED
    BY <1>1, <1>3, <1>5, <1>6, <2>1, <2>2, UnchainKeepsChain
<1>10. QED
  BY <1>4, <1>6, <1>8, <1>9 DEF IInv

\* Cutting a slot out of a sequence of the root: with the last slot or the
\* last but one, it is the end that goes.
LEMMA GapIs ==
    ASSUME NEW S, NEW s \in Seq(S), NEW slot \in Nat \ {0}, Len(rootkey) \in Nat \ {0},
           Len(s) = Len(rootkey) \/ Len(s) = Len(rootkey) + 1
    PROVE  /\ CloseGap(s, slot) \in Seq(S) /\ Len(CloseGap(s, slot)) = Len(s) - 1
           /\ slot < Len(rootkey) => \A i \in 1 .. Len(s) - 1 :
                    CloseGap(s, slot)[i] = IF i < slot THEN s[i] ELSE s[i + 1]
           /\ ~(slot < Len(rootkey)) => \A i \in 1 .. Len(s) - 1 : CloseGap(s, slot)[i] = s[i]
<1>1. CASE slot < Len(rootkey)
  <2>1. CloseGap(s, slot) = RemoveAt(s, slot)
    BY <1>1 DEF CloseGap
  <2>2. slot \in 1 .. Len(s)
    BY <1>1
  <2>3. /\ RemoveAt(s, slot) \in Seq(S) /\ Len(RemoveAt(s, slot)) = Len(s) - 1
        /\ \A i \in 1 .. Len(s) - 1 : RemoveAt(s, slot)[i] = IF i < slot THEN s[i] ELSE s[i + 1]
    BY <2>2, RemoveAtIs
  <2>4. QED
    BY <1>1, <2>1, <2>3
<1>2. CASE ~(slot < Len(rootkey))
  <2>1. CloseGap(s, slot) = Front(s)
    BY <1>2 DEF CloseGap
  <2>2. s # <<>>
    <3>1. Len(s) # 0
      OBVIOUS
    <3>2. QED
      BY <3>1, EmptySeq
  <2>3. /\ Front(s) \in Seq(S) /\ Len(Front(s)) = Len(s) - 1
        /\ \A i \in 1 .. Len(s) - 1 : Front(s)[i] = s[i]
    BY <2>2, FrontProperties
  <2>4. QED
    BY <1>2, <2>1, <2>3
<1>3. QED
  BY <1>1, <1>2

\* The root after the array before the last lost its only key: that array is
\* freed, the root still points to it and no longer to the last one.
Gap(key, n) ==
    /\ n = Len(rootkey) /\ HasRoot /\ HasRoot'
    /\ slotkey[children[n]] = <<key>>
    /\ live' = live \ {children[n]}
    /\ \A c \in live' : slotkey'[c] = slotkey[c] /\ slotdata'[c] = slotdata[c]
    /\ Len(rootkey') = n - 1 /\ \A i \in 1 .. n - 1 : rootkey'[i] = rootkey[i]
    /\ \A i \in 1 .. n : children'[i] = children[i]

\* The last key of an array under the root goes, and the array with it: with
\* one array left the root goes too.  When it is the last array but one the
\* root keeps pointing to it, and the bin is not intact.
LEMMA RemoveChildStep ==
    ASSUME IInv, NEW key \in Key, RemoveChild(key)
    PROVE  IInv' /\ Drops(key) /\ (Intact' \/ \E n \in Nat \ {0} : Gap(key, n))
<1>0. PICK slot \in Lower(rootkey, key) :
        /\ slotkey[children[slot]] = <<key>>
        /\ Unchain(children[slot])
        /\ Free(children[slot])
        /\ rootkey' = CloseGap(rootkey, slot)
        /\ children' = IF Len(rootkey) = 1 THEN <<>> ELSE CloseGap(children, slot)
  BY DEF RemoveChild
<1>1. /\ TypeOK /\ RowInv /\ ChainInv /\ Intact /\ HasRoot /\ rootkey # <<>>
      /\ UNCHANGED is_retraining /\ ret'.res = "ok"
  BY DEF RemoveChild, Defined, IInv, Removed, Answer
<1>b. PICK b : b = children[slot]
  OBVIOUS
<1>2. /\ Row = children /\ Len(Row) = Len(rootkey) + 1 /\ Len(rootkey) \in Nat \ {0} /\ Len(Row) \in Nat
      /\ children \in Seq(Bin) /\ rootkey \in Seq(Key) /\ Len(rootkey) <= RootSlotMax
      /\ slot \in 1 .. Len(rootkey) + 1 /\ slot \in 1 .. Len(Row) /\ slot \in Nat \ {0}
  <2>1. /\ Row = children /\ Len(Row) = Len(rootkey) + 1 /\ Len(rootkey) \in Nat /\ Len(Row) \in Nat
        /\ children \in Seq(Bin) /\ rootkey \in Seq(Key) /\ Len(rootkey) <= RootSlotMax
    BY <1>1, RowIs DEF TypeOK
  <2>2. Len(rootkey) # 0
    BY <1>1, <2>1, EmptySeq
  <2>3. slot \in 1 .. Len(rootkey) + 1
    BY DEF Lower
  <2>4. QED
    BY <2>1, <2>2, <2>3
<1>n. Len(rootkey) \in Nat \ {0}
  BY <1>2
<1>3. /\ b = Row[slot] /\ b \in live /\ RoutedTo(key, slot, b)
      /\ slotkey[b] = <<key>> /\ Unchain(b) /\ Free(b)
  <2>1. b = Row[slot] /\ b \in live
    BY <1>1, <1>2, <1>b DEF RowInv
  <2>2. QED
    BY <1>0, <1>1, <1>b, <2>1 DEF RoutedTo
<1>4. /\ rootkey' \in Seq(Key) /\ Len(rootkey') = Len(rootkey) - 1 /\ Len(rootkey') <= RootSlotMax
      /\ \A i \in 1 .. Len(rootkey') : rootkey'[i] = IF i < slot THEN rootkey[i] ELSE rootkey[i + 1]
  <2>1. /\ rootkey' \in Seq(Key) /\ Len(rootkey') = Len(rootkey) - 1
        /\ slot < Len(rootkey) => \A i \in 1 .. Len(rootkey) - 1 :
                    rootkey'[i] = IF i < slot THEN rootkey[i] ELSE rootkey[i + 1]
        /\ ~(slot < Len(rootkey)) => \A i \in 1 .. Len(rootkey) - 1 : rootkey'[i] = rootkey[i]
    <3>1. PICK s : s = rootkey
      OBVIOUS
    <3>2. /\ s \in Seq(Key) /\ slot \in Nat \ {0} /\ Len(rootkey) \in Nat \ {0}
          /\ Len(s) = Len(rootkey) /\ rootkey' = CloseGap(s, slot)
      BY <1>0, <1>2, <3>1
    <3>3. /\ CloseGap(s, slot) \in Seq(Key) /\ Len(CloseGap(s, slot)) = Len(s) - 1
          /\ slot < Len(rootkey) => \A i \in 1 .. Len(s) - 1 :
                    CloseGap(s, slot)[i] = IF i < slot THEN s[i] ELSE s[i + 1]
          /\ ~(slot < Len(rootkey)) => \A i \in 1 .. Len(s) - 1 : CloseGap(s, slot)[i] = s[i]
      BY <3>2, GapIs
    <3>4. QED
      BY <3>1, <3>2, <3>3, Zenon
  <2>2. ~(slot < Len(rootkey)) => \A i \in 1 .. Len(rootkey) - 1 : i < slot
    BY <1>2
  <2>3. Len(rootkey') <= RootSlotMax
    BY <1>2, <2>1, SlotAssumption
  <2>4. QED
    BY <2>1, <2>2, <2>3
<1>5. Len(rootkey) # 1 =>
      /\ children' \in Seq(Bin) /\ Len(children') = Len(rootkey)
      /\ slot < Len(rootkey) => \A i \in 1 .. Len(rootkey) :
                    children'[i] = IF i < slot THEN children[i] ELSE children[i + 1]
      /\ ~(slot < Len(rootkey)) => \A i \in 1 .. Len(rootkey) : children'[i] = children[i]
  <2> HAVE Len(rootkey) # 1
  <2>1. children' = CloseGap(children, slot)
    BY <1>0
  <2>2. Len(children) = Len(rootkey) + 1 /\ Len(children) - 1 = Len(rootkey)
    BY <1>2
  <2>3. /\ CloseGap(children, slot) \in Seq(Bin) /\ Len(CloseGap(children, slot)) = Len(children) - 1
        /\ slot < Len(rootkey) => \A i \in 1 .. Len(children) - 1 :
                    CloseGap(children, slot)[i] = IF i < slot THEN children[i] ELSE children[i + 1]
        /\ ~(slot < Len(rootkey)) => \A i \in 1 .. Len(children) - 1 : CloseGap(children, slot)[i] = children[i]
    BY <1>2, <2>2, GapIs
  <2>4. QED
    BY <2>1, <2>2, <2>3
<1>6. /\ HasRoot' <=> Len(rootkey) # 1
      /\ children' \in Seq(Bin)
      /\ IF HasRoot' THEN Len(children') = Len(rootkey') + 1 ELSE rootkey' = <<>>
      /\ HasRoot' => rootkey' # <<>>
  <2>1. CASE Len(rootkey) = 1
    <3>1. children' = <<>> /\ Len(rootkey') = 0 /\ children' \in Seq(Bin)
      BY <1>0, <1>4, <2>1
    <3>2. QED
      BY <1>4, <2>1, <3>1, EmptySeq DEF HasRoot
  <2>2. CASE Len(rootkey) # 1
    <3>1. children' \in Seq(Bin) /\ Len(children') = Len(rootkey) /\ Len(rootkey) # 0
          /\ Len(rootkey') # 0 /\ Len(children') = Len(rootkey') + 1
      BY <1>n, <1>4, <1>5, <2>2
    <3>2. children' # <<>> /\ rootkey' # <<>>
      BY <1>4, <3>1, EmptySeq
    <3>3. QED
      BY <2>2, <3>1, <3>2 DEF HasRoot
  <2>3. QED
    BY <2>1, <2>2
<1>7. /\ TypeOK' /\ Apart' /\ Drops(key)
      /\ live' = live \ {b} /\ \A c \in live' : slotkey'[c] = slotkey[c]
  BY <1>1, <1>2, <1>3, <1>4, <1>6, FreeStep
<1>8. ASSUME Len(Row') = Len(Row) - 1, Row' = <<>> <=> Len(Row) = 1,
             \A j \in 1 .. Len(Row) - 1 : Row'[j] = IF j < slot THEN Row[j] ELSE Row[j + 1]
      PROVE  IInv' /\ RowInv'
  <2>1. RowInv'
    BY <1>1, <1>2, <1>3, <1>4, <1>7, <1>8, RowCloses
  <2>2. ChainInv'
    BY <1>1, <1>2, <1>3, <1>7, <1>8, UnchainKeepsChain
  <2>3. QED
    BY <1>6, <1>7, <2>1, <2>2 DEF IInv
\* the root goes with its last separator but one array
<1>9. CASE Len(rootkey) = 1
  <2>1. Len(Row) = 2 /\ (slot = 1 \/ slot = 2) /\ 1 \in 1 .. Len(Row) /\ 2 \in 1 .. Len(Row)
    BY <1>2, <1>9
  <2>2. PICK h : h = IF slot = 1 THEN Row[2] ELSE Row[1]
    OBVIOUS
  <2>3. h \in Bin /\ h # NoBin
    <3>1. Row[1] \in Bin /\ Row[2] \in Bin
      BY <1>1, <2>1, RowIs
    <3>2. QED
      BY <2>2, <3>1, NullAssumption
  <2>4. headbin' = h
    <3>1. headbin' = IF slot = 1 THEN IF Len(Row) = 1 THEN NoBin ELSE Row[2] ELSE Row[1]
      BY <1>1, <1>2, <1>3, UnchainIs
    <3>2. QED
      BY <2>1, <2>2, <3>1
  <2>5. Row' = <<h>>
    BY <1>6, <1>9, <2>3, <2>4 DEF Row
  <2>6. Len(Row') = 1 /\ Row'[1] = h /\ Row' # <<>>
    BY <2>5
  <2>7. \A j \in 1 .. Len(Row) - 1 : Row'[j] = IF j < slot THEN Row[j] ELSE Row[j + 1]
    <3> TAKE j \in 1 .. Len(Row) - 1
    <3>1. j = 1 /\ j + 1 = 2 /\ (j < slot <=> slot # 1)
      BY <2>1
    <3>2. QED
      BY <2>2, <2>6, <3>1
  <2>8. Intact'
    BY <1>6, <1>9 DEF Intact, HasRoot
  <2>9. QED
    BY <1>7, <1>8, <2>1, <2>6, <2>7, <2>8
\* the root keeps pointing to the freed array
<1>10. CASE Len(rootkey) # 1 /\ slot = Len(rootkey)
  <2>1. slot \in 1 .. Len(rootkey) /\ children'[slot] = b /\ slot \in DOMAIN children'
    <3>1. slot \in 1 .. Len(rootkey) /\ ~(slot < Len(rootkey))
      BY <1>2, <1>10
    <3>2. QED
      BY <1>2, <1>3, <1>5, <1>10, <3>1
  <2>2. ~Intact'
    BY <1>7, <2>1 DEF Intact
  <2>3. IInv'
    BY <1>6, <1>7, <2>2 DEF IInv
  <2>4. \A c \in live' : slotdata'[c] = slotdata[c]
    BY <1>1, <1>3, <1>7 DEF Free, TypeOK
  <2>5. Gap(key, slot)
    <3>1. Len(rootkey') = slot - 1 /\ \A i \in 1 .. slot - 1 : rootkey'[i] = rootkey[i]
      BY <1>2, <1>4, <1>10
    <3>2. \A i \in 1 .. slot : children'[i] = children[i]
      BY <1>2, <1>5, <1>10
    <3>3. HasRoot /\ HasRoot' /\ slotkey[children[slot]] = <<key>>
      BY <1>1, <1>3, <1>6, <1>10, <1>b
    <3>4. QED
      BY <1>7, <1>10, <1>b, <2>4, <3>1, <3>2, <3>3 DEF Gap
  <2>6. QED
    BY <1>2, <1>7, <2>3, <2>5
<1>11. CASE Len(rootkey) # 1 /\ slot # Len(rootkey)
  <2>1. Row' = children' /\ Len(Row) - 1 = Len(rootkey)
    BY <1>2, <1>6, <1>11 DEF Row
  <2>2. Len(Row') = Len(Row) - 1 /\ Row' # <<>> /\ Len(Row) # 1
    BY <1>2, <1>5, <1>6, <1>11, <2>1 DEF HasRoot
  <2>3. ~(slot < Len(rootkey)) => \A j \in 1 .. Len(rootkey) : j < slot
    BY <1>2, <1>11
  <2>4. \A j \in 1 .. Len(Row) - 1 : Row'[j] = IF j < slot THEN Row[j] ELSE Row[j + 1]
    BY <1>2, <1>5, <1>11, <2>1, <2>3
  <2>5. IInv' /\ RowInv'
    BY <1>7, <1>8, <2>2, <2>4
  <2>6. Intact'
    <3>1. DOMAIN children' = 1 .. Len(Row')
      BY <1>6, <2>1
    <3>2. QED
      BY <2>1, <2>5, <3>1 DEF Intact, RowInv
  <2>7. QED
    BY <1>7, <2>5, <2>6
<1>12. QED
  BY <1>7, <1>9, <1>10, <1>11

-----------------------------------------------------------------------------
(* Every step, and the inductive invariant. *)

\* The operations that look and change nothing.
Looks(key, val) ==
    \/ FindHit(key) \/ FindMiss(key) \/ RemoveMiss(key)
    \/ UpdateMiss(key, val) \/ Refuse(key, val)
    \/ InsertDuplicate(key, val) \/ NeedRetrain(key, val)

\* What every operation does to the entries.
LEMMA OperationStep ==
    ASSUME IInv, NEW key \in Key, NEW val \in Val
    PROVE  /\ Looks(key, val) => IInv' /\ Stock' = Stock
           /\ UpdateHit(key, val) => IInv' /\ Replaces(key, val)
           /\ Insert(key, val) /\ ~Looks(key, val) => IInv' /\ Adds(key, val)
           /\ RemoveKey(key) /\ ~Looks(key, val) => IInv' /\ Drops(key)
<1>1. ASSUME Looks(key, val) PROVE IInv' /\ Stock' = Stock
  <2>1. UNCHANGED <<live, data, chain, root>> /\ is_retraining' \in BOOLEAN
        /\ ret'.res \in {"ok", "failed", "retrain"}
    <3>0. is_retraining \in BOOLEAN
      BY DEF IInv, TypeOK
    <3>1. CASE FindHit(key) \/ FindMiss(key) \/ RemoveMiss(key)
      BY <3>0, <3>1 DEF FindHit, FindMiss, RemoveMiss, Answer
    <3>2. CASE UpdateMiss(key, val) \/ InsertDuplicate(key, val) \/ NeedRetrain(key, val)
      <4>1. CASE UpdateMiss(key, val)
        BY <3>0, <4>1 DEF UpdateMiss, Answer
      <4>2. CASE InsertDuplicate(key, val)
        BY <3>0, <4>2 DEF InsertDuplicate, Answer
      <4>3. CASE NeedRetrain(key, val)
        BY <3>0, <4>3 DEF NeedRetrain, Answer
      <4>4. QED
        BY <3>2, <4>1, <4>2, <4>3
    <3>3. CASE Refuse(key, val)
      BY <3>0, <3>3 DEF Refuse, Answer
    <3>4. QED
      BY <1>1, <3>1, <3>2, <3>3 DEF Looks
  <2>2. QED
    BY <2>1, NothingChanges
<1>2. UpdateHit(key, val) => IInv' /\ Replaces(key, val)
  BY UpdateHitStep
<1>3. ASSUME Insert(key, val), ~Looks(key, val) PROVE IInv' /\ Adds(key, val)
  BY <1>3, InsertFirstStep, InsertInChildStep, AppendToLeftStep, ShiftToLeftStep, SplitSingleStep,
     SplitChildStep DEF Insert, Looks
<1>4. ASSUME RemoveKey(key), ~Looks(key, val) PROVE IInv' /\ Drops(key)
  BY <1>4, RemoveFromChildStep, RemoveSingleStep, RemoveChildStep DEF RemoveKey, Looks
<1>5. QED
  BY <1>1, <1>2, <1>3, <1>4

\* Every step keeps the invariant.
LEMMA NextIInv == IInv /\ [Next]_vars => IInv'
<1> SUFFICES ASSUME IInv, [Next]_vars PROVE IInv'
  OBVIOUS
<1>1. CASE UNCHANGED vars
  <2>1. UNCHANGED <<live, data, chain, root, is_retraining, ret>>
    BY <1>1 DEF vars
  <2>2. is_retraining' \in BOOLEAN /\ ret'.res \in {"ok", "failed", "retrain"}
    BY <2>1 DEF IInv, TypeOK
  <2>3. QED
    BY <2>1, <2>2, NothingChanges
<1>2. ASSUME NEW key \in Key, FindHit(key) \/ FindMiss(key) \/ RemoveMiss(key) PROVE IInv'
  <2>1. UNCHANGED <<live, data, chain, root, is_retraining>> /\ ret'.res \in {"ok", "failed", "retrain"}
    BY <1>2 DEF FindHit, FindMiss, RemoveMiss, Answer
  <2>2. is_retraining' \in BOOLEAN
    BY <2>1 DEF IInv, TypeOK
  <2>3. QED
    BY <2>1, <2>2, NothingChanges
<1>3. ASSUME NEW key \in Key, RemoveKey(key) PROVE IInv'
  BY <1>2, <1>3, RemoveFromChildStep, RemoveSingleStep, RemoveChildStep DEF RemoveKey
<1>4. ASSUME NEW key \in Key, NEW val \in Val,
             Insert(key, val) \/ UpdateHit(key, val) \/ UpdateMiss(key, val) \/ Refuse(key, val)
      PROVE  IInv'
  BY <1>4, OperationStep DEF Looks
<1>5. QED
  BY <1>1, <1>2, <1>3, <1>4 DEF Next

\* A new bin has one empty array and no entries.
LEMMA InitIInv == Init => IInv /\ Stock = {}
<1> SUFFICES ASSUME Init PROVE IInv /\ Stock = {}
  OBVIOUS
<1>1. PICK b \in Bin :
        /\ live = {b}
        /\ slotkey = [c \in Bin |-> <<>>]
        /\ slotdata = [c \in Bin |-> <<>>]
        /\ prevbin = [c \in Bin |-> NoBin]
        /\ nextbin = [c \in Bin |-> NoBin]
        /\ rootkey = <<>>
        /\ children = <<>>
        /\ headbin = b
        /\ tailbin = b
        /\ is_retraining = FALSE
        /\ ret = Answer("none", NoVal, NoVal, "ok")
  BY DEF Init
<1>2. b # NoBin /\ ~HasRoot /\ Len(rootkey) = 0 /\ Intact
  BY <1>1, NullAssumption DEF HasRoot, Intact
<1>3. Row = <<b>>
  BY <1>1, <1>2 DEF Row
<1>4. Len(Row) = 1 /\ Row[1] = b /\ Row # <<>> /\ \A i \in 1 .. Len(Row) : i = 1 /\ Row[i] = b
  BY <1>3
<1>5. TypeOK
  <2>1. <<>> \in Seq(Key) /\ <<>> \in Seq(Val) /\ <<>> \in Seq(Bin) /\ Len(<<>>) = 0
    OBVIOUS
  <2>2. \A c \in Bin : slotkey[c] = <<>> /\ slotdata[c] = <<>>
    BY <1>1
  <2>3. \A c \in Bin : Used(c) = Len(slotdata[c]) /\ Used(c) <= ChildSlotMax
    BY <2>1, <2>2, SlotAssumption DEF Used
  <2>4. ret.res = "ok" /\ 0 <= RootSlotMax
    BY <1>1, SlotAssumption DEF Answer
  <2>5. QED
    BY <1>1, <1>2, <2>1, <2>3, <2>4 DEF TypeOK
<1>6. Ascending(<<>>) /\ slotkey[b] = <<>> /\ slotdata[b] = <<>>
  BY <1>1 DEF Ascending
<1>7. RowInv
  <2>1. live = {Row[i] : i \in 1 .. Len(Row)}
    BY <1>1, <1>4
  <2>2. \A i, j \in 1 .. Len(Row) : ~(i < j)
    BY <1>4
  <2>3. \A i \in 1 .. Len(Row) : Ascending(slotkey[Row[i]])
    BY <1>4, <1>6
  <2>4. \A i \in 1 .. Len(rootkey) : FALSE
    BY <1>2
  <2>5. \A i, j \in 1 .. Len(Row) : Row[i] = Row[j] => i = j
    BY <1>4
  <2>6. QED
    BY <2>1, <2>2, <2>3, <2>4, <2>5 DEF RowInv
<1>8. ChainInv
  <2>1. \A i \in 1 .. Len(Row) : i = 1 /\ i = Len(Row)
    BY <1>4
  <2>2. \A c \in Bin : prevbin[c] = NoBin /\ nextbin[c] = NoBin
    BY <1>1
  <2>3. \A i \in 1 .. Len(Row) : Row[i] \in Bin
    BY <1>4
  <2>4. headbin = Row[1] /\ tailbin = Row[Len(Row)]
    BY <1>1, <1>4
  <2>5. QED
    BY <1>4, <2>1, <2>2, <2>3, <2>4 DEF ChainInv
<1>9. Apart
  BY <1>5, <1>7, RowIsApart
<1>10. Stock = {}
  <2>1. Entries(b) = {}
    BY <1>6 DEF Entries, Pairs
  <2>2. QED
    BY <1>1, <2>1 DEF Stock
<1>11. QED
  BY <1>2, <1>5, <1>7, <1>8, <1>9, <1>10 DEF IInv

-----------------------------------------------------------------------------
(* Joined arrays. *)

\* Two ascending arrays, one before the other, joined.
LEMMA JoinTwo ==
    ASSUME NEW a \in Seq(Key), Ascending(a), NEW c \in Seq(Key), Ascending(c),
           Before(ToSet(a), ToSet(c))
    PROVE  /\ a \o c \in Seq(Key) /\ Len(a \o c) = Len(a) + Len(c) /\ Ascending(a \o c)
           /\ ToSet(a \o c) = ToSet(a) \cup ToSet(c)
           /\ \A i \in 1 .. Len(a) : (a \o c)[i] = a[i]
<1> DEFINE r == a \o c
<1>0. /\ Len(a) \in Nat /\ Len(c) \in Nat /\ DOMAIN a = 1 .. Len(a) /\ DOMAIN c = 1 .. Len(c)
      /\ ToSet(a) = {a[i] : i \in 1 .. Len(a)} /\ ToSet(c) = {c[i] : i \in 1 .. Len(c)}
      /\ \A i \in 1 .. Len(a) : a[i] \in Int
      /\ \A i \in 1 .. Len(c) : c[i] \in Int
  BY KeysAreNumbers
<1>n. Len(a) \in Nat /\ Len(c) \in Nat
  BY <1>0
<1>1. /\ r \in Seq(Key) /\ Len(r) = Len(a) + Len(c)
      /\ \A i \in 1 .. Len(a) + Len(c) : r[i] = IF i <= Len(a) THEN a[i] ELSE c[i - Len(a)]
  BY ConcatProperties
<1> HIDE DEF r
<1>2. DOMAIN r = 1 .. Len(r) /\ ToSet(r) = {r[i] : i \in 1 .. Len(r)}
  BY <1>1, KeysAreNumbers
<1>3. ASSUME NEW i \in 1 .. Len(r)
      PROVE  \/ i <= Len(a) /\ i \in 1 .. Len(a) /\ r[i] = a[i]
             \/ i > Len(a) /\ i - Len(a) \in 1 .. Len(c) /\ r[i] = c[i - Len(a)]
  BY <1>n, <1>1
<1>4. ASSUME NEW i \in 1 .. Len(a) PROVE i \in 1 .. Len(r) /\ r[i] = a[i]
  BY <1>n, <1>1
<1>5. ASSUME NEW i \in 1 .. Len(c) PROVE Len(a) + i \in 1 .. Len(r) /\ r[Len(a) + i] = c[i]
  <2>1. Len(a) + i \in 1 .. Len(a) + Len(c) /\ ~(Len(a) + i <= Len(a)) /\ (Len(a) + i) - Len(a) = i
    BY <1>n
  <2>2. QED
    BY <1>1, <2>1
<1>6. Ascending(r)
  <2> SUFFICES ASSUME NEW i \in 1 .. Len(r), NEW j \in 1 .. Len(r), i < j PROVE r[i] < r[j]
    BY <1>2 DEF Ascending
  <2>1. CASE j <= Len(a)
    <3>1. i \in 1 .. Len(a) /\ j \in 1 .. Len(a) /\ r[i] = a[i] /\ r[j] = a[j]
      BY <1>n, <1>3, <2>1
    <3>2. QED
      BY <1>0, <3>1 DEF Ascending
  <2>2. CASE i > Len(a)
    <3>1. /\ i - Len(a) \in 1 .. Len(c) /\ j - Len(a) \in 1 .. Len(c) /\ i - Len(a) < j - Len(a)
          /\ r[i] = c[i - Len(a)] /\ r[j] = c[j - Len(a)]
      BY <1>n, <1>3, <2>2
    <3>2. QED
      BY <1>0, <3>1 DEF Ascending
  <2>3. CASE i <= Len(a) /\ j > Len(a)
    <3>1. i \in 1 .. Len(a) /\ j - Len(a) \in 1 .. Len(c) /\ r[i] = a[i] /\ r[j] = c[j - Len(a)]
      BY <1>n, <1>3, <2>3
    <3>2. a[i] \in ToSet(a) /\ c[j - Len(a)] \in ToSet(c)
      BY <1>0, <3>1
    <3>3. QED
      BY <3>1, <3>2 DEF Before
  <2>4. QED
    BY <1>n, <1>1, <2>1, <2>2, <2>3
<1>7. ToSet(r) = ToSet(a) \cup ToSet(c)
  <2>1. ASSUME NEW x \in ToSet(r) PROVE x \in ToSet(a) \cup ToSet(c)
    BY <1>0, <1>2, <1>3
  <2>2. ASSUME NEW x \in ToSet(a) PROVE x \in ToSet(r)
    BY <1>0, <1>2, <1>4
  <2>3. ASSUME NEW x \in ToSet(c) PROVE x \in ToSet(r)
    BY <1>0, <1>2, <1>5
  <2>4. QED
    BY <2>1, <2>2, <2>3
<1>8. QED
  BY <1>1, <1>4, <1>6, <1>7 DEF r

\* Each of n arrays ascends, and the keys of one are before those of the next.
AscendInRow(F, n) ==
    /\ \A i \in 1 .. n : Ascending(F[i])
    /\ \A i, j \in 1 .. n : i < j => Before(ToSet(F[i]), ToSet(F[j]))

\* A row of arrays that ascends, joined: the keys of them all, ascending.
LEMMA JoinAscends ==
    ASSUME NEW n \in Nat, NEW F, Arrays(F, n, Key), AscendInRow(F, n),
           NEW G, Stages(G, n, F, Key)
    PROVE  /\ G[n] \in Seq(Key) /\ Ascending(G[n])
           /\ ToSet(G[n]) = UNION {ToSet(F[j]) : j \in 1 .. n}
           /\ n # 0 => \A k \in 1 .. Len(F[1]) : k \in 1 .. Len(G[n]) /\ G[n][k] = F[1][k]
<1> DEFINE Begins(s) == \A k \in 1 .. Len(F[1]) : k \in 1 .. Len(s) /\ s[k] = F[1][k]
           S == {i \in 0 .. n : /\ Ascending(G[i]) /\ ToSet(G[i]) = UNION {ToSet(F[j]) : j \in 1 .. i}
                                /\ i # 0 => Begins(G[i])}
<1>1. G \in [0 .. n -> Seq(Key)] /\ G[0] = <<>> /\ \A i \in 1 .. n : G[i] = G[i - 1] \o F[i]
  BY DEF Stages
<1>2. 0 \in S
  <2>1. Ascending(<<>>) /\ ToSet(<<>>) = {} /\ UNION {ToSet(F[j]) : j \in 1 .. 0} = {} /\ 0 \in 0 .. n
    BY DEF Ascending, ToSet
  <2> HIDE DEF Begins
  <2>2. QED
    BY <1>1, <2>1
<1>3. ASSUME NEW i \in 0 .. n, i < n, i \in S PROVE i + 1 \in S
  <2>m. PICK m : m = i + 1
    OBVIOUS
  <2>1. /\ m \in 1 .. n /\ m - 1 = i /\ m \in 0 .. n /\ m # 0
        /\ (i = 0 => m = 1) /\ (i # 0 => i \in 1 .. n /\ 1 \in 1 .. n)
    BY <1>3, <2>m
  <2>2. /\ G[m] = G[i] \o F[m] /\ G[i] \in Seq(Key) /\ F[m] \in Seq(Key) /\ Ascending(F[m])
        /\ Ascending(G[i]) /\ ToSet(G[i]) = UNION {ToSet(F[j]) : j \in 1 .. i} /\ (i # 0 => Begins(G[i]))
    <3> HIDE DEF Begins
    <3>1. QED
      BY <1>1, <1>3, <2>1 DEF Arrays, AscendInRow
  <2>3. Before(ToSet(G[i]), ToSet(F[m]))
    <3>1. ASSUME NEW x \in ToSet(G[i]), NEW y \in ToSet(F[m]) PROVE x < y
      <4>1. PICK j \in 1 .. i : x \in ToSet(F[j])
        BY <2>2
      <4>2. j \in 1 .. n /\ j < m
        BY <2>m
      <4>3. QED
        BY <2>1, <4>1, <4>2 DEF AscendInRow, Before
    <3>2. QED
      BY <3>1 DEF Before
  <2>g. PICK g : g = G[i]
    OBVIOUS
  <2>f. PICK f : f = F[m]
    OBVIOUS
  <2>4. /\ g \o f \in Seq(Key) /\ Len(g \o f) = Len(g) + Len(f) /\ Ascending(g \o f)
        /\ ToSet(g \o f) = ToSet(g) \cup ToSet(f)
        /\ \A k \in 1 .. Len(g) : (g \o f)[k] = g[k]
    BY <2>2, <2>3, <2>g, <2>f, JoinTwo
  <2>5. G[m] = g \o f
    BY <2>2, <2>g, <2>f
  <2>6. ASSUME NEW x PROVE x \in ToSet(G[m]) <=> \E j \in 1 .. m : x \in ToSet(F[j])
    <3>1. \A j : j \in 1 .. m <=> j \in 1 .. i \/ j = m
      BY <2>m
    <3>2. x \in ToSet(G[m]) <=> x \in ToSet(G[i]) \/ x \in ToSet(F[m])
      BY <2>4, <2>5, <2>g, <2>f, Zenon
    <3>3. x \in ToSet(G[i]) <=> \E j \in 1 .. i : x \in ToSet(F[j])
      BY <2>2, Zenon
    <3>4. QED
      BY <3>1, <3>2, <3>3, Zenon
  <2>7. ToSet(G[m]) = UNION {ToSet(F[j]) : j \in 1 .. m}
    BY <2>6, Zenon
  <2>8. Begins(G[m])
    <3>1. CASE i = 0
      <4>1. g = <<>> /\ g \o f = f /\ f = F[1]
        <5>1. g = <<>> /\ m = 1
          BY <1>1, <2>1, <2>g, <3>1
        <5>2. g \o f = f
          BY <2>2, <2>f, <5>1
        <5>3. QED
          BY <2>f, <5>1, <5>2
      <4>2. QED
        BY <2>5, <4>1
    <3>2. CASE i # 0
      <4>1. ASSUME NEW k \in 1 .. Len(F[1])
            PROVE  k \in 1 .. Len(g \o f) /\ (g \o f)[k] = F[1][k]
        <5>1. k \in 1 .. Len(g) /\ g[k] = F[1][k]
          BY <2>2, <2>g, <3>2
        <5>2. Len(g) \in Nat /\ Len(f) \in Nat
          BY <2>2, <2>g, <2>f
        <5>3. QED
          BY <2>4, <5>1, <5>2
      <4>2. QED
        BY <2>5, <4>1
    <3>3. QED
      BY <3>1, <3>2
  <2> HIDE DEF Begins
  <2>9. QED
    BY <2>1, <2>4, <2>5, <2>7, <2>8, <2>m
<1>4. S = 0 .. n
  <2>1. S \in SUBSET (0 .. n)
    OBVIOUS
  <2> HIDE DEF S
  <2>2. QED
    BY <1>2, <1>3, <2>1, UpTo
<1> HIDE DEF S
<1>5. n \in S
  <2>1. n \in 0 .. n
    OBVIOUS
  <2>2. QED
    BY <1>4, <2>1
<1>6. G[n] \in Seq(Key)
  BY <1>1
<1>7. QED
  BY <1>5, <1>6 DEF S

\* None of the arrays is empty and one is full: how many keys there are.
LEMMA JoinIsLong ==
    ASSUME NEW n \in Nat, NEW F, Arrays(F, n, Key), NEW G, Stages(G, n, F, Key),
           \A i \in 1 .. n : F[i] # <<>>,
           NEW t \in 1 .. n, NEW m \in Nat, Len(F[t]) = m
    PROVE  Len(G[n]) >= m + (n - 1)
<1> DEFINE Long(i) == IF i < t THEN Len(G[i]) >= i ELSE Len(G[i]) >= m + (i - 1)
           S == {i \in 0 .. n : Long(i)}
<1>1. G \in [0 .. n -> Seq(Key)] /\ G[0] = <<>> /\ \A i \in 1 .. n : G[i] = G[i - 1] \o F[i]
  BY DEF Stages
<1>2. 0 \in S
  <2>1. Len(G[0]) = 0
    BY <1>1
  <2>2. QED
    BY <2>1
<1>3. ASSUME NEW i \in 0 .. n, i < n, i \in S PROVE i + 1 \in S
  <2>k. PICK k : k = i + 1
    OBVIOUS
  <2>1. k \in 1 .. n /\ k - 1 = i /\ k \in 0 .. n
    BY <1>3, <2>k
  <2>2. G[k] = G[i] \o F[k] /\ G[i] \in Seq(Key) /\ F[k] \in Seq(Key) /\ F[k] # <<>>
    BY <1>1, <2>1 DEF Arrays
  <2>3. Len(G[k]) = Len(G[i]) + Len(F[k])
    BY <2>2, ConcatProperties
  <2>4. Len(G[i]) \in Nat /\ Len(F[k]) \in Nat /\ Len(F[k]) # 0
    BY <2>2, EmptySeq, LenProperties
  <2>5. k = t => Len(F[k]) = m
    OBVIOUS
  <2>6. Long(i)
    BY <1>3
  <2>7. Long(k)
    <3>1. PICK p, q, r : p = Len(G[i]) /\ q = Len(F[k]) /\ r = Len(G[k])
      OBVIOUS
    <3>2. p \in Nat /\ q \in Nat /\ q # 0 /\ r = p + q /\ (k = t => q = m)
          /\ IF i < t THEN p >= i ELSE p >= m + (i - 1)
      BY <2>3, <2>4, <2>5, <2>6, <3>1
    <3>3. IF k < t THEN r >= k ELSE r >= m + (k - 1)
      BY <2>k, <3>2
    <3>4. QED
      BY <3>1, <3>3
  <2> HIDE DEF Long
  <2>8. QED
    BY <2>1, <2>7, <2>k
<1>4. S = 0 .. n
  <2>1. S \in SUBSET (0 .. n)
    OBVIOUS
  <2> HIDE DEF S
  <2>2. QED
    BY <1>2, <1>3, <2>1, UpTo
<1>5. n \in S
  BY <1>4
<1>6. ~(n < t)
  OBVIOUS
<1>7. QED
  BY <1>5, <1>6

-----------------------------------------------------------------------------
(* What a retraining finds. *)

\* Under a root no array in use is empty.
Filled == HasRoot => \A c \in live : slotkey[c] # <<>>

\* A bin that waits for its retraining has a full root, and below it a full
\* array.
Retrained ==
    is_retraining =>
        /\ HasRoot /\ Intact /\ RootFull
        /\ \E slot \in 1 .. Len(children) : IsFull(children[slot])

\* An operation leaves every array as it is, or with keys in it.
LEMMA FilledStays ==
    ASSUME Filled, HasRoot' => HasRoot,
           \A c \in live' : slotkey'[c] # <<>> \/ (c \in live /\ slotkey'[c] = slotkey[c])
    PROVE  Filled'
BY DEF Filled

\* Where find_lower puts a key in an array.
LEMMA LowerIs ==
    ASSUME NEW s \in Seq(Key), NEW k \in Key, NEW n \in Lower(s, k)
    PROVE  n \in 1 .. Len(s) + 1
BY DEF Lower

\* The steps that put a key into an array.
LEMMA InsertFills ==
    ASSUME IInv, Filled, NEW key \in Key, NEW val \in Val,
           InsertInChild(key, val) \/ AppendToLeft(key, val) \/ ShiftToLeft(key, val)
    PROVE  Filled'
<1>0. TypeOK /\ RowInv /\ Intact /\ UNCHANGED <<live, children>> /\ live \subseteq Bin
      /\ slotkey \in [Bin -> Seq(Key)]
  BY DEF InsertInChild, AppendToLeft, ShiftToLeft, Defined, IInv, TypeOK, root
<1>1. HasRoot' <=> HasRoot
  BY <1>0 DEF HasRoot
<1>2. CASE InsertInChild(key, val)
  <2>1. PICK b \in live : \E cslot \in Lower(slotkey[b], key) :
            slotkey' = [slotkey EXCEPT ![b] = InsertAt(@, cslot, key)]
    BY <1>2 DEF InsertInChild
  <2>2. PICK cslot \in Lower(slotkey[b], key) : slotkey' = [slotkey EXCEPT ![b] = InsertAt(@, cslot, key)]
    BY <2>1
  <2>3. InsertAt(slotkey[b], cslot, key) # <<>>
    <3>1. PICK s : s = slotkey[b]
      OBVIOUS
    <3>2. s \in Seq(Key) /\ cslot \in 1 .. Len(s) + 1
      BY <1>0, <3>1, LowerIs
    <3>3. InsertAt(s, cslot, key) \in Seq(Key) /\ Len(InsertAt(s, cslot, key)) = Len(s) + 1
      BY <3>2, InsertAtIs
    <3>4. Len(s) + 1 # 0
      BY <3>2, LenProperties
    <3>5. QED
      BY <3>1, <3>3, <3>4, EmptySeq
  <2>4. \A c \in live : slotkey'[c] = IF c = b THEN InsertAt(slotkey[b], cslot, key) ELSE slotkey[c]
    BY <1>0, <2>2
  <2>5. QED
    BY <1>0, <1>1, <2>3, <2>4, FilledStays
<1>3. CASE AppendToLeft(key, val)
  <2>1. PICK slot \in Lower(rootkey, key) :
            /\ IsFull(children[slot]) /\ CanBorrow(slot)
            /\ slotkey' = [slotkey EXCEPT ![children[slot - 1]] = Append(@, key)]
    BY <1>3 DEF AppendToLeft
  <2>2. HasRoot
    BY <1>3 DEF AppendToLeft
  <2>3. children[slot - 1] \in live
    BY <1>0, <2>1, <2>2, NeighbourIs
  <2>4. PICK b : b = children[slot - 1]
    OBVIOUS
  <2>5. Append(slotkey[b], key) # <<>>
    <3>1. PICK s : s = slotkey[b]
      OBVIOUS
    <3>2. s \in Seq(Key)
      BY <1>0, <2>3, <2>4, <3>1
    <3>3. Append(s, key) # <<>>
      BY <3>2, AppendProperties
    <3>4. QED
      BY <3>1, <3>3
  <2>6. \A c \in live : slotkey'[c] = IF c = b THEN Append(slotkey[b], key) ELSE slotkey[c]
    BY <1>0, <2>1, <2>3, <2>4
  <2>7. QED
    BY <1>0, <1>1, <2>5, <2>6, FilledStays
<1>4. CASE ShiftToLeft(key, val)
  <2>0. HasRoot
    BY <1>4 DEF ShiftToLeft
  <2>1. PICK slot \in Lower(rootkey, key) :
            /\ IsFull(children[slot]) /\ CanBorrow(slot)
            /\ slotkey[children[slot]][1] < key
            /\ \E cslot \in Lower(slotkey[children[slot]], key) :
                slotkey' = [slotkey EXCEPT
                    ![children[slot - 1]] = Append(@, slotkey[children[slot]][1]),
                    ![children[slot]] = InsertAt(Tail(@), cslot - 1, key)]
    BY <1>4 DEF ShiftToLeft
  <2>2. PICK cslot \in Lower(slotkey[children[slot]], key) :
            slotkey' = [slotkey EXCEPT
                ![children[slot - 1]] = Append(@, slotkey[children[slot]][1]),
                ![children[slot]] = InsertAt(Tail(@), cslot - 1, key)]
    BY <2>1
  <2>b. PICK b : b = children[slot - 1]
    OBVIOUS
  <2>c. PICK c : c = children[slot]
    OBVIOUS
  <2>3. b \in live /\ c \in live /\ b # c /\ slotkey[c] # <<>> /\ c \in Bin /\ b \in Bin
    BY <1>0, <2>0, <2>1, <2>b, <2>c, NeighbourIs
  <2>f. PICK f : f = slotkey[c][1]
    OBVIOUS
  <2>4. PICK a : a = slotkey[b]
    OBVIOUS
  <2>5. PICK s : s = slotkey[c]
    OBVIOUS
  <2>6. a \in Seq(Key) /\ s \in Seq(Key) /\ s # <<>> /\ f = s[1] /\ f < key
    BY <1>0, <2>1, <2>3, <2>4, <2>5, <2>c, <2>f
  <2>7. Len(s) \in Nat \ {0} /\ f \in Key /\ Tail(s) \in Seq(Key) /\ Len(Tail(s)) = Len(s) - 1
    BY <2>6, EmptySeq, HeadTailProperties, ElementOfSeq
  <2>8. cslot \in 1 .. Len(s) + 1 /\ cslot # 1
    <3>1. cslot \in 1 .. Len(s) + 1
      BY <2>5, <2>6, <2>c, LowerIs
    <3>2. cslot = 1 => key <= s[1]
      BY <2>5, <2>7, <2>c DEF Lower
    <3>3. key \in Int /\ f \in Int
      BY <2>7, KeyAssumption DEF KeyAssumption
    <3>4. QED
      BY <2>6, <3>1, <3>2, <3>3
  <2>9. Append(a, f) # <<>>
    BY <2>6, <2>7, AppendProperties
  <2>10. InsertAt(Tail(s), cslot - 1, key) # <<>>
    <3>1. PICK t : t = Tail(s)
      OBVIOUS
    <3>2. PICK m : m = cslot - 1
      OBVIOUS
    <3>3. t \in Seq(Key) /\ m \in 1 .. Len(t) + 1 /\ Len(t) \in Nat
      BY <2>7, <2>8, <3>1, <3>2
    <3>4. InsertAt(t, m, key) \in Seq(Key) /\ Len(InsertAt(t, m, key)) = Len(t) + 1
      BY <3>3, InsertAtIs
    <3>5. Len(t) + 1 # 0
      BY <3>3
    <3>6. QED
      BY <3>1, <3>2, <3>4, <3>5, EmptySeq
  <2>11. slotkey'[b] # <<>> /\ slotkey'[c] # <<>> /\ \A x \in live : x \notin {b, c} => slotkey'[x] = slotkey[x]
    <3>1. slotkey' = [slotkey EXCEPT ![b] = Append(slotkey[b], slotkey[c][1]),
                                     ![c] = InsertAt(Tail(slotkey[c]), cslot - 1, key)]
      <4>1. [slotkey EXCEPT ![b] = Append(@, slotkey[c][1])][c] = slotkey[c]
        BY <1>0, <2>3
      <4>2. QED
        BY <2>2, <2>b, <2>c, <4>1
    <3>2. slotkey' = [slotkey EXCEPT ![b] = Append(a, f), ![c] = InsertAt(Tail(s), cslot - 1, key)]
      BY <2>4, <2>5, <2>f, <3>1
    <3>5. slotkey'[b] = Append(a, f) /\ slotkey'[c] = InsertAt(Tail(s), cslot - 1, key)
          /\ \A x \in live : x \notin {b, c} => slotkey'[x] = slotkey[x]
      BY <1>0, <2>3, <3>2
    <3>6. QED
      BY <2>9, <2>10, <3>5
  <2>12. QED
    BY <1>0, <1>1, <2>11, FilledStays
<1>5. QED
  BY <1>2, <1>3, <1>4

\* Both halves of an array that is split have keys.
LEMMA HalvesAreFilled ==
    ASSUME TypeOK, NEW b \in live, Ascending(slotkey[b]), IsFull(b), NEW key \in Key, NEW val \in Val,
           NEW cslot \in Lower(slotkey[b], key), ~At(b, cslot, key),
           NEW new \in Bin \ live, Split(b, new, cslot, key, val)
    PROVE  /\ live' = live \cup {new} /\ slotkey'[b] # <<>> /\ slotkey'[new] # <<>>
           /\ \A c \in live : c # b => slotkey'[c] = slotkey[c]
<1> DEFINE s == slotkey[b]
           d == slotdata[b]
           L == LeftHalf(s, cslot, key)
           R == RightHalf(s, cslot, key)
<1>0. live \subseteq Bin /\ slotkey \in [Bin -> Seq(Key)] /\ new \in Bin /\ b \in Bin /\ b # new
  BY DEF TypeOK
<1>1. /\ s \in Seq(Key) /\ Ascending(s) /\ Len(s) = ChildSlotMax
      /\ cslot \in Lower(s, key) /\ ~(cslot <= Len(s) /\ s[cslot] = key)
      /\ d \in Seq(Val) /\ Len(d) = Len(s)
  BY <1>0, ArraysAre, FullIs DEF At, Used
<1>2. live' = live \cup {new} /\ slotkey' = [slotkey EXCEPT ![b] = L, ![new] = R]
  BY DEF Split, Halve
<1>3. L # <<>> /\ R # <<>>
  <2> HIDE DEF s, d
  <2>1. QED
    BY <1>1, HalvesAre
<1> HIDE DEF L, R
<1>4. slotkey'[b] = L /\ slotkey'[new] = R /\ \A c \in live : c # b => slotkey'[c] = slotkey[c]
  BY <1>0, <1>2
<1>5. QED
  BY <1>2, <1>3, <1>4

\* Splitting an array leaves no empty half.
LEMMA SplitFills ==
    ASSUME IInv, Filled, NEW key \in Key, NEW val \in Val,
           SplitSingle(key, val) \/ SplitChild(key, val)
    PROVE  Filled'
<1>1. TypeOK /\ RowInv /\ Intact
  BY DEF SplitSingle, SplitChild, Defined, IInv
<1>2. CASE SplitSingle(key, val)
  <2>1. ~HasRoot /\ headbin # NoBin /\ IsFull(headbin)
    BY <1>2 DEF SplitSingle
  <2>2. PICK cslot \in Lower(slotkey[headbin], key), new \in Bin \ live :
            ~At(headbin, cslot, key) /\ Split(headbin, new, cslot, key, val)
    BY <1>2 DEF SplitSingle
  <2>3. live = {headbin} /\ Ascending(slotkey[headbin])
    <3>1. Len(Row) = 1 /\ Row[1] = headbin
      BY <1>1, <2>1, RowIs
    <3>2. QED
      BY <1>1, <3>1 DEF RowInv
  <2>4. live' = live \cup {new} /\ slotkey'[headbin] # <<>> /\ slotkey'[new] # <<>>
    BY <1>1, <2>1, <2>2, <2>3, HalvesAreFilled
  <2>5. QED
    BY <2>3, <2>4 DEF Filled
<1>3. CASE SplitChild(key, val)
  <2>1. HasRoot
    BY <1>3 DEF SplitChild
  <2>2. PICK slot \in Lower(rootkey, key) :
            /\ IsFull(children[slot])
            /\ \E cslot \in Lower(slotkey[children[slot]], key), new \in Bin \ live :
                ~At(children[slot], cslot, key) /\ Split(children[slot], new, cslot, key, val)
    BY <1>3 DEF SplitChild
  <2>3. PICK cslot \in Lower(slotkey[children[slot]], key), new \in Bin \ live :
                ~At(children[slot], cslot, key) /\ Split(children[slot], new, cslot, key, val)
    BY <2>2
  <2>4. children[slot] \in live /\ Ascending(slotkey[children[slot]])
    <3>1. slot \in 1 .. Len(Row) /\ Row = children
      <4>1. slot \in 1 .. Len(rootkey) + 1
        BY DEF Lower
      <4>2. QED
        BY <1>1, <2>1, <4>1, RowIs
    <3>2. QED
      BY <1>1, <3>1 DEF RowInv
  <2>5. PICK b : b = children[slot]
    OBVIOUS
  <2>6. /\ live' = live \cup {new} /\ slotkey'[b] # <<>> /\ slotkey'[new] # <<>>
        /\ \A c \in live : c # b => slotkey'[c] = slotkey[c]
    BY <1>1, <2>2, <2>3, <2>4, <2>5, HalvesAreFilled
  <2>7. QED
    BY <2>1, <2>6, FilledStays
<1>4. QED
  BY <1>2, <1>3

\* The steps that take a key out of an array.
LEMMA RemoveFills ==
    ASSUME IInv, Filled, NEW key \in Key,
           RemoveFromChild(key) \/ RemoveSingle(key) \/ RemoveChild(key)
    PROVE  Filled'
<1>0. TypeOK /\ live \subseteq Bin /\ slotkey \in [Bin -> Seq(Key)]
  BY DEF IInv, TypeOK
<1>1. CASE RemoveFromChild(key)
  <2>1. PICK slot \in 1 .. Len(rootkey) + 1, b \in live :
            /\ Used(b) > 1
            /\ \E cslot \in Lower(slotkey[b], key) :
                At(b, cslot, key) /\ slotkey' = [slotkey EXCEPT ![b] = RemoveAt(@, cslot)]
    BY <1>1 DEF RemoveFromChild
  <2>2. PICK cslot \in Lower(slotkey[b], key) :
            At(b, cslot, key) /\ slotkey' = [slotkey EXCEPT ![b] = RemoveAt(@, cslot)]
    BY <2>1
  <2>3. RemoveAt(slotkey[b], cslot) # <<>>
    <3>1. PICK s : s = slotkey[b]
      OBVIOUS
    <3>2. s \in Seq(Key) /\ cslot \in 1 .. Len(s) /\ Len(s) > 1 /\ Len(s) \in Nat
      <4>1. s \in Seq(Key) /\ cslot \in 1 .. Len(s) + 1 /\ cslot <= Len(s) /\ Len(s) > 1
        BY <1>0, <2>1, <2>2, <3>1, LowerIs DEF At, Used
      <4>2. QED
        BY <4>1
    <3>3. RemoveAt(s, cslot) \in Seq(Key) /\ Len(RemoveAt(s, cslot)) = Len(s) - 1
      <4>1. s \in Seq(Key) /\ cslot \in 1 .. Len(s)
        BY <3>2
      <4>2. /\ RemoveAt(s, cslot) \in Seq(Key) /\ Len(RemoveAt(s, cslot)) = Len(s) - 1
            /\ \A j \in 1 .. Len(s) - 1 : RemoveAt(s, cslot)[j] = IF j < cslot THEN s[j] ELSE s[j + 1]
        BY <4>1, RemoveAtIs
      <4>3. QED
        BY <4>2
    <3>4. Len(s) - 1 # 0
      <4>1. PICK m : m = Len(s)
        OBVIOUS
      <4>2. m \in Nat /\ m > 1
        BY <3>2, <4>1
      <4>3. QED
        BY <4>1, <4>2
    <3>5. QED
      BY <3>1, <3>3, <3>4, EmptySeq
  <2>4. \A c \in live : slotkey'[c] = IF c = b THEN RemoveAt(slotkey[b], cslot) ELSE slotkey[c]
    BY <1>0, <2>2
  <2>5. UNCHANGED <<live, children>>
    BY <1>1 DEF RemoveFromChild
  <2>6. QED
    BY <2>3, <2>4, <2>5, FilledStays DEF HasRoot
<1>2. CASE RemoveSingle(key)
  <2>1. ~HasRoot'
    BY <1>2 DEF RemoveSingle, HasRoot, root
  <2>2. QED
    BY <2>1 DEF Filled
<1>3. CASE RemoveChild(key)
  <2>1. PICK slot : Free(children[slot])
    BY <1>3 DEF RemoveChild
  <2>2. HasRoot
    BY <1>3 DEF RemoveChild
  <2>3. \A c \in live' : c \in live /\ slotkey'[c] = slotkey[c]
    BY <1>0, <2>1 DEF Free
  <2>4. QED
    BY <2>2, <2>3, FilledStays
<1>4. QED
  BY <1>1, <1>2, <1>3

\* What a bin that asks to be retrained needs.
RetrainInv == IInv /\ Filled /\ Retrained

\* No step leaves an empty array under a root.
LEMMA FilledNext == IInv /\ Filled /\ [Next]_vars => Filled'
<1> SUFFICES ASSUME IInv, Filled, [Next]_vars PROVE Filled'
  OBVIOUS
<1>1. ASSUME UNCHANGED <<live, children, slotkey>> PROVE Filled'
  BY <1>1 DEF Filled, HasRoot
<1>2. CASE UNCHANGED vars
  BY <1>1, <1>2 DEF vars, root, data
<1>3. ASSUME NEW key \in Key, FindHit(key) \/ FindMiss(key) \/ RemoveMiss(key) PROVE Filled'
  BY <1>1, <1>3 DEF FindHit, FindMiss, RemoveMiss, root, data
<1>4. ASSUME NEW key \in Key, RemoveKey(key) PROVE Filled'
  BY <1>3, <1>4, RemoveFills DEF RemoveKey
<1>5. ASSUME NEW key \in Key, NEW val \in Val, UpdateHit(key, val) \/ UpdateMiss(key, val) \/ Refuse(key, val)
      PROVE  Filled'
  BY <1>1, <1>5 DEF UpdateHit, UpdateMiss, Refuse, root, data
<1>6. ASSUME NEW key \in Key, NEW val \in Val, Insert(key, val) PROVE Filled'
  <2>1. CASE InsertDuplicate(key, val) \/ NeedRetrain(key, val)
    BY <1>1, <2>1 DEF InsertDuplicate, NeedRetrain, root, data
  <2>2. CASE InsertFirst(key, val)
    <3>1. ~HasRoot'
      BY <2>2 DEF InsertFirst, HasRoot, root
    <3>2. QED
      BY <3>1 DEF Filled
  <2>3. CASE InsertInChild(key, val) \/ AppendToLeft(key, val) \/ ShiftToLeft(key, val)
    BY <2>3, InsertFills
  <2>4. CASE SplitSingle(key, val) \/ SplitChild(key, val)
    BY <2>4, SplitFills
  <2>5. QED
    BY <1>6, <2>1, <2>2, <2>3, <2>4 DEF Insert
<1>7. QED
  BY <1>2, <1>3, <1>4, <1>5, <1>6 DEF Next

\* Only NeedRetrain sets the flag, and after it no step changes the arrays.
LEMMA RetrainedNext == IInv /\ Retrained /\ [Next]_vars => Retrained'
<1> SUFFICES ASSUME IInv, Retrained, [Next]_vars PROVE Retrained'
  OBVIOUS
<1>1. ASSUME UNCHANGED <<live, data, root, is_retraining>> PROVE Retrained'
  BY <1>1 DEF Retrained, HasRoot, Intact, RootFull, IsFull, Used, root, data
<1>2. ASSUME ~is_retraining, UNCHANGED is_retraining PROVE Retrained'
  BY <1>2 DEF Retrained
<1>3. CASE UNCHANGED vars
  BY <1>1, <1>3 DEF vars
<1>4. ASSUME NEW key \in Key, FindHit(key) \/ FindMiss(key) PROVE Retrained'
  BY <1>1, <1>4 DEF FindHit, FindMiss
<1>5. ASSUME NEW key \in Key, RemoveKey(key) PROVE Retrained'
  BY <1>2, <1>5 DEF RemoveKey, RemoveMiss, RemoveFromChild, RemoveSingle, RemoveChild, Defined
<1>6. ASSUME NEW key \in Key, NEW val \in Val, UpdateMiss(key, val) \/ Refuse(key, val) PROVE Retrained'
  BY <1>1, <1>6 DEF UpdateMiss, Refuse
<1>7. ASSUME NEW key \in Key, NEW val \in Val, UpdateHit(key, val) PROVE Retrained'
  BY <1>2, <1>7 DEF UpdateHit, Defined
<1>8. ASSUME NEW key \in Key, NEW val \in Val, NeedRetrain(key, val) PROVE Retrained'
  <2>1. PICK slot \in Lower(rootkey, key) : IsFull(children[slot])
    BY <1>8 DEF NeedRetrain
  <2>2. HasRoot /\ Intact /\ RootFull /\ UNCHANGED <<live, data, root>> /\ TypeOK
    BY <1>8 DEF NeedRetrain, Defined, IInv
  <2>3. slot \in 1 .. Len(children)
    <3>1. slot \in 1 .. Len(rootkey) + 1 /\ Len(children) = Len(rootkey) + 1
      BY <2>2 DEF Lower, TypeOK
    <3>2. QED
      BY <3>1
  <2>4. QED
    BY <2>1, <2>2, <2>3 DEF Retrained, HasRoot, Intact, RootFull, IsFull, Used, root, data
<1>9. ASSUME NEW key \in Key, NEW val \in Val, Insert(key, val), ~NeedRetrain(key, val) PROVE Retrained'
  BY <1>2, <1>9 DEF Insert, InsertDuplicate, InsertFirst, InsertInChild, AppendToLeft, ShiftToLeft,
     SplitSingle, SplitChild, Defined
<1>10. QED
  BY <1>3, <1>4, <1>5, <1>6, <1>7, <1>8, <1>9 DEF Next

\* A new bin has no root and asks for nothing.
LEMMA InitRetrain == Init => RetrainInv
<1> SUFFICES ASSUME Init PROVE RetrainInv
  OBVIOUS
<1>1. IInv
  BY InitIInv
<1>2. ~HasRoot /\ ~is_retraining
  BY DEF Init, HasRoot
<1>3. QED
  BY <1>1, <1>2 DEF RetrainInv, Filled, Retrained

\* The arrays of an intact bin, joined from left to right, ascend.
LEMMA JoinedIs ==
    ASSUME TypeOK, RowInv, HasRoot
    PROVE  \E F, G : /\ Arrays(F, Len(Row), Key) /\ AscendInRow(F, Len(Row)) /\ Stages(G, Len(Row), F, Key)
                     /\ \A i \in 1 .. Len(Row) : F[i] = slotkey[Row[i]]
                     /\ Resorted = G[Len(Row)]
<1>n. PICK n : n = Len(Row)
  OBVIOUS
<1>c. PICK c : c = children
  OBVIOUS
<1>1. n \in Nat /\ Row = c /\ c \in Seq(Bin) /\ \A i \in 1 .. n : Row[i] \in Bin
  BY <1>n, <1>c, RowIs
<1>f. PICK F : F = [i \in 1 .. n |-> slotkey[c[i]]]
  OBVIOUS
<1>2. DOMAIN c = 1 .. n /\ Arrays(F, n, Key) /\ \A i \in 1 .. n : F[i] = slotkey[c[i]]
  BY <1>1, <1>n, <1>f DEF TypeOK, Arrays
\* the fold is where the equation that defines it leads
<1> DEFINE Eq(g) == g = [s \in SUBSET (DOMAIN c) |->
                            IF s = {} THEN <<>> ELSE g[s \ {Max(s)}] \o slotkey[c[Max(s)]]]
           h == CHOOSE g : Eq(g)
<1>3. Resorted = h[DOMAIN c]
  BY <1>c DEF Resorted, FoldLeft, MapThenFoldSet
<1>4. ASSUME NEW g PROVE Eq(g) <=> Joint(g, n, F)
  <2>1. ASSUME NEW s \in SUBSET (1 .. n)
        PROVE  (IF s = {} THEN <<>> ELSE g[s \ {Max(s)}] \o slotkey[c[Max(s)]]) = JoinOf(s, g, F)
    <3>1. s # {} => F[Max(s)] = slotkey[c[Max(s)]]
      BY <1>1, <1>2, MaxOf
    <3>2. QED
      BY <3>1 DEF JoinOf
  <2>2. QED
    BY <1>2, <2>1 DEF Joint
<1> HIDE DEF Eq
<1>e. Joint(h, n, F)
  <2>1. \E g : Eq(g)
    BY <1>1, <1>2, <1>4, JoinExists
  <2>2. QED
    BY <1>4, <2>1
<1> HIDE DEF h
<1>g. PICK g : g = h
  OBVIOUS
<1>j. Joint(g, n, F)
  BY <1>e, <1>g
<1>5. PICK G : Stages(G, n, F, Key) /\ G[n] = g[1 .. n]
  BY <1>1, <1>2, <1>j, JoinIs
<1>r. Resorted = G[n]
  BY <1>2, <1>3, <1>5, <1>g
<1>6. \A i \in 1 .. n : F[i] = slotkey[Row[i]]
  BY <1>1, <1>2
<1>8. AscendInRow(F, n)
  BY <1>6, <1>n DEF RowInv, AscendInRow, Keys
<1>9. QED
  BY <1>2, <1>5, <1>6, <1>8, <1>n, <1>r

\* So the arrays of a bin that waits are in order, and enough.
LEMMA RetrainIs == RetrainInv => RetrainInput
<1> SUFFICES ASSUME RetrainInv, is_retraining
             PROVE  HasRoot /\ Ascending(Resorted) /\ Len(Resorted) >= ChildSlotMax + RootSlotMax
  BY DEF RetrainInput
<1>1. /\ TypeOK /\ RowInv /\ HasRoot /\ Filled /\ RootFull
      /\ \E slot \in 1 .. Len(children) : IsFull(children[slot])
  BY DEF RetrainInv, IInv, Retrained
<1>n. PICK n : n = Len(Row)
  OBVIOUS
<1>2. n \in Nat /\ Row = children /\ n = Len(children) /\ n = RootSlotMax + 1
      /\ (\A i \in 1 .. n : Row[i] \in live /\ Row[i] \in Bin)
  <2>1. n \in Nat /\ Row = children /\ n = Len(rootkey) + 1 /\ \A i \in 1 .. n : Row[i] \in Bin
    BY <1>1, <1>n, RowIs
  <2>2. QED
    BY <1>1, <1>n, <2>1 DEF RootFull, RowInv
<1>3. PICK F, G : /\ Arrays(F, n, Key) /\ AscendInRow(F, n) /\ Stages(G, n, F, Key)
                  /\ \A i \in 1 .. n : F[i] = slotkey[Row[i]]
                  /\ Resorted = G[n]
  BY <1>1, <1>n, JoinedIs
<1>4. G[n] \in Seq(Key) /\ Ascending(G[n])
  BY <1>2, <1>3, JoinAscends
<1>5. PICK t \in 1 .. n : IsFull(children[t])
  BY <1>1, <1>2
<1>6. Len(F[t]) = ChildSlotMax
  BY <1>2, <1>3, <1>5 DEF IsFull, Used
<1>7. \A i \in 1 .. n : F[i] # <<>>
  BY <1>1, <1>2, <1>3 DEF Filled
<1>8. ChildSlotMax \in Nat /\ RootSlotMax \in Nat
  BY SlotAssumption
<1>m. PICK m : m = ChildSlotMax
  OBVIOUS
<1>9. Len(G[n]) >= m + (n - 1)
  <2>1. m \in Nat /\ Len(F[t]) = m
    BY <1>6, <1>8, <1>m
  <2>2. QED
    BY <1>2, <1>3, <1>7, <2>1, JoinIsLong
<1>10. n - 1 = RootSlotMax
  BY <1>2, <1>8
<1>11. QED
  BY <1>1, <1>3, <1>4, <1>9, <1>10, <1>m

-----------------------------------------------------------------------------
(* What a scan finds. *)

\* In an ascending array there are as many keys as places, from any place on.
LEMMA CountFrom ==
    ASSUME NEW a \in Seq(Key), Ascending(a), NEW from \in 1 .. Len(a)
    PROVE  /\ IsFiniteSet({a[i] : i \in from .. Len(a)})
           /\ Cardinality({a[i] : i \in from .. Len(a)}) = Len(a) - from + 1
<1> DEFINE D == from .. Len(a)
           T == {a[i] : i \in D}
           f == [i \in D |-> a[i]]
<1>0. Len(a) \in Nat /\ DOMAIN a = 1 .. Len(a) /\ \A i \in 1 .. Len(a) : a[i] \in Int
  BY KeysAreNumbers
<1>1. IsFiniteSet(D) /\ Cardinality(D) = Len(a) - from + 1
  <2>1. from \in Int /\ Len(a) \in Int /\ ~(from > Len(a))
    BY <1>0
  <2>2. IsFiniteSet(D) /\ Cardinality(D) = IF from > Len(a) THEN 0 ELSE Len(a) - from + 1
    BY <2>1, FS_Interval
  <2>3. QED
    BY <2>1, <2>2
<1>2. \A i, j \in D : i # j => a[i] # a[j]
  <2> SUFFICES ASSUME NEW i \in D, NEW j \in D, i # j PROVE a[i] # a[j]
    OBVIOUS
  <2>1. i \in 1 .. Len(a) /\ j \in 1 .. Len(a) /\ (i < j \/ j < i)
    BY <1>0
  <2>2. a[i] \in Int /\ a[j] \in Int /\ (a[i] < a[j] \/ a[j] < a[i])
    BY <1>0, <2>1 DEF Ascending
  <2>3. QED
    BY <2>2
<1> HIDE DEF D
<1>3. f \in [D -> T] /\ \A i \in D : f[i] = a[i]
  OBVIOUS
<1> HIDE DEF f
<1>4. f \in Injection(D, T)
  BY <1>2, <1>3 DEF Injection, IsInjective
<1>5. f \in Surjection(D, T)
  <2>1. \A x \in T : \E i \in D : f[i] = x
    BY <1>3
  <2>2. QED
    BY <1>3, <2>1 DEF Surjection
<1> HIDE DEF T
<1>6. IsFiniteSet(T) /\ Cardinality(T) = Cardinality(D)
  BY <1>1, <1>4, <1>5, FS_Surjection
<1>7. QED
  BY <1>1, <1>6 DEF T, D

\* A place of an array before which the keys are below the key, and from which on
\* they are not; the n entries of an array from a place on, or as many as it has.
Splits(a, from, key) ==
    \A i \in 1 .. Len(a) : (i < from => a[i] < key) /\ (i >= from => key <= a[i])
Cut(a, from, n) == SubSeq(a, from, IF from + n - 1 < Len(a) THEN from + n - 1 ELSE Len(a))

\* The keys of a set that are not below a key, and what a scan of n keys owes.
NotBelow(S, key) == {k \in S : key <= k}
Smallest(out, n, T) ==
    /\ Ascending(out)
    /\ ToSet(out) \subseteq T
    /\ Len(out) = IF Cardinality(T) < n THEN Cardinality(T) ELSE n
    /\ \A k \in T : k \in ToSet(out) \/ \A o \in ToSet(out) : o < k

\* The n entries of an ascending array from the first one not below a key are
\* the n smallest of those that are not below it.
LEMMA CutFrom ==
    ASSUME NEW a \in Seq(Key), Ascending(a), NEW key \in Key, NEW from \in 1 .. Len(a),
           Splits(a, from, key), NEW n \in Nat \ {0}
    PROVE  Smallest(Cut(a, from, n), n, NotBelow(ToSet(a), key))
<1>t. PICK T : T = {k \in ToSet(a) : key <= k}
  OBVIOUS
<1>o. PICK out : out = Cut(a, from, n)
  OBVIOUS
<1>s. \A i \in 1 .. Len(a) : (i < from => a[i] < key) /\ (i >= from => key <= a[i])
  BY DEF Splits
<1>0. /\ Len(a) \in Nat /\ DOMAIN a = 1 .. Len(a) /\ key \in Int
      /\ \A i \in 1 .. Len(a) : a[i] \in Int
      /\ ToSet(a) = {a[i] : i \in 1 .. Len(a)}
  BY KeysAreNumbers, KeyAssumption DEF KeyAssumption
<1>l. PICK l : l = Len(a)
  OBVIOUS
<1>e. PICK e : e = IF from + n - 1 < l THEN from + n - 1 ELSE l
  OBVIOUS
<1>1. l \in Nat /\ from \in 1 .. l /\ e \in from .. l /\ e \in 1 .. l /\ e - from + 1 \in Nat
      /\ e - from + 1 = IF l - from + 1 < n THEN l - from + 1 ELSE n
  <2>1. l \in Nat /\ from \in 1 .. l /\ n \in Nat \ {0}
    BY <1>0, <1>l
  <2>2. e = IF from + n - 1 < l THEN from + n - 1 ELSE l
    BY <1>e
  <2>3. CASE from + n - 1 < l
    <3>1. e = from + n - 1
      BY <2>2, <2>3
    <3>2. from + n - 1 \in from .. l /\ from + n - 1 \in 1 .. l /\ (from + n - 1) - from + 1 = n
          /\ ~(l - from + 1 < n)
      BY <2>1, <2>3
    <3>3. QED
      BY <2>1, <3>1, <3>2
  <2>4. CASE ~(from + n - 1 < l)
    <3>1. e = l
      BY <2>2, <2>4
    <3>2. l \in from .. l /\ l \in 1 .. l /\ l - from + 1 \in Nat /\ l - from + 1 <= n
      BY <2>1, <2>4
    <3>3. (IF l - from + 1 < n THEN l - from + 1 ELSE n) = l - from + 1
      BY <2>1, <3>2
    <3>4. QED
      BY <2>1, <3>1, <3>2, <3>3
  <2>5. QED
    BY <2>3, <2>4
<1>2. out = SubSeq(a, from, e)
  BY <1>e, <1>l, <1>o DEF Cut
<1>3. /\ out \in Seq(Key) /\ Len(out) = e - from + 1
      /\ \A i \in 1 .. e - from + 1 : out[i] = a[from + i - 1]
  <2>1. from \in 1 .. Len(a) + 1 /\ e \in from - 1 .. Len(a)
    BY <1>1, <1>l
  <2>2. QED
    BY <1>2, <2>1, SubSeqProperties
<1>4. DOMAIN out = 1 .. Len(out) /\ ToSet(out) = {out[i] : i \in 1 .. Len(out)}
  BY <1>3, KeysAreNumbers
<1>5. ASSUME NEW i \in 1 .. Len(out)
      PROVE  from + i - 1 \in 1 .. l /\ from + i - 1 >= from /\ from + i - 1 <= e /\ out[i] = a[from + i - 1]
  BY <1>1, <1>3
<1>6. Ascending(out)
  <2> SUFFICES ASSUME NEW i \in 1 .. Len(out), NEW j \in 1 .. Len(out), i < j PROVE out[i] < out[j]
    BY <1>4 DEF Ascending
  <2>1. from + i - 1 < from + j - 1
    BY <1>1
  <2>2. QED
    BY <1>0, <1>5, <1>l, <2>1 DEF Ascending
<1>7. T = {a[i] : i \in from .. l}
  <2>1. ASSUME NEW x \in T PROVE x \in {a[i] : i \in from .. l}
    <3>1. PICK i \in 1 .. Len(a) : x = a[i]
      BY <1>0, <1>t
    <3>2. key <= a[i] /\ a[i] \in Int
      BY <1>0, <1>t, <3>1
    <3>3. ~(i < from)
      BY <1>0, <1>s, <3>2
    <3>4. i \in from .. l
      BY <1>1, <1>l, <3>3
    <3>5. QED
      BY <3>1, <3>4
  <2>2. ASSUME NEW i \in from .. l PROVE a[i] \in T
    <3>1. i \in 1 .. Len(a) /\ i >= from
      BY <1>1, <1>l
    <3>2. QED
      BY <1>0, <1>s, <1>t, <3>1
  <2>3. QED
    BY <2>1, <2>2
<1>8. ToSet(out) \subseteq T
  <2>1. ASSUME NEW i \in 1 .. Len(out) PROVE out[i] \in T
    <3>1. from + i - 1 \in from .. l
      BY <1>1, <1>5
    <3>2. QED
      BY <1>5, <1>7, <3>1
  <2>2. QED
    BY <1>4, <2>1
<1>9. Cardinality(T) = l - from + 1
  BY <1>7, <1>l, CountFrom
<1>10. Len(out) = IF Cardinality(T) < n THEN Cardinality(T) ELSE n
  BY <1>1, <1>3, <1>9
<1>11. ASSUME NEW k \in T, k \notin ToSet(out), NEW o \in ToSet(out) PROVE o < k
  <2>1. PICK i \in from .. l : k = a[i]
    BY <1>7
  <2>2. PICK j \in 1 .. Len(out) : o = out[j]
    BY <1>4
  <2>3. i > e
    <3>1. ASSUME i <= e PROVE FALSE
      <4>1. PICK m : m = i - from + 1
        OBVIOUS
      <4>2. m \in 1 .. e - from + 1 /\ from + m - 1 = i
        BY <1>1, <3>1, <4>1
      <4>3. out[m] = k /\ m \in 1 .. Len(out)
        BY <1>3, <2>1, <4>2
      <4>4. QED
        BY <1>4, <1>11, <4>3
    <3>2. QED
      BY <1>1, <3>1
  <2>4. from + j - 1 < i /\ i \in 1 .. Len(a) /\ from + j - 1 \in 1 .. Len(a)
    BY <1>1, <1>5, <1>l, <2>3
  <2>5. a[from + j - 1] < a[i]
    BY <1>0, <2>4 DEF Ascending
  <2>6. QED
    BY <1>5, <2>1, <2>2, <2>5
<1>12. Smallest(out, n, T)
  BY <1>6, <1>8, <1>10, <1>11 DEF Smallest
<1>13. QED
  BY <1>12, <1>o, <1>t DEF NotBelow

\* No more arrays are in the row than memory has addresses.
LEMMA RowIsShort ==
    ASSUME TypeOK, RowInv
    PROVE  Cardinality(Bin) \in Nat /\ Len(Row) <= Cardinality(Bin)
<1>n. PICK n : n = Len(Row)
  OBVIOUS
<1> DEFINE f == [i \in 1 .. n |-> Row[i]]
<1>1. n \in Nat /\ \A i \in 1 .. n : Row[i] \in Bin
  BY <1>n, RowIs
<1>2. f \in [1 .. n -> Bin] /\ \A i \in 1 .. n : f[i] = Row[i]
  BY <1>1
<1> HIDE DEF f
<1>3. f \in Injection(1 .. n, Bin)
  BY <1>2, <1>n DEF RowInv, Injection, IsInjective
<1>4. IsFiniteSet(Bin)
  BY MemoryAssumption DEF MemoryAssumption
<1>5. Cardinality(1 .. n) <= Cardinality(Bin) /\ Cardinality(Bin) \in Nat
  BY <1>3, <1>4, FS_Injection, FS_CardinalityType
<1>6. Cardinality(1 .. n) = n
  <2>1. Cardinality(1 .. n) = IF 1 > n THEN 0 ELSE n - 1 + 1
    BY <1>1, FS_Interval
  <2>2. QED
    BY <1>1, <2>1
<1>7. QED
  BY <1>5, <1>6, <1>n

\* The walk of a scan, from a place of the row to its end.
LEMMA ScanWalk ==
    ASSUME TypeOK, RowInv, ChainInv, NEW slot \in 1 .. Len(Row), NEW N \in Nat,
           NEW W, W = CHOOSE w : w = [i \in 0 .. N |->
                        IF i = 0 THEN Row[slot]
                        ELSE IF w[i - 1] = NoBin THEN NoBin ELSE nextbin[w[i - 1]]]
    PROVE  \A i \in 0 .. N : W[i] = IF slot + i <= Len(Row) THEN Row[slot + i] ELSE NoBin
<1> DEFINE Body(w) == [i \in 0 .. N |->
                        IF i = 0 THEN Row[slot]
                        ELSE IF w[i - 1] = NoBin THEN NoBin ELSE nextbin[w[i - 1]]]
           Place(i) == IF slot + i <= Len(Row) THEN Row[slot + i] ELSE NoBin
           c == [i \in 0 .. N |-> Place(i)]
<1>1. Len(Row) \in Nat /\ \A i \in 1 .. Len(Row) : Row[i] \in Bin /\ Row[i] # NoBin
  BY RowIs, NullAssumption
<1>2. Place(0) = Row[slot]
  BY <1>1
<1>3. ASSUME NEW i \in 1 .. N
      PROVE  Place(i) = IF Place(i - 1) = NoBin THEN NoBin ELSE nextbin[Place(i - 1)]
  <2>m. PICK m : m = slot + i - 1
    OBVIOUS
  <2>1. m \in Nat \ {0} /\ slot + (i - 1) = m /\ slot + i = m + 1
    BY <1>1, <2>m
  <2>2. CASE m > Len(Row)
    <3>1. ~(m + 1 <= Len(Row)) /\ ~(m <= Len(Row))
      BY <1>1, <2>1, <2>2
    <3>2. Place(i) = NoBin /\ Place(i - 1) = NoBin
      BY <2>1, <3>1
    <3>3. QED
      BY <3>2
  <2>3. CASE m <= Len(Row)
    <3>1. m \in 1 .. Len(Row) /\ (m + 1 <= Len(Row) <=> m # Len(Row))
      BY <1>1, <2>1, <2>3
    <3>2. Place(i - 1) = Row[m] /\ Place(i) = IF m + 1 <= Len(Row) THEN Row[m + 1] ELSE NoBin
      BY <2>1, <2>3
    <3>3. nextbin[Row[m]] = IF m = Len(Row) THEN NoBin ELSE Row[m + 1]
      BY <3>1 DEF ChainInv
    <3> HIDE DEF Place
    <3>4. QED
      BY <1>1, <3>1, <3>2, <3>3
  <2>4. QED
    BY <1>1, <2>1, <2>2, <2>3
<1> HIDE DEF Place
<1>4. c = Body(c)
  <2>1. ASSUME NEW i \in 0 .. N PROVE c[i] = Body(c)[i]
    <3>1. CASE i = 0
      BY <1>2, <3>1
    <3>2. CASE i # 0
      <4>1. i \in 1 .. N /\ i - 1 \in 0 .. N
        BY <3>2
      <4>2. c[i] = Place(i) /\ c[i - 1] = Place(i - 1)
        BY <4>1
      <4> HIDE DEF c
      <4>3. Body(c)[i] = IF c[i - 1] = NoBin THEN NoBin ELSE nextbin[c[i - 1]]
        BY <3>2
      <4>4. QED
        BY <1>3, <4>1, <4>2, <4>3
    <3>3. QED
      BY <3>1, <3>2
  <2>2. c = [i \in 0 .. N |-> c[i]]
    OBVIOUS
  <2> HIDE DEF c
  <2>3. Body(c) = [i \in 0 .. N |-> Body(c)[i]]
    OBVIOUS
  <2> HIDE DEF Body
  <2>4. QED
    BY <2>1, <2>2, <2>3
<1>5. W = Body(W)
  <2> HIDE DEF Body, c
  <2>1. \E w : w = Body(w)
    BY <1>4
  <2> USE DEF Body
  <2>2. QED
    BY <2>1
<1> HIDE DEF c
<1>6. W[0] = Row[slot] /\ \A i \in 1 .. N : W[i] = IF W[i - 1] = NoBin THEN NoBin ELSE nextbin[W[i - 1]]
  <2>1. \A i \in 0 .. N : W[i] = Body(W)[i]
    <3> HIDE DEF Body
    <3>1. QED
      BY <1>5
  <2>2. 0 \in 0 .. N /\ \A i \in 1 .. N : i \in 0 .. N /\ i # 0
    OBVIOUS
  <2>3. QED
    BY <2>1, <2>2
<1> HIDE DEF Body
<1> DEFINE S == {i \in 0 .. N : W[i] = Place(i)}
<1>7. S = 0 .. N
  <2>1. 0 \in S /\ S \in SUBSET (0 .. N)
    BY <1>2, <1>6
  <2>2. ASSUME NEW i \in 0 .. N, i < N, i \in S PROVE i + 1 \in S
    <3>m. PICK m : m = i + 1
      OBVIOUS
    <3>1. m \in 1 .. N /\ m - 1 = i /\ m \in 0 .. N
      BY <2>2, <3>m
    <3>2. W[i] = Place(i)
      BY <2>2
    <3>3. W[m] = Place(m)
      BY <1>3, <1>6, <3>1, <3>2
    <3>4. QED
      BY <3>1, <3>3, <3>m
  <2> HIDE DEF S
  <2>3. QED
    BY <2>1, <2>2, UpTo
<1>8. \A i \in 0 .. N : W[i] = Place(i)
  BY <1>7
<1>9. QED
  BY <1>8 DEF Place

\* The scan from a place of the row cuts its answer out of an ascending array of
\* the keys from that place on, the place's own array first.
CutsFrom(a, slot, key, n) ==
    /\ Ascending(a)
    /\ ToSet(a) = UNION {Keys(Row[i]) : i \in slot .. Len(Row)}
    /\ \A k \in 1 .. Len(slotkey[Row[slot]]) : k \in 1 .. Len(a) /\ a[k] = slotkey[Row[slot]][k]
    /\ LET from == CHOOSE cslot \in Lower(slotkey[Row[slot]], key) : TRUE
       IN  ScanFrom(key, Row[slot], n) = Cut(a, from, n)

\* What a scan has before it cuts: the keys of the arrays from the routed one
\* on, in order, the routed array's own first.
LEMMA ScanReads ==
    ASSUME TypeOK, RowInv, ChainInv, NEW slot \in 1 .. Len(Row), NEW key, NEW n
    PROVE  \E a \in Seq(Key) : CutsFrom(a, slot, key, n)
<1> DEFINE N == Cardinality(Bin)
           W == CHOOSE w : w = [i \in 0 .. N |->
                        IF i = 0 THEN Row[slot]
                        ELSE IF w[i - 1] = NoBin THEN NoBin ELSE nextbin[w[i - 1]]]
           F == [i \in 1 .. N |-> IF W[i - 1] = NoBin THEN <<>> ELSE slotkey[W[i - 1]]]
           Eq(g) == g = [s \in SUBSET (DOMAIN F) |->
                            IF s = {} THEN <<>> ELSE g[s \ {Max(s)}] \o F[Max(s)]]
           h == CHOOSE g : Eq(g)
           a == h[DOMAIN F]
\* the fold is where the equation that defines it leads
<1>7. LET from == CHOOSE cslot \in Lower(slotkey[Row[slot]], key) : TRUE
      IN  ScanFrom(key, Row[slot], n) = Cut(a, from, n)
  BY DEF Cut, ScanFrom, FoldLeft, MapThenFoldSet
<1> HIDE DEF a, h, Eq, F, W, N
<1>l. PICK l : l = Len(Row)
  OBVIOUS
<1>1. N \in Nat /\ l \in Nat /\ l <= N /\ slot \in 1 .. l /\ \A i \in 1 .. l : Row[i] \in Bin /\ Row[i] # NoBin
  BY <1>l, RowIs, RowIsShort, NullAssumption DEF N
<1>w. W = CHOOSE w : w = [i \in 0 .. N |->
                        IF i = 0 THEN Row[slot]
                        ELSE IF w[i - 1] = NoBin THEN NoBin ELSE nextbin[w[i - 1]]]
  BY DEF W
<1>f. F = [i \in 1 .. N |-> IF W[i - 1] = NoBin THEN <<>> ELSE slotkey[W[i - 1]]]
  BY DEF F
<1>2. \A i \in 0 .. N : W[i] = IF slot + i <= l THEN Row[slot + i] ELSE NoBin
  BY <1>1, <1>l, <1>w, ScanWalk
<1>3. ASSUME NEW i \in 1 .. N
      PROVE  /\ slot + i - 1 <= l => slot + i - 1 \in slot .. l /\ slot + i - 1 \in 1 .. l
                                     /\ F[i] = slotkey[Row[slot + i - 1]]
             /\ ~(slot + i - 1 <= l) => F[i] = <<>>
  <2>1. i - 1 \in 0 .. N /\ slot + (i - 1) = slot + i - 1
    BY <1>1
  <2>2. F[i] = IF W[i - 1] = NoBin THEN <<>> ELSE slotkey[W[i - 1]]
    BY <1>f
  <2>3. W[i - 1] = IF slot + i - 1 <= l THEN Row[slot + i - 1] ELSE NoBin
    BY <1>2, <2>1
  <2>4. slot + i - 1 <= l => slot + i - 1 \in slot .. l /\ slot + i - 1 \in 1 .. l
    BY <1>1
  <2>5. QED
    BY <1>1, <2>2, <2>3, <2>4
<1>4. Arrays(F, N, Key) /\ DOMAIN F = 1 .. N
  <2>1. ASSUME NEW i \in 1 .. N PROVE F[i] \in Seq(Key)
    <3>1. CASE slot + i - 1 <= l
      BY <1>1, <1>3, <3>1, ArraysAre
    <3>2. CASE ~(slot + i - 1 <= l)
      <4>1. F[i] = <<>>
        BY <1>3, <3>2
      <4>2. QED
        BY <4>1
    <3>3. QED
      BY <3>1, <3>2
  <2>2. QED
    BY <1>f, <2>1 DEF Arrays
<1>5. AscendInRow(F, N)
  <2>1. ASSUME NEW i \in 1 .. N PROVE Ascending(F[i])
    <3>1. CASE slot + i - 1 <= l
      BY <1>3, <1>l, <3>1 DEF RowInv
    <3>2. CASE ~(slot + i - 1 <= l)
      <4>1. F[i] = <<>>
        BY <1>3, <3>2
      <4>2. QED
        BY <4>1 DEF Ascending
    <3>3. QED
      BY <3>1, <3>2
  <2>2. ASSUME NEW i \in 1 .. N, NEW j \in 1 .. N, i < j PROVE Before(ToSet(F[i]), ToSet(F[j]))
    <3>1. CASE slot + j - 1 <= l
      <4>1. slot + i - 1 <= l /\ slot + i - 1 < slot + j - 1
        BY <1>1, <2>2, <3>1
      <4>2. F[i] = slotkey[Row[slot + i - 1]] /\ F[j] = slotkey[Row[slot + j - 1]]
            /\ slot + i - 1 \in 1 .. l /\ slot + j - 1 \in 1 .. l
        BY <1>3, <3>1, <4>1
      <4>3. QED
        BY <1>l, <4>1, <4>2 DEF RowInv, Keys
    <3>2. CASE ~(slot + j - 1 <= l)
      <4>1. F[j] = <<>>
        BY <1>3, <3>2
      <4>2. ToSet(F[j]) = {}
        BY <4>1 DEF ToSet
      <4>3. QED
        BY <4>2 DEF Before
    <3>3. QED
      BY <3>1, <3>2
  <2>3. QED
    BY <2>1, <2>2 DEF AscendInRow
<1>8. ASSUME NEW g PROVE Eq(g) <=> Joint(g, N, F)
  <2>1. ASSUME NEW s \in SUBSET (1 .. N)
        PROVE  (IF s = {} THEN <<>> ELSE g[s \ {Max(s)}] \o F[Max(s)]) = JoinOf(s, g, F)
    BY DEF JoinOf
  <2>2. QED
    BY <1>4, <2>1 DEF Joint, Eq
<1>e. Joint(h, N, F)
  <2>1. \E g : Eq(g)
    BY <1>1, <1>4, <1>8, JoinExists
  <2>2. QED
    BY <1>8, <2>1 DEF h
<1>g. PICK g : g = h
  OBVIOUS
<1>j. Joint(g, N, F)
  BY <1>e, <1>g
<1>9. PICK G : Stages(G, N, F, Key) /\ G[N] = g[1 .. N]
  BY <1>1, <1>4, <1>j, JoinIs
<1>10. a = G[N]
  BY <1>4, <1>9, <1>g DEF a
<1>11. /\ G[N] \in Seq(Key) /\ Ascending(G[N])
       /\ ToSet(G[N]) = UNION {ToSet(F[j]) : j \in 1 .. N}
       /\ N # 0 => \A k \in 1 .. Len(F[1]) : k \in 1 .. Len(G[N]) /\ G[N][k] = F[1][k]
  <2>1. N \in Nat /\ Arrays(F, N, Key) /\ AscendInRow(F, N) /\ Stages(G, N, F, Key)
    BY <1>1, <1>4, <1>5, <1>9
  <2>2. QED
    BY <2>1, JoinAscends
<1>12. N # 0 /\ F[1] = slotkey[Row[slot]]
  <2>1. N # 0 /\ 1 \in 1 .. N /\ slot + 1 - 1 = slot /\ slot <= l
    BY <1>1
  <2>2. QED
    BY <1>3, <2>1
<1>13. UNION {ToSet(F[j]) : j \in 1 .. N} = UNION {Keys(Row[i]) : i \in slot .. l}
  <2>1. ASSUME NEW j \in 1 .. N, NEW x \in ToSet(F[j]) PROVE \E i \in slot .. l : x \in Keys(Row[i])
    <3>1. CASE slot + j - 1 <= l
      <4>1. slot + j - 1 \in slot .. l /\ x \in Keys(Row[slot + j - 1])
        BY <1>3, <2>1, <3>1 DEF Keys
      <4>2. QED
        BY <4>1
    <3>2. CASE ~(slot + j - 1 <= l)
      <4>1. F[j] = <<>>
        BY <1>3, <3>2
      <4>2. QED
        BY <2>1, <4>1 DEF ToSet
    <3>3. QED
      BY <3>1, <3>2
  <2>2. ASSUME NEW i \in slot .. l, NEW x \in Keys(Row[i]) PROVE \E j \in 1 .. N : x \in ToSet(F[j])
    <3>1. PICK j : j = i - slot + 1
      OBVIOUS
    <3>2. j \in 1 .. N /\ slot + j - 1 = i /\ i <= l
      BY <1>1, <3>1
    <3>3. F[j] = slotkey[Row[i]]
      BY <1>3, <3>2
    <3>4. QED
      BY <2>2, <3>2, <3>3 DEF Keys
  <2>3. ASSUME NEW x \in UNION {ToSet(F[j]) : j \in 1 .. N}
        PROVE  x \in UNION {Keys(Row[i]) : i \in slot .. l}
    <3>1. PICK j \in 1 .. N : x \in ToSet(F[j])
      BY <2>3
    <3>2. PICK i \in slot .. l : x \in Keys(Row[i])
      BY <2>1, <3>1
    <3>3. QED
      BY <3>2
  <2>4. ASSUME NEW x \in UNION {Keys(Row[i]) : i \in slot .. l}
        PROVE  x \in UNION {ToSet(F[j]) : j \in 1 .. N}
    <3>1. PICK i \in slot .. l : x \in Keys(Row[i])
      BY <2>4
    <3>2. PICK j \in 1 .. N : x \in ToSet(F[j])
      BY <2>2, <3>1
    <3>3. QED
      BY <3>2
  <2>5. QED
    BY <2>3, <2>4
<1>14. /\ a \in Seq(Key) /\ Ascending(a) /\ ToSet(a) = UNION {Keys(Row[i]) : i \in slot .. Len(Row)}
       /\ \A k \in 1 .. Len(slotkey[Row[slot]]) : k \in 1 .. Len(a) /\ a[k] = slotkey[Row[slot]][k]
  BY <1>10, <1>11, <1>12, <1>13, <1>l, Zenon
<1>15. CutsFrom(a, slot, key, n)
  BY <1>7, <1>14, Zenon DEF CutsFrom
<1>16. QED
  BY <1>14, <1>15

\* Where find_lower puts a key in an ascending array, held or not.
LEMMA LowerCuts ==
    ASSUME NEW s \in Seq(Key), NEW key \in Key, NEW from \in Lower(s, key)
    PROVE  /\ from \in 1 .. Len(s) + 1
           /\ \A i \in 1 .. Len(s) : (i < from => s[i] < key) /\ (i >= from => key <= s[i])
BY DEF Lower

\* In an ascending array there is such a place.
LEMMA LowerExists ==
    ASSUME NEW s \in Seq(Key), Ascending(s), NEW key \in Key
    PROVE  \E from : from \in Lower(s, key)
<1> DEFINE D == {i \in 1 .. Len(s) : s[i] < key}
           c == Cardinality(D)
<1>0. key \in Int /\ Len(s) \in Nat /\ DOMAIN s = 1 .. Len(s) /\ \A i \in 1 .. Len(s) : s[i] \in Int
  BY KeysAreNumbers, KeyAssumption DEF KeyAssumption
<1>1. ASSUME NEW i \in D, NEW j \in 1 .. i PROVE j \in D
  <2>1. i \in 1 .. Len(s) /\ j \in 1 .. Len(s) /\ (j = i \/ j < i) /\ s[i] < key
    BY <1>0
  <2>2. s[i] \in Int /\ s[j] \in Int
    BY <1>0, <2>1
  <2>3. j = i \/ s[j] < s[i]
    BY <1>0, <2>1 DEF Ascending
  <2>4. s[j] < key
    BY <1>0, <2>1, <2>2, <2>3
  <2>5. QED
    BY <2>1, <2>4
<1>2. c \in 0 .. Len(s) /\ D = 1 .. c
  <2>1. D \in SUBSET (1 .. Len(s))
    OBVIOUS
  <2> HIDE DEF D
  <2>2. QED
    BY <1>0, <1>1, <2>1, NoGaps
<1>3. ASSUME NEW i \in 1 .. Len(s) PROVE (i <= c => s[i] < key) /\ (i > c => key <= s[i])
  <2>1. i \in 1 .. c <=> i <= c
    BY <1>0, <1>2
  <2>2. i \in D <=> i <= c
    <3> HIDE DEF D, c
    <3>1. QED
      BY <1>2, <2>1
  <2>3. i \in D <=> s[i] < key
    OBVIOUS
  <2>4. c \in Nat
    BY <1>0, <1>2
  <2> HIDE DEF D, c
  <2>5. QED
    BY <1>0, <2>2, <2>3, <2>4
<1> HIDE DEF D, c
<1>m. PICK m : m = c + 1
  OBVIOUS
<1>4. m \in 1 .. Len(s) + 1
  BY <1>0, <1>2, <1>m
<1>5. \A i \in 1 .. m - 1 : s[i] < key
  BY <1>0, <1>2, <1>3, <1>m
<1>6. \A i \in m .. Len(s) : key <= s[i]
  BY <1>0, <1>2, <1>3, <1>m
<1>7. QED
  BY <1>4, <1>5, <1>6 DEF Lower

\* The stored keys are those of the row.
LEMMA StoredIs ==
    ASSUME TypeOK, RowInv
    PROVE  \A x : x \in Stored <=> \E i \in 1 .. Len(Row) : x \in Keys(Row[i])
<1>1. \A b \in live : {slotkey[b][i] : i \in DOMAIN slotkey[b]} = Keys(b)
  BY DEF Keys, ToSet
<1>2. live = {Row[i] : i \in 1 .. Len(Row)}
  BY DEF RowInv
<1>3. ASSUME NEW x \in Stored PROVE \E i \in 1 .. Len(Row) : x \in Keys(Row[i])
  <2>1. PICK b \in live : x \in {slotkey[b][i] : i \in DOMAIN slotkey[b]}
    BY DEF Stored
  <2>2. QED
    BY <1>1, <1>2, <2>1
<1>4. ASSUME NEW i \in 1 .. Len(Row), NEW x \in Keys(Row[i]) PROVE x \in Stored
  <2>1. Row[i] \in live
    BY <1>2
  <2>2. QED
    BY <1>1, <2>1 DEF Stored
<1>5. QED
  BY <1>3, <1>4

\* The scan of an intact bin, from the routed array on.
LEMMA ScanStep ==
    ASSUME TypeOK, RowInv, ChainInv, NEW key \in Key, NEW n \in Nat \ {0}, NEW b \in live,
           NEW slot, RoutedTo(key, slot, b), \E i \in DOMAIN slotkey[b] : key <= slotkey[b][i]
    PROVE  Smallest(ScanFrom(key, b, n), n, NotBelow(Stored, key))
<1>o. PICK out : out = ScanFrom(key, b, n)
  OBVIOUS
<1>1. slot \in 1 .. Len(Row) /\ slot \in Lower(rootkey, key) /\ b = Row[slot] /\ b \in Bin /\ key \in Int
      /\ Len(Row) \in Nat /\ \A i \in 1 .. Len(Row) : Row[i] \in Bin
  BY RouteIs, RowIs, KeyAssumption DEF KeyAssumption, TypeOK
<1>s. PICK s : s = slotkey[b]
  OBVIOUS
<1>2. s \in Seq(Key) /\ Ascending(s) /\ Len(s) \in Nat /\ DOMAIN s = 1 .. Len(s) /\ ToSet(s) = Keys(b)
      /\ \A i \in 1 .. Len(s) : s[i] \in Int
  <2>1. s \in Seq(Key) /\ Ascending(s) /\ ToSet(s) = Keys(b)
    BY <1>1, <1>s, ArraysAre DEF RowInv, Keys
  <2>2. QED
    BY <2>1, KeysAreNumbers
<1>f. PICK from : from = CHOOSE cslot \in Lower(slotkey[Row[slot]], key) : TRUE
  OBVIOUS
<1>3. from \in Lower(s, key)
  <2>1. slotkey[Row[slot]] = s
    BY <1>1, <1>s
  <2>2. \E x : x \in Lower(s, key)
    BY <1>2, LowerExists
  <2>3. QED
    BY <1>f, <2>1, <2>2
<1>4. from \in 1 .. Len(s)
  <2>1. PICK i \in 1 .. Len(s) : key <= s[i]
    BY <1>2, <1>s
  <2>2. from \in 1 .. Len(s) + 1 /\ (i < from => s[i] < key)
    BY <1>2, <1>3, LowerCuts
  <2>3. ~(i < from)
    BY <1>1, <1>2, <2>1, <2>2
  <2>4. QED
    BY <1>2, <2>2, <2>3
<1>5. \A i \in 1 .. Len(s) : (i < from => s[i] < key) /\ (i >= from => key <= s[i])
  BY <1>2, <1>3, LowerCuts
<1>c. PICK a \in Seq(Key) : CutsFrom(a, slot, key, n)
  <2>1. TypeOK /\ RowInv /\ ChainInv /\ slot \in 1 .. Len(Row)
    BY <1>1
  <2>2. QED
    BY <2>1, ScanReads
<1>6. /\ Ascending(a)
      /\ ToSet(a) = UNION {Keys(Row[i]) : i \in slot .. Len(Row)}
      /\ \A k \in 1 .. Len(s) : k \in 1 .. Len(a) /\ a[k] = s[k]
      /\ out = Cut(a, from, n)
  <2>1. slotkey[Row[slot]] = s /\ ScanFrom(key, Row[slot], n) = out
    BY <1>1, <1>o, <1>s
  <2>3. /\ Ascending(a)
        /\ ToSet(a) = UNION {Keys(Row[i]) : i \in slot .. Len(Row)}
        /\ \A k \in 1 .. Len(slotkey[Row[slot]]) : k \in 1 .. Len(a) /\ a[k] = slotkey[Row[slot]][k]
    BY <1>c DEF CutsFrom
  <2>4. ScanFrom(key, Row[slot], n) = Cut(a, from, n)
    BY <1>c, <1>f DEF CutsFrom
  <2>5. out = Cut(a, from, n)
    BY <2>1, <2>4
  <2>6. QED
    BY <2>1, <2>3, <2>5
<1>7. Len(a) \in Nat /\ DOMAIN a = 1 .. Len(a) /\ \A i \in 1 .. Len(a) : a[i] \in Int
  BY KeysAreNumbers
<1>8. from \in 1 .. Len(a) /\ a[from] = s[from] /\ key <= s[from]
  <2>1. from \in 1 .. Len(s) /\ from >= from
    BY <1>2, <1>4
  <2>2. QED
    BY <1>5, <1>6, <2>1
<1>9. ASSUME NEW i \in 1 .. Len(a) PROVE (i < from => a[i] < key) /\ (i >= from => key <= a[i])
  <2>1. ASSUME i < from PROVE a[i] < key
    <3>1. i \in 1 .. Len(s)
      BY <1>2, <1>4, <1>7, <2>1
    <3>2. QED
      BY <1>5, <1>6, <2>1, <3>1
  <2>2. ASSUME i >= from PROVE key <= a[i]
    <3>0. from \in DOMAIN a /\ i \in DOMAIN a /\ (i = from \/ from < i)
      BY <1>7, <1>8, <2>2
    <3>1. i = from \/ a[from] < a[i]
      BY <1>6, <3>0 DEF Ascending
    <3>2. a[from] \in Int /\ a[i] \in Int /\ key <= a[from]
      BY <1>7, <1>8
    <3>3. QED
      BY <1>1, <3>1, <3>2
  <2>3. QED
    BY <2>1, <2>2
<1>10. NotBelow(Stored, key) = NotBelow(ToSet(a), key)
  <2>1. ASSUME NEW x, key <= x PROVE x \in Stored <=> x \in ToSet(a)
    <3>1. x \in Stored <=> \E i \in 1 .. Len(Row) : x \in Keys(Row[i])
      BY StoredIs
    <3>2. ASSUME NEW i \in 1 .. Len(Row), x \in Keys(Row[i]) PROVE i \in slot .. Len(Row)
      <4>1. i < slot => Before(Keys(Row[i]), {key})
        BY <1>1, Between
      <4>2. i < slot => x < key
        BY <3>2, <4>1 DEF Before
      <4>3. x \in Int
        BY <1>1, <3>2, ArraysAre
      <4>4. ~(i < slot)
        BY <1>1, <2>1, <4>2, <4>3
      <4>5. QED
        BY <1>1, <4>4
    <3>3. \A i \in slot .. Len(Row) : i \in 1 .. Len(Row)
      BY <1>1
    <3>4. x \in ToSet(a) <=> \E i \in slot .. Len(Row) : x \in Keys(Row[i])
      BY <1>6, Zenon
    <3>5. QED
      BY <3>1, <3>2, <3>3, <3>4
  <2>2. QED
    BY <2>1 DEF NotBelow
<1>11. Splits(a, from, key)
  BY <1>9 DEF Splits
<1>12. Smallest(Cut(a, from, n), n, NotBelow(ToSet(a), key))
  BY <1>6, <1>8, <1>11, CutFrom
<1>13. QED
  BY <1>6, <1>10, <1>12, <1>o

\* What scan_impl returns on an intact bin is what ScanIsExact asks of it.
LEMMA ScanIs == IInv => ScanIsExact
<1> SUFFICES ASSUME IInv, Intact, NEW key \in Key, NEW n \in 1 .. 3, NEW b \in live,
                    \E slot \in 1 .. Len(rootkey) + 1 : RoutedTo(key, slot, b),
                    \E i \in DOMAIN slotkey[b] : key <= slotkey[b][i]
             PROVE  LET out  == ScanFrom(key, b, n)
                        from == {k \in Stored : key <= k}
                    IN  /\ Ascending(out)
                        /\ ToSet(out) \subseteq from
                        /\ Len(out) = IF Cardinality(from) < n THEN Cardinality(from) ELSE n
                        /\ \A k \in from : k \in ToSet(out) \/ \A o \in ToSet(out) : o < k
  BY DEF ScanIsExact
<1>1. TypeOK /\ RowInv /\ ChainInv
  BY DEF IInv
<1>2. PICK slot : RoutedTo(key, slot, b)
  OBVIOUS
<1>3. n \in Nat \ {0}
  OBVIOUS
<1>4. Smallest(ScanFrom(key, b, n), n, NotBelow(Stored, key))
  <2>1. \E i \in DOMAIN slotkey[b] : key <= slotkey[b][i]
    OBVIOUS
  <2>2. QED
    BY <1>1, <1>2, <1>3, <2>1, ScanStep
<1>5. QED
  BY <1>4 DEF Smallest, NotBelow

-----------------------------------------------------------------------------
(* The results. *)

\* The invariant gives the structure with the code's own check, and the routing.
LEMMA StructureIs ==
    ASSUME IInv
    PROVE  Structure /\ KeysAreRouted
<1>1. TypeOK /\ (Intact => RowInv /\ ChainInv)
  BY DEF IInv
<1>2. KeysAreRouted
  <2>1. CASE Intact
    BY <1>1, <2>1, RoutedWell
  <2>2. CASE ~Intact
    BY <2>2 DEF KeysAreRouted
  <2>3. QED
    BY <2>1, <2>2
<1>3. ASSUME Intact PROVE SelfCheck /\ ChainMatchesRoot
  <2>1. RowInv /\ ChainInv
    BY <1>1, <1>3
  <2>2. CASE HasRoot
    <3>1. Row = children /\ Len(Row) \in Nat /\ Len(Row) = Len(rootkey) + 1 /\ Len(rootkey) \in Nat
          /\ children \in Seq(Bin) /\ rootkey \in Seq(Key)
      BY <1>1, <2>2, RowIs DEF TypeOK
    <3>2. DOMAIN children = 1 .. Len(Row) /\ DOMAIN rootkey = 1 .. Len(rootkey) /\ Row # <<>>
      BY <2>2, <3>1 DEF HasRoot
    <3>3. SelfCheck
      BY <2>1, <2>2, <3>1, <3>2 DEF SelfCheck, RowInv, ChainInv
    <3>4. ChainMatchesRoot
      <4>1. live = {children[i] : i \in DOMAIN children}
        BY <2>1, <3>1, <3>2 DEF RowInv
      <4>2. \A i \in DOMAIN children :
                /\ prevbin[children[i]] = IF i = 1 THEN NoBin ELSE children[i - 1]
                /\ nextbin[children[i]] = IF i = Len(children) THEN NoBin ELSE children[i + 1]
        BY <2>1, <3>1, <3>2 DEF ChainInv
      <4>3. QED
        BY <2>2, <4>1, <4>2 DEF ChainMatchesRoot
    <3>5. QED
      BY <3>3, <3>4
  <2>3. CASE ~HasRoot /\ headbin = NoBin
    <3>1. Row = <<>> /\ Len(Row) = 0
      BY <1>1, <2>3, RowIs
    <3>2. live = {}
      BY <2>1, <3>1 DEF RowInv
    <3>3. QED
      BY <2>3, <3>2 DEF SelfCheck, ChainMatchesRoot
  <2>4. CASE ~HasRoot /\ headbin # NoBin
    <3>1. Len(Row) = 1 /\ Row[1] = headbin /\ Row # <<>> /\ 1 \in 1 .. Len(Row)
      BY <1>1, <2>4, RowIs
    <3>2. live = {headbin} /\ Ascending(slotkey[headbin])
      BY <2>1, <3>1 DEF RowInv
    <3>3. tailbin = headbin /\ prevbin[headbin] = NoBin /\ nextbin[headbin] = NoBin
      BY <2>1, <3>1 DEF ChainInv
    <3>4. QED
      BY <2>4, <3>2, <3>3 DEF SelfCheck, ChainMatchesRoot
  <2>5. QED
    BY <2>2, <2>3, <2>4
<1>4. QED
  BY <1>1, <1>2, <1>3 DEF Structure

\* After any mix of inserts, splits, keys moved left and removals: the arrays
\* never overflow, what self_check asserts holds, and the chain that scan
\* walks is the root's row of children, as long as the root points to no
\* freed array.
THEOREM BinIsStructured == Spec => []Structure
<1>1. IInv => Structure
  BY StructureIs
<1>2. QED
  BY <1>1, InitIInv, NextIInv, PTL DEF Spec

\* The separators send every stored key to the array that holds it.
THEOREM StoredKeysAreRouted == Spec => []KeysAreRouted
<1>1. IInv => KeysAreRouted
  BY StructureIs
<1>2. QED
  BY <1>1, InitIInv, NextIInv, PTL DEF Spec

\* The separators ascend.
LEMMA SeparatorsAscend ==
    ASSUME TypeOK, RowInv
    PROVE  rootkey \in Seq(Key) /\ Ascending(rootkey)
<1>1. /\ rootkey \in Seq(Key) /\ Len(rootkey) \in Nat /\ DOMAIN rootkey = 1 .. Len(rootkey)
      /\ Len(Row) \in Nat /\ (HasRoot => Len(Row) = Len(rootkey) + 1) /\ (~HasRoot => Len(rootkey) = 0)
      /\ \A i \in 1 .. Len(Row) : Row[i] \in Bin
  BY RowIs DEF TypeOK
<1>2. ASSUME NEW i \in 1 .. Len(rootkey)
      PROVE  i \in 1 .. Len(Row) /\ rootkey[i] \in Keys(Row[i])
  <2>1. i \in 1 .. Len(Row)
    BY <1>1
  <2>2. slotkey[Row[i]] # <<>> /\ rootkey[i] = Last(slotkey[Row[i]]) /\ Ascending(slotkey[Row[i]])
    BY <2>1 DEF RowInv
  <2>3. slotkey[Row[i]] \in Seq(Key)
    BY <1>1, <2>1, ArraysAre
  <2>4. QED
    BY <2>1, <2>2, <2>3, Ends DEF Keys
<1>3. ASSUME NEW i \in 1 .. Len(rootkey), NEW j \in 1 .. Len(rootkey), i < j
      PROVE  rootkey[i] < rootkey[j]
  <2>1. Before(Keys(Row[i]), Keys(Row[j]))
    BY <1>2, <1>3 DEF RowInv
  <2>2. QED
    BY <1>2, <2>1 DEF Before
<1>4. QED
  BY <1>1, <1>3 DEF Ascending

\* In an intact bin a search for a stored key ends at the array that holds it.
LEMMA HoldersAre ==
    ASSUME TypeOK, RowInv, NEW k \in Key
    PROVE  Holders(k) = {b \in live : k \in Keys(b)}
<1>1. ASSUME NEW b \in live PROVE (\E i \in DOMAIN slotkey[b] : slotkey[b][i] = k) <=> k \in Keys(b)
  BY DEF Keys, ToSet
<1>2. ASSUME NEW b \in live, k \in Keys(b) PROVE Reached(k, b)
  <2>1. PICK i \in 1 .. Len(Row) : b = Row[i]
    BY DEF RowInv
  <2>2. PICK slot : slot \in Lower(rootkey, k)
    BY SeparatorsAscend, LowerExists
  <2>3. slot \in 1 .. Len(rootkey) + 1 /\ Len(rootkey) \in Nat /\ Len(Row) \in Nat
    BY <2>2, RowIs DEF Lower
  <2>4. slot \in 1 .. Len(Row)
    <3>1. CASE HasRoot
      BY <2>3, <3>1, RowIs
    <3>2. CASE ~HasRoot
      <4>1. Len(Row) = 1 /\ Len(rootkey) = 0
        BY <2>1, <3>2, RowIs
      <4>2. QED
        BY <2>3, <4>1
    <3>3. QED
      BY <3>1, <3>2
  <2>5. i = slot
    BY <1>2, <2>1, <2>2, <2>4, OnlyWhereRouted
  <2>6. RoutedTo(k, slot, b)
    <3>1. CASE HasRoot
      BY <2>1, <2>2, <2>5, <3>1, RowIs DEF RoutedTo
    <3>2. CASE ~HasRoot
      <4>1. headbin # NoBin /\ Len(Row) = 1 /\ Row[1] = headbin
        <5>1. headbin # NoBin
          BY <2>1, <3>2, RowIs
        <5>2. QED
          BY <3>2, <5>1, RowIs
      <4>2. slot = 1
        BY <2>4, <4>1
      <4>3. QED
        BY <2>1, <2>5, <3>2, <4>1, <4>2 DEF RoutedTo
    <3>3. QED
      BY <3>1, <3>2
  <2>7. QED
    BY <2>3, <2>6 DEF Reached
<1>3. QED
  BY <1>1, <1>2 DEF Holders

\* The map an intact bin stands for, key by key.
LEMMA ContentsIs ==
    TypeOK /\ Apart /\ RowInv =>
        \A k \in Key :
            /\ ~Held(k) => Contents[k] = NoVal
            /\ Held(k) => Contents[k] \in Val /\ <<k, Contents[k]>> \in Stock
            /\ \A v : <<k, v>> \in Stock => Contents[k] = v /\ v \in Val
<1> SUFFICES ASSUME TypeOK, Apart, RowInv, NEW k \in Key
             PROVE  /\ ~Held(k) => Contents[k] = NoVal
                    /\ Held(k) => Contents[k] \in Val /\ <<k, Contents[k]>> \in Stock
                    /\ \A v : <<k, v>> \in Stock => Contents[k] = v /\ v \in Val
  OBVIOUS
<1>1. ASSUME NEW b \in live
      PROVE  /\ slotkey[b] \in Seq(Key) /\ slotdata[b] \in Seq(Val) /\ Len(slotdata[b]) = Len(slotkey[b])
             /\ b \in Bin /\ Ascending(slotkey[b]) /\ DOMAIN slotkey[b] = 1 .. Len(slotkey[b])
             /\ Keys(b) = {slotkey[b][i] : i \in 1 .. Len(slotkey[b])}
             /\ \A i \in 1 .. Len(slotkey[b]) : slotkey[b][i] \in Int /\ slotdata[b][i] \in Val
  <2>1. slotkey[b] \in Seq(Key) /\ slotdata[b] \in Seq(Val) /\ Len(slotdata[b]) = Len(slotkey[b])
        /\ b \in Bin /\ Ascending(slotkey[b])
    BY ArraysAre DEF TypeOK, Apart
  <2>2. QED
    BY <2>1, KeysAreNumbers DEF Keys
<1>2. Holders(k) = {b \in live : k \in Keys(b)}
  BY HoldersAre
<1>3. Contents[k] = IF Holders(k) = {} THEN NoVal ELSE ValueIn(CHOOSE b \in Holders(k) : TRUE, k)
  BY DEF Contents
<1>4. Held(k) <=> Holders(k) # {}
  BY <1>2, HeldIs
<1>5. ASSUME NEW v, <<k, v>> \in Stock PROVE Contents[k] = v /\ v \in Val
  <2>1. PICK b \in live : <<k, v>> \in Entries(b)
    BY <1>5 DEF Stock
  <2>2. PICK i \in 1 .. Len(slotkey[b]) : slotkey[b][i] = k /\ slotdata[b][i] = v
    BY <2>1 DEF Entries, Pairs
  <2>3. k \in Keys(b) /\ v \in Val
    BY <1>1, <2>2
  <2>4. Holders(k) = {b}
    BY <1>2, <2>3 DEF Apart
  <2>5. (CHOOSE c \in Holders(k) : TRUE) = b
    BY <2>4
  <2>6. \A j \in DOMAIN slotkey[b] : slotkey[b][j] = k => j = i
    <3> SUFFICES ASSUME NEW j \in DOMAIN slotkey[b], slotkey[b][j] = k, j # i PROVE FALSE
      OBVIOUS
    <3>1. DOMAIN slotkey[b] = 1 .. Len(slotkey[b]) /\ i \in DOMAIN slotkey[b] /\ Ascending(slotkey[b]) /\ k \in Int
      BY <1>1, <2>2
    <3>2. i < j \/ j < i
      BY <3>1
    <3>3. slotkey[b][i] < slotkey[b][j] \/ slotkey[b][j] < slotkey[b][i]
      BY <3>1, <3>2 DEF Ascending
    <3>4. QED
      BY <2>2, <3>1, <3>3
  <2>7. ValueIn(b, k) = v
    <3>1. i \in DOMAIN slotkey[b]
      BY <1>1
    <3>2. (CHOOSE j \in DOMAIN slotkey[b] : slotkey[b][j] = k) = i
      BY <2>2, <2>6, <3>1
    <3>3. QED
      BY <2>2, <3>2 DEF ValueIn
  <2>8. QED
    BY <1>3, <2>3, <2>4, <2>5, <2>7
<1>6. ASSUME Held(k) PROVE Contents[k] \in Val /\ <<k, Contents[k]>> \in Stock
  BY <1>5, <1>6 DEF Held
<1>7. QED
  BY <1>3, <1>4, <1>5, <1>6

\* ContentsIs after a step.
LEMMA ContentsNext ==
    TypeOK' /\ Apart' /\ RowInv' =>
        \A k \in Key :
            /\ ~Held(k)' => Contents'[k] = NoVal
            /\ Held(k)' => Contents'[k] \in Val /\ <<k, Contents'[k]>> \in Stock'
            /\ \A v : <<k, v>> \in Stock' => Contents'[k] = v /\ v \in Val
<1> DEFINE P == \A k \in Key :
                    /\ ~Held(k) => Contents[k] = NoVal
                    /\ Held(k) => Contents[k] \in Val /\ <<k, Contents[k]>> \in Stock
                    /\ \A v : <<k, v>> \in Stock => Contents[k] = v /\ v \in Val
<1>1. TypeOK /\ Apart /\ RowInv => P
  BY ContentsIs
<1>2. TypeOK' /\ Apart' /\ RowInv' => P'
  <2> HIDE DEF P
  <2>1. QED
    BY <1>1, PTL
<1>3. QED
  BY <1>2

\* How the map of an intact bin follows the entries.
LEMMA ContentsFollow ==
    ASSUME IInv, Intact, IInv', Intact'
    PROVE  /\ \A k \in Key : (Held(k) <=> Contents[k] # NoVal)
           /\ Stock' = Stock => Contents' = Contents
           /\ \A key \in Key, val \in Val :
                /\ Adds(key, val) => Contents[key] = NoVal /\ Contents' = [Contents EXCEPT ![key] = val]
                /\ Replaces(key, val) => Contents[key] # NoVal /\ Contents' = [Contents EXCEPT ![key] = val]
           /\ \A key \in Key :
                Drops(key) => Contents[key] # NoVal /\ Contents' = [Contents EXCEPT ![key] = NoVal]
<1>1. \A k \in Key :
            /\ ~Held(k) => Contents[k] = NoVal
            /\ Held(k) => Contents[k] \in Val /\ <<k, Contents[k]>> \in Stock
            /\ \A v : <<k, v>> \in Stock => Contents[k] = v /\ v \in Val
  BY ContentsIs DEF IInv
<1>2. \A k \in Key :
            /\ ~Held(k)' => Contents'[k] = NoVal
            /\ Held(k)' => Contents'[k] \in Val /\ <<k, Contents'[k]>> \in Stock'
            /\ \A v : <<k, v>> \in Stock' => Contents'[k] = v /\ v \in Val
  BY ContentsNext DEF IInv
<1>3. \A k \in Key : Held(k) <=> Contents[k] # NoVal
  BY <1>1, NullAssumption
<1>4. ASSUME NEW k \in Key, \A v \in Val : <<k, v>> \in Stock' <=> <<k, v>> \in Stock
      PROVE  Contents'[k] = Contents[k]
  <2>1. Held(k)' <=> Held(k)
    BY <1>4 DEF Held
  <2>2. CASE Held(k)
    BY <1>1, <1>2, <1>4, <2>2
  <2>3. CASE ~Held(k)
    BY <1>1, <1>2, <2>1, <2>3
  <2>4. QED
    BY <2>2, <2>3
<1>d. /\ Contents = [k \in Key |-> Contents[k]] /\ Contents' = [k \in Key |-> Contents'[k]]
  BY DEF Contents
<1>5. ASSUME Stock' = Stock PROVE Contents' = Contents
  <2>1. \A k \in Key : Contents'[k] = Contents[k]
    BY <1>4, <1>5
  <2>2. [k \in Key |-> Contents'[k]] = [k \in Key |-> Contents[k]]
    BY <2>1
  <2>3. QED
    BY <1>d, <2>2
\* an entry of the key and no change of another
<1>6. ASSUME NEW key \in Key, NEW x, Contents'[key] = x,
             \A k \in Key : k # key => \A v \in Val : <<k, v>> \in Stock' <=> <<k, v>> \in Stock
      PROVE  Contents' = [Contents EXCEPT ![key] = x]
  <2>1. \A k \in Key : Contents'[k] = IF k = key THEN x ELSE Contents[k]
    BY <1>4, <1>6
  <2>2. [k \in Key |-> Contents'[k]] = [k \in Key |-> IF k = key THEN x ELSE Contents[k]]
    BY <2>1
  <2>3. [Contents EXCEPT ![key] = x] = [k \in Key |-> IF k = key THEN x ELSE Contents[k]]
    <3>1. PICK c : c = Contents
      OBVIOUS
    <3>2. c = [k \in Key |-> c[k]]
      BY <1>d, <3>1
    <3>3. [c EXCEPT ![key] = x] = [k \in Key |-> IF k = key THEN x ELSE c[k]]
      BY <3>2
    <3>4. QED
      BY <3>1, <3>3
  <2>4. QED
    BY <1>d, <2>2, <2>3
<1>7. ASSUME NEW key \in Key, NEW val \in Val, Adds(key, val) \/ Replaces(key, val)
      PROVE  Contents' = [Contents EXCEPT ![key] = val]
  <2>1. <<key, val>> \in Stock'
    BY <1>7 DEF Adds, Replaces
  <2>2. Contents'[key] = val
    BY <1>2, <2>1
  <2>3. \A k \in Key : k # key => \A v \in Val : <<k, v>> \in Stock' <=> <<k, v>> \in Stock
    <3> SUFFICES ASSUME NEW k \in Key, k # key, NEW v \in Val
                 PROVE  <<k, v>> \in Stock' <=> <<k, v>> \in Stock
      OBVIOUS
    <3>1. <<k, v>>[1] = k /\ <<k, v>> # <<key, val>>
      OBVIOUS
    <3>2. QED
      BY <1>7, <3>1 DEF Adds, Replaces, Without
  <2>4. QED
    BY <1>6, <2>2, <2>3
<1>8. ASSUME NEW key \in Key, Drops(key)
      PROVE  Contents' = [Contents EXCEPT ![key] = NoVal]
  <2>1. ~Held(key)'
    <3>1. \A v : <<key, v>> \notin Stock'
      <4> TAKE v
      <4>1. <<key, v>>[1] = key
        OBVIOUS
      <4>2. QED
        BY <1>8, <4>1 DEF Drops, Without
    <3>2. QED
      BY <3>1 DEF Held
  <2>2. Contents'[key] = NoVal
    BY <1>2, <2>1
  <2>3. \A k \in Key : k # key => \A v \in Val : <<k, v>> \in Stock' <=> <<k, v>> \in Stock
    <3> SUFFICES ASSUME NEW k \in Key, k # key, NEW v \in Val
                 PROVE  <<k, v>> \in Stock' <=> <<k, v>> \in Stock
      OBVIOUS
    <3>1. <<k, v>>[1] = k
      OBVIOUS
    <3>2. QED
      BY <1>8, <3>1 DEF Drops, Without
  <2>4. QED
    BY <1>6, <2>2, <2>3
<1>9. QED
  BY <1>3, <1>5, <1>7, <1>8 DEF Adds, Replaces, Drops

\* An operation that stops at the array its key is routed to finds the key
\* there, or the bin does not hold it.
LEMMA SearchIsRight ==
    ASSUME IInv, Intact, NEW key \in Key
    PROVE  /\ Misses(key) => ~Held(key)
           /\ \A slot : \A b \in live : RoutedTo(key, slot, b) =>
                \A cslot \in Lower(slotkey[b], key) :
                    At(b, cslot, key) => Held(key) /\ <<key, slotdata[b][cslot]>> \in Stock
<1>1. TypeOK /\ RowInv
  BY DEF IInv
<1>2. ASSUME Misses(key) PROVE ~Held(key)
  <2>1. CASE ~HasRoot /\ headbin = NoBin
    <3>1. live = {}
      BY <1>1, <2>1, RowIs DEF RowInv
    <3>2. QED
      BY <1>1, <3>1, HeldIs
  <2>2. CASE \E slot \in 1 .. Len(rootkey) + 1, b \in live :
                /\ RoutedTo(key, slot, b)
                /\ \E cslot \in Lower(slotkey[b], key) : ~At(b, cslot, key)
    BY <1>1, <2>2, HeldWhereRouted
  <2>3. QED
    BY <1>2, <2>1, <2>2 DEF Misses
<1>3. ASSUME NEW slot, NEW b \in live, RoutedTo(key, slot, b),
             NEW cslot \in Lower(slotkey[b], key), At(b, cslot, key)
      PROVE  Held(key) /\ <<key, slotdata[b][cslot]>> \in Stock
  <2>1. Held(key)
    BY <1>1, <1>3, HeldWhereRouted
  <2>2. slotkey[b] \in Seq(Key) /\ Len(slotkey[b]) \in Nat
    BY <1>1, ArraysAre DEF TypeOK
  <2>3. cslot \in 1 .. Len(slotkey[b]) /\ slotkey[b][cslot] = key
    BY <1>3, <2>2 DEF At, Used, Lower
  <2>4. <<key, slotdata[b][cslot]>> \in Entries(b)
    BY <2>3 DEF Entries, Pairs
  <2>5. QED
    BY <2>1, <2>4 DEF Stock
<1>4. QED
  BY <1>2, <1>3

\* A bin breaks only where the array before the last is freed.
LEMMA StaysIntact ==
    ASSUME IInv, Intact, NEW key \in Key, NEW val,
           \/ FindHit(key) \/ FindMiss(key) \/ RemoveMiss(key) \/ RemoveFromChild(key) \/ RemoveSingle(key)
           \/ Insert(key, val) \/ UpdateHit(key, val) \/ UpdateMiss(key, val) \/ Refuse(key, val)
    PROVE  Intact'
<1>0. TypeOK
  BY DEF IInv
<1>1. CASE \/ FindHit(key) \/ FindMiss(key) \/ RemoveMiss(key) \/ RemoveFromChild(key)
           \/ UpdateHit(key, val) \/ UpdateMiss(key, val) \/ Refuse(key, val)
           \/ InsertDuplicate(key, val) \/ InsertInChild(key, val) \/ NeedRetrain(key, val)
           \/ AppendToLeft(key, val) \/ ShiftToLeft(key, val)
  <2>1. UNCHANGED <<live, children>>
    <3>1. CASE FindHit(key) \/ FindMiss(key) \/ RemoveMiss(key) \/ UpdateMiss(key, val) \/ Refuse(key, val)
      BY <3>1 DEF FindHit, FindMiss, RemoveMiss, UpdateMiss, Refuse, root
    <3>2. CASE UpdateHit(key, val) \/ InsertDuplicate(key, val) \/ InsertInChild(key, val) \/ NeedRetrain(key, val)
      BY <3>2 DEF UpdateHit, InsertDuplicate, InsertInChild, NeedRetrain, root
    <3>3. CASE RemoveFromChild(key)
      BY <3>3 DEF RemoveFromChild
    <3>4. CASE AppendToLeft(key, val)
      BY <3>4 DEF AppendToLeft
    <3>5. CASE ShiftToLeft(key, val)
      BY <3>5 DEF ShiftToLeft
    <3>6. QED
      BY <1>1, <3>1, <3>2, <3>3, <3>4, <3>5
  <2>2. QED
    BY <2>1 DEF Intact
\* no root, before and after
<1>2. CASE InsertFirst(key, val) \/ RemoveSingle(key)
  <2>1. children' = <<>>
    BY <1>2 DEF InsertFirst, RemoveSingle, root, HasRoot
  <2>2. QED
    BY <2>1 DEF Intact
<1>3. CASE SplitSingle(key, val)
  <2>1. PICK new \in Bin \ live : children' = <<headbin, new>> /\ live' = live \cup {new}
    BY <1>3 DEF SplitSingle, Split, Halve
  <2>2. headbin \in live
    <3>1. ~HasRoot /\ headbin # NoBin /\ RowInv
      BY <1>3 DEF SplitSingle, IInv
    <3>2. Len(Row) = 1 /\ Row[1] = headbin
      BY <1>0, <3>1, RowIs
    <3>3. 1 \in 1 .. Len(Row)
      BY <3>2
    <3>4. QED
      BY <3>1, <3>2, <3>3 DEF RowInv
  <2>3. DOMAIN children' = {1, 2} /\ children'[1] = headbin /\ children'[2] = new
    BY <2>1
  <2>4. QED
    BY <2>1, <2>2, <2>3 DEF Intact
<1>4. CASE SplitChild(key, val)
  <2>1. PICK slot \in Lower(rootkey, key), new \in Bin \ live :
            children' = InsertAt(children, slot + 1, new) /\ live' = live \cup {new}
    BY <1>4 DEF SplitChild, Split, Halve
  <2>2. children \in Seq(Bin) /\ Len(children) = Len(rootkey) + 1 /\ Len(rootkey) \in Nat
    BY <1>0, <1>4, RowIs DEF SplitChild, TypeOK
  <2>3. slot \in 1 .. Len(rootkey) + 1
    BY <2>1 DEF Lower
  <2>4. slot + 1 \in 1 .. Len(children) + 1
    BY <2>2, <2>3
  <2>5. PICK m : m = slot + 1
    OBVIOUS
  <2>6. /\ InsertAt(children, m, new) \in Seq(Bin) /\ Len(InsertAt(children, m, new)) = Len(children) + 1
        /\ \A j \in 1 .. Len(children) + 1 : InsertAt(children, m, new)[j] =
              IF j < m THEN children[j] ELSE IF j = m THEN new ELSE children[j - 1]
    <3>1. m \in 1 .. Len(children) + 1 /\ new \in Bin
      BY <2>1, <2>4, <2>5
    <3>2. QED
      BY <2>2, <3>1, InsertAtIs, SMTT(60)
  <2>7. ASSUME NEW j \in DOMAIN children' PROVE children'[j] \in live'
    <3>1. j \in 1 .. Len(children) + 1 /\ Len(children) \in Nat /\ m \in 1 .. Len(children) + 1
      BY <2>1, <2>2, <2>4, <2>5, <2>6
    <3>2. children'[j] = IF j < m THEN children[j] ELSE IF j = m THEN new ELSE children[j - 1]
      BY <2>1, <2>5, <2>6, <3>1
    <3>3. (j < m => j \in DOMAIN children) /\ (j > m => j - 1 \in DOMAIN children)
      BY <2>2, <3>1
    <3>4. j < m \/ j = m \/ j > m
      BY <3>1
    <3>5. QED
      BY <2>1, <3>1, <3>2, <3>3, <3>4 DEF Intact
  <2>8. QED
    BY <2>7 DEF Intact
<1>5. QED
  BY <1>1, <1>2, <1>3, <1>4 DEF Insert

\* Where the gap before the last array is closed, a search for the removed key
\* or a greater one ends at the freed array; every other search ends where it did.
LEMMA BreakStep ==
    ASSUME IInv, Intact, NEW key \in Key, NEW n \in Nat \ {0}, Gap(key, n)
    PROVE  Contents' = [k \in Key |-> IF key <= k THEN NoVal ELSE Contents[k]]
<1>1. /\ TypeOK /\ RowInv /\ HasRoot /\ Row = children /\ Len(rootkey) = n /\ Len(Row) = n + 1
      /\ HasRoot' /\ Len(rootkey') = n - 1 /\ \A i \in 1 .. n - 1 : rootkey'[i] = rootkey[i]
      /\ \A i \in 1 .. n : children'[i] = children[i]
      /\ live' = live \ {children[n]}
      /\ \A c \in live' : slotkey'[c] = slotkey[c] /\ slotdata'[c] = slotdata[c]
      /\ slotkey[children[n]] = <<key>>
  BY RowIs DEF Gap, IInv
<1>2. /\ \A i \in 1 .. n : rootkey[i] \in Int
      /\ \A i \in 1 .. n - 1 : rootkey[i] < key
      /\ rootkey[n] = key /\ Key \subseteq Int
  <2>1. rootkey \in Seq(Key) /\ Ascending(rootkey)
    BY <1>1, SeparatorsAscend
  <2>2. DOMAIN rootkey = 1 .. n /\ \A i \in 1 .. n : rootkey[i] \in Int
    BY <1>1, <2>1, KeysAreNumbers
  <2>3. n \in 1 .. n
    OBVIOUS
  <2>4. rootkey[n] = key
    <3>1. rootkey[n] = Last(<<key>>)
      BY <1>1, <2>3 DEF RowInv
    <3>2. QED
      BY <3>1 DEF Last
  <2>5. \A i \in 1 .. n - 1 : rootkey[i] < key
    BY <2>2, <2>3, <2>1, <2>4 DEF Ascending
  <2>6. QED
    BY <2>2, <2>4, <2>5, KeyAssumption DEF KeyAssumption
\* the routes after the step
<1>3. ASSUME NEW k \in Key, NEW b
      PROVE  Reached(k, b)' <=> \E slot \in 1 .. n : slot \in Lower(rootkey, k)' /\ b = children[slot]
  <2>1. Len(rootkey') + 1 = n
    BY <1>1
  <2>2. QED
    BY <1>1, <2>1 DEF Reached, RoutedTo
<1>4. ASSUME NEW k \in Key, NEW slot \in 1 .. n
      PROVE  /\ key <= k /\ slot \in Lower(rootkey, k)' => slot = n
             /\ ~(key <= k) => (slot \in Lower(rootkey, k)' <=> slot \in Lower(rootkey, k))
  <2>1. slot \in Lower(rootkey, k)' <=>
            /\ \A i \in 1 .. slot - 1 : rootkey[i] < k
            /\ \A i \in slot .. n - 1 : k <= rootkey[i]
    <3>1. slot \in Lower(rootkey, k)' <=>
            /\ slot \in 1 .. (n - 1) + 1
            /\ \A i \in 1 .. slot - 1 : rootkey'[i] < k
            /\ \A i \in slot .. n - 1 : k <= rootkey'[i]
      BY <1>1 DEF Lower
    <3>2. slot \in 1 .. (n - 1) + 1 /\ \A i : i \in 1 .. slot - 1 \/ i \in slot .. n - 1 => i \in 1 .. n - 1
      OBVIOUS
    <3>3. QED
      BY <1>1, <3>1, <3>2
  <2>2. slot \in Lower(rootkey, k) <=>
            /\ \A i \in 1 .. slot - 1 : rootkey[i] < k
            /\ \A i \in slot .. n : k <= rootkey[i]
    <3>1. slot \in 1 .. n + 1
      OBVIOUS
    <3>2. QED
      BY <1>1, <3>1 DEF Lower
  <2>3. k \in Int /\ key \in Int
    BY <1>2
  <2>4. ASSUME key <= k, slot \in Lower(rootkey, k)' PROVE slot = n
    <3>1. ASSUME slot # n PROVE FALSE
      <4>1. slot \in slot .. n - 1 /\ slot \in 1 .. n - 1
        BY <3>1
      <4>2. k <= rootkey[slot] /\ rootkey[slot] < key /\ rootkey[slot] \in Int
        BY <1>2, <2>1, <2>4, <4>1
      <4>3. QED
        BY <2>3, <2>4, <4>2
    <3>2. QED
      BY <3>1
  <2>5. ASSUME ~(key <= k) PROVE slot \in Lower(rootkey, k)' <=> slot \in Lower(rootkey, k)
    <3>1. k <= rootkey[n]
      BY <1>2, <2>3, <2>5
    <3>2. \A i \in slot .. n : i = n \/ i \in slot .. n - 1
      OBVIOUS
    <3>3. \A i \in slot .. n - 1 : i \in slot .. n
      OBVIOUS
    <3>4. QED
      BY <2>1, <2>2, <3>1, <3>2, <3>3
  <2>6. QED
    BY <2>4, <2>5
<1>5. ASSUME NEW k \in Key, key <= k PROVE Contents'[k] = NoVal
  <2>1. \A b \in live' : ~Reached(k, b)'
    BY <1>1, <1>3, <1>4, <1>5
  <2>2. Holders(k)' = {}
    BY <2>1 DEF Holders
  <2>3. QED
    BY <2>2 DEF Contents
<1>6. ASSUME NEW k \in Key, ~(key <= k) PROVE Contents'[k] = Contents[k]
  <2>1. \A slot \in 1 .. n + 1 : slot \in Lower(rootkey, k) => slot \in 1 .. n
    <3> SUFFICES ASSUME n + 1 \in Lower(rootkey, k) PROVE FALSE
      OBVIOUS
    <3>1. n \in 1 .. (n + 1) - 1 /\ k \in Int /\ key \in Int
      BY <1>2
    <3>2. rootkey[n] < k
      BY <3>1 DEF Lower
    <3>3. QED
      BY <1>2, <1>6, <3>1, <3>2
  <2>2. ASSUME NEW b PROVE Reached(k, b)' <=> Reached(k, b)
    <3>1. Reached(k, b) <=> \E slot \in 1 .. n + 1 : slot \in Lower(rootkey, k) /\ b = children[slot]
      BY <1>1 DEF Reached, RoutedTo
    <3>2. \A slot \in 1 .. n : slot \in 1 .. n + 1
      OBVIOUS
    <3>3. QED
      BY <1>3, <1>4, <1>6, <2>1, <3>1, <3>2
  <2>3. ~\E i \in DOMAIN slotkey[children[n]] : slotkey[children[n]][i] = k
    <3>1. k # key
      BY <1>2, <1>6
    <3>2. DOMAIN <<key>> = {1} /\ <<key>>[1] = key
      OBVIOUS
    <3>3. QED
      BY <1>1, <3>1, <3>2
  <2>4. Holders(k)' = Holders(k)
    BY <1>1, <2>2, <2>3 DEF Holders
  <2>5. ASSUME NEW b \in Holders(k) PROVE ValueIn(b, k)' = ValueIn(b, k)
    <3>1. slotkey'[b] = slotkey[b] /\ slotdata'[b] = slotdata[b]
      BY <1>1, <2>4 DEF Holders
    <3>2. QED
      BY <3>1 DEF ValueIn
  <2>6. CASE Holders(k) = {}
    BY <2>4, <2>6 DEF Contents
  <2>7. CASE Holders(k) # {}
    <3>1. PICK b : b = CHOOSE c \in Holders(k) : TRUE
      OBVIOUS
    <3>2. b \in Holders(k) /\ b = CHOOSE c \in Holders(k)' : TRUE
      BY <2>4, <2>7, <3>1
    <3>3. Contents[k] = ValueIn(b, k)
      BY <2>7, <3>1 DEF Contents
    <3>4. Contents'[k] = ValueIn(b, k)'
      BY <2>4, <2>7, <3>2 DEF Contents
    <3>5. QED
      BY <2>5, <3>2, <3>3, <3>4
  <2>8. QED
    BY <2>6, <2>7
<1>7. Contents' = [k \in Key |-> Contents'[k]]
  BY DEF Contents
<1>8. [k \in Key |-> Contents'[k]] = [k \in Key |-> IF key <= k THEN NoVal ELSE Contents[k]]
  BY <1>5, <1>6
<1>9. QED
  BY <1>7, <1>8

\* As long as the bin stays intact, an operation is the map's.
LEMMA IntactStep ==
    ASSUME IInv, Intact, Next, Intact'
    PROVE  \E key \in Key : ret'.key = key /\ Promise!Operate(key)
<1> USE DEF Promise!Answer, Answer, Promise!Absent
<1>i. IInv'
  BY NextIInv
<1>2. \A k \in Key : Held(k) <=> Contents[k] # NoVal
  BY <1>i, ContentsFollow
<1>3. ASSUME NEW key \in Key, FindHit(key) PROVE Promise!MapFind(key)
  <2>1. /\ Intact /\ ~is_retraining /\ UNCHANGED is_retraining
        /\ \E slot \in 1 .. Len(rootkey) + 1, b \in live :
            /\ RoutedTo(key, slot, b)
            /\ \E cslot \in Lower(slotkey[b], key) :
                /\ At(b, cslot, key)
                /\ ret' = Answer("find", key, slotdata[b][cslot], "ok")
    BY <1>3 DEF FindHit, Defined
  <2>2. PICK x : ret' = Answer("find", key, x, "ok") /\ <<key, x>> \in Stock /\ Held(key)
    <3>1. PICK slot \in 1 .. Len(rootkey) + 1, b \in live :
            /\ RoutedTo(key, slot, b)
            /\ \E cslot \in Lower(slotkey[b], key) :
                /\ At(b, cslot, key)
                /\ ret' = Answer("find", key, slotdata[b][cslot], "ok")
      BY <2>1
    <3>2. PICK cslot \in Lower(slotkey[b], key) :
            /\ At(b, cslot, key)
            /\ ret' = Answer("find", key, slotdata[b][cslot], "ok")
      BY <3>1
    <3>3. Held(key) /\ <<key, slotdata[b][cslot]>> \in Stock
      BY <2>1, <3>1, <3>2, SearchIsRight
    <3>4. QED
      BY <3>2, <3>3
  <2>3. Contents[key] = x
    BY <2>2, ContentsIs DEF IInv
  <2>4. UNCHANGED <<live, data, chain, root>>
    BY <1>3 DEF FindHit
  <2>5. Contents' = Contents
    <3>1. Stock' = Stock
      BY <2>4 DEF Stock, Entries, data
    <3>2. QED
      BY <1>i, <3>1, ContentsFollow
  <2>6. ret'.op = "find" /\ ret'.key = key
    BY <2>2
  <2>7. QED
    BY <1>2, <2>1, <2>2, <2>3, <2>5, <2>6 DEF Promise!MapFind
<1>4. ASSUME NEW key \in Key, FindMiss(key) PROVE Promise!MapFind(key)
  <2>1. /\ Intact /\ ~is_retraining /\ Misses(key) /\ ret' = Answer("find", key, NoVal, "failed")
        /\ UNCHANGED <<live, data, chain, root, is_retraining>>
    BY <1>4 DEF FindMiss, Defined
  <2>2. Contents' = Contents
    <3>1. Stock' = Stock
      BY <2>1 DEF Stock, Entries, data
    <3>2. QED
      BY <1>i, <3>1, ContentsFollow
  <2>3. QED
    BY <1>2, <2>1, <2>2, SearchIsRight DEF Promise!MapFind
<1>5. ASSUME NEW key \in Key, RemoveKey(key) PROVE Promise!MapRemove(key)
  <2>1. CASE RemoveMiss(key)
    <3>1. /\ Intact /\ ~is_retraining /\ Misses(key) /\ ret' = Answer("remove", key, NoVal, "failed")
          /\ UNCHANGED <<live, data, chain, root, is_retraining>>
      BY <2>1 DEF RemoveMiss, Defined
    <3>2. Contents' = Contents
      <4>1. Stock' = Stock
        BY <3>1 DEF Stock, Entries, data
      <4>2. QED
        BY <1>i, <4>1, ContentsFollow
    <3>3. QED
      BY <1>2, <3>1, <3>2, SearchIsRight DEF Promise!MapRemove
  <2>2. CASE RemoveFromChild(key) \/ RemoveSingle(key) \/ RemoveChild(key)
    <3>1. Drops(key)
      BY <2>2, RemoveFromChildStep, RemoveSingleStep, RemoveChildStep
    <3>2. Contents[key] # NoVal /\ Contents' = [Contents EXCEPT ![key] = NoVal]
      BY <1>i, <3>1, ContentsFollow
    <3>3. ~is_retraining /\ UNCHANGED is_retraining /\ ret' = Answer("remove", key, NoVal, "ok")
      BY <2>2 DEF RemoveFromChild, RemoveSingle, RemoveChild, Defined, Removed
    <3>4. QED
      BY <3>2, <3>3 DEF Promise!MapRemove
  <2>3. QED
    BY <1>5, <2>1, <2>2 DEF RemoveKey
<1>6. ASSUME NEW key \in Key, NEW val \in Val, UpdateHit(key, val) PROVE Promise!MapUpdate(key, val)
  <2>1. Contents[key] # NoVal /\ Contents' = [Contents EXCEPT ![key] = val]
    BY <1>i, <1>6, UpdateHitStep, ContentsFollow
  <2>2. ~is_retraining /\ UNCHANGED is_retraining /\ ret' = Answer("update", key, val, "ok")
    BY <1>6 DEF UpdateHit, Defined
  <2>3. QED
    BY <2>1, <2>2 DEF Promise!MapUpdate
<1>7. ASSUME NEW key \in Key, NEW val \in Val, UpdateMiss(key, val) PROVE Promise!MapUpdate(key, val)
  <2>1. /\ Intact /\ ~is_retraining /\ Misses(key) /\ ret' = Answer("update", key, val, "failed")
        /\ UNCHANGED <<live, data, chain, root, is_retraining>>
    BY <1>7 DEF UpdateMiss, Defined
  <2>2. Contents' = Contents
    <3>1. Stock' = Stock
      BY <2>1 DEF Stock, Entries, data
    <3>2. QED
      BY <1>i, <3>1, ContentsFollow
  <2>3. QED
    BY <1>2, <2>1, <2>2, SearchIsRight DEF Promise!MapUpdate
<1>8. ASSUME NEW key \in Key, NEW val \in Val, Refuse(key, val)
      PROVE  \/ Promise!MapInsert(key, val) \/ Promise!MapFind(key)
             \/ Promise!MapUpdate(key, val) \/ Promise!MapRemove(key)
  <2>1. /\ is_retraining
        /\ ret' \in {Answer("insert", key, val, "failed"), Answer("find", key, NoVal, "retrain"),
                     Answer("update", key, val, "retrain"), Answer("remove", key, NoVal, "retrain")}
        /\ UNCHANGED <<live, data, chain, root, is_retraining>>
    BY <1>8 DEF Refuse
  <2>2. Contents' = Contents
    <3>1. Stock' = Stock
      BY <2>1 DEF Stock, Entries, data
    <3>2. QED
      BY <1>i, <3>1, ContentsFollow
  <2>3. QED
    BY <2>1, <2>2 DEF Promise!MapInsert, Promise!MapFind, Promise!MapUpdate, Promise!MapRemove
<1>9. ASSUME NEW key \in Key, NEW val \in Val, Insert(key, val) PROVE Promise!MapInsert(key, val)
  <2>1. CASE InsertDuplicate(key, val)
    <3>1. /\ Intact /\ ~is_retraining /\ ret' = Answer("insert", key, val, "failed")
          /\ UNCHANGED <<live, data, chain, root, is_retraining>>
          /\ \E slot \in 1 .. Len(rootkey) + 1, b \in live :
                /\ RoutedTo(key, slot, b)
                /\ \E cslot \in Lower(slotkey[b], key) : At(b, cslot, key)
      BY <2>1 DEF InsertDuplicate, Defined
    <3>2. Held(key)
      <4>1. PICK slot \in 1 .. Len(rootkey) + 1, b \in live :
                /\ RoutedTo(key, slot, b)
                /\ \E cslot \in Lower(slotkey[b], key) : At(b, cslot, key)
        BY <3>1
      <4>2. PICK cslot \in Lower(slotkey[b], key) : At(b, cslot, key)
        BY <4>1
      <4>3. QED
        BY <3>1, <4>1, <4>2, SearchIsRight
    <3>3. Contents' = Contents
      <4>1. Stock' = Stock
        BY <3>1 DEF Stock, Entries, data
      <4>2. QED
        BY <1>i, <4>1, ContentsFollow
    <3>4. QED
      BY <1>2, <3>1, <3>2, <3>3 DEF Promise!MapInsert
  <2>2. CASE NeedRetrain(key, val)
    <3>1. /\ ~is_retraining /\ is_retraining' /\ ret' = Answer("insert", key, val, "retrain")
          /\ UNCHANGED <<live, data>>
      BY <2>2 DEF NeedRetrain, Defined
    <3>2. Contents' = Contents
      <4>1. Stock' = Stock
        BY <3>1 DEF Stock, Entries, data
      <4>2. QED
        BY <1>i, <4>1, ContentsFollow
    <3>3. QED
      BY <3>1, <3>2 DEF Promise!MapInsert
  <2>3. CASE \/ InsertFirst(key, val) \/ InsertInChild(key, val) \/ AppendToLeft(key, val)
             \/ ShiftToLeft(key, val) \/ SplitSingle(key, val) \/ SplitChild(key, val)
    <3>1. Adds(key, val)
      BY <2>3, InsertFirstStep, InsertInChildStep, AppendToLeftStep, ShiftToLeftStep,
         SplitSingleStep, SplitChildStep
    <3>2. Contents[key] = NoVal /\ Contents' = [Contents EXCEPT ![key] = val]
      BY <1>i, <3>1, ContentsFollow
    <3>3. ~is_retraining /\ UNCHANGED is_retraining /\ ret' = Answer("insert", key, val, "ok")
      BY <2>3 DEF InsertFirst, InsertInChild, AppendToLeft, ShiftToLeft, SplitSingle, SplitChild, Defined, Inserted
    <3>4. QED
      BY <3>2, <3>3 DEF Promise!MapInsert
  <2>4. QED
    BY <1>9, <2>1, <2>2, <2>3 DEF Insert
<1>10. PICK key \in Key :
            \/ FindHit(key) \/ FindMiss(key)
            \/ RemoveKey(key)
            \/ \E val \in Val :
                \/ Insert(key, val)
                \/ UpdateHit(key, val) \/ UpdateMiss(key, val)
                \/ Refuse(key, val)
  BY DEF Next
<1>11. Promise!Operate(key)
  BY <1>3, <1>4, <1>5, <1>6, <1>7, <1>8, <1>9, <1>10 DEF Promise!Operate
<1>12. ret'.key = key
  BY <1>11 DEF Promise!Operate, Promise!MapFind, Promise!MapRemove, Promise!MapInsert, Promise!MapUpdate
<1>13. QED
  BY <1>11, <1>12

\* Every step of a bin is a step of the map or leaves it alone.
LEMMA MapStep ==
    ASSUME IInv, [Next]_vars
    PROVE  [Promise!MapNext]_(Promise!mapVars)
<1>1. CASE UNCHANGED vars
  <2>1. UNCHANGED <<live, slotkey, slotdata, rootkey, children, headbin, is_retraining, ret>>
    BY <1>1 DEF vars, data, chain, root
  <2>2. Contents' = Contents
    BY <2>1 DEF Contents, Holders, Reached, RoutedTo, HasRoot, Lower, ValueIn
  <2>3. Intact' = Intact
    BY <2>1 DEF Intact
  <2>4. QED
    BY <2>1, <2>2, <2>3 DEF Promise!mapVars
<1>2. CASE Next
  <2>1. PICK key \in Key :
            \/ FindHit(key) \/ FindMiss(key)
            \/ RemoveKey(key)
            \/ \E val \in Val :
                \/ Insert(key, val)
                \/ UpdateHit(key, val) \/ UpdateMiss(key, val)
                \/ Refuse(key, val)
    BY <1>2 DEF Next
  <2>2. Intact
    <3>1. Defined => Intact
      BY DEF Defined
    <3>2. CASE FindHit(key) \/ FindMiss(key) \/ RemoveKey(key)
      BY <3>1, <3>2 DEF FindHit, FindMiss, RemoveKey, RemoveMiss, RemoveFromChild, RemoveSingle, RemoveChild
    <3>3. ASSUME NEW val \in Val, UpdateHit(key, val) \/ UpdateMiss(key, val) \/ Refuse(key, val) PROVE Intact
      BY <3>1, <3>3 DEF UpdateHit, UpdateMiss, Refuse
    <3>4. ASSUME NEW val \in Val, Insert(key, val) PROVE Intact
      BY <3>1, <3>4 DEF Insert, InsertDuplicate, InsertFirst, InsertInChild, AppendToLeft, ShiftToLeft,
         NeedRetrain, SplitSingle, SplitChild
    <3>5. QED
      BY <2>1, <3>2, <3>3, <3>4
  <2>3. CASE Intact'
    <3>1. PICK k \in Key : ret'.key = k /\ Promise!Operate(k)
      BY <1>2, <2>2, <2>3, IntactStep
    <3>2. QED
      BY <2>2, <2>3, <3>1 DEF Promise!MapNext
  <2>4. CASE ~Intact'
    <3>1. RemoveChild(key)
      <4>1. ASSUME NEW val \in Val, ~RemoveChild(key),
                   \/ Insert(key, val)
                   \/ UpdateHit(key, val) \/ UpdateMiss(key, val)
                   \/ Refuse(key, val)
            PROVE  FALSE
        BY <2>2, <2>4, <4>1, StaysIntact
      <4>2. ASSUME ~RemoveChild(key), FindHit(key) \/ FindMiss(key) \/ RemoveKey(key) PROVE FALSE
        <5>1. FindHit(key) \/ FindMiss(key) \/ RemoveMiss(key) \/ RemoveFromChild(key) \/ RemoveSingle(key)
          BY <4>2 DEF RemoveKey
        <5>2. ASSUME NEW val PROVE Intact'
          BY <2>2, <5>1, StaysIntact
        <5>3. QED
          BY <2>4, <5>2
      <4>3. QED
        BY <2>1, <4>1, <4>2
    <3>2. PICK n \in Nat \ {0} : Gap(key, n)
      BY <2>4, <3>1, RemoveChildStep
    <3>3. Drops(key)
      BY <3>1, RemoveChildStep
    <3>4. Contents[key] # NoVal
      BY <2>2, <3>3, ContentsIs, NullAssumption DEF Drops, IInv
    <3>5. Contents' = [k \in Key |-> IF key <= k THEN NoVal ELSE Contents[k]]
      BY <2>2, <3>2, BreakStep
    <3>6. ~is_retraining /\ UNCHANGED is_retraining /\ ret' = Answer("remove", key, NoVal, "ok")
      BY <3>1 DEF RemoveChild, Defined, Removed
    <3>7. Promise!MapForget(key) /\ ret'.key = key
      BY <3>4, <3>5, <3>6 DEF Promise!MapForget, Promise!Absent, Promise!Answer, Answer
    <3>8. QED
      BY <2>2, <2>4, <3>7 DEF Promise!MapNext
  <2>5. QED
    BY <2>3, <2>4
<1>3. QED
  BY <1>1, <1>2

\* A new bin is an empty map.
LEMMA InitMap == Init => Promise!MapInit
<1> SUFFICES ASSUME Init PROVE Promise!MapInit
  OBVIOUS
<1>1. IInv /\ Stock = {}
  BY InitIInv
<1>2. Intact /\ \A k \in Key : Contents[k] = NoVal
  <2>1. Intact
    BY DEF Init, Intact
  <2>2. QED
    BY <1>1, <2>1, ContentsIs DEF IInv, Held
<1>3. Contents = [k \in Key |-> Contents[k]]
  BY DEF Contents
<1>4. [k \in Key |-> Contents[k]] = [k \in Key |-> NoVal]
  BY <1>2
<1>5. Contents = [k \in Key |-> NoVal]
  BY <1>3, <1>4
<1>6. is_retraining = FALSE /\ ret = Promise!Answer("none", NoVal, NoVal, "ok")
  BY DEF Init, Answer, Promise!Answer
<1>7. QED
  BY <1>2, <1>5, <1>6 DEF Promise!MapInit

\* For arrays of any size, through splits, keys moved left and arrays freed:
\* every result is the map's, and a search finds for every key what the map
\* holds, but for the remove that closes the gap before the last array.  It
\* loses every key greater than its own, and the theorem says nothing of what
\* follows it.
THEOREM BinIsTheMap == Spec => ImplementsMap
<1>1. Spec => []IInv
  BY InitIInv, NextIInv, PTL DEF Spec
<1>2. QED
  BY <1>1, InitMap, MapStep, PTL DEF Spec, ImplementsMap, Promise!MapSpec

\* A bin that asks to be retrained has what its retraining needs: a root, and
\* below it the keys of all arrays in order, enough of them to train on.
THEOREM RetrainingHasItsInput == Spec => []RetrainInput
<1>1. RetrainInv /\ [Next]_vars => RetrainInv'
  BY NextIInv, FilledNext, RetrainedNext DEF RetrainInv
<1>2. QED
  BY <1>1, InitRetrain, RetrainIs, PTL DEF Spec

\* A scan that starts in an array with a key not below its start key returns
\* the smallest stored keys from there on, in order, as many as it was asked
\* for or as there are: the chain it walks misses no array and no key.
THEOREM ScansAreExact == Spec => []ScanIsExact
<1>1. QED
  BY ScanIs, InitIInv, NextIInv, PTL DEF Spec

=============================================================================
