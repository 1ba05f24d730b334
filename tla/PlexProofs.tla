----------------------------- MODULE PlexProofs -----------------------------
(***************************************************************************)
(* The spline of a learned model, for any set of keys and any error: found *)
(* in one pass, it is nowhere further from a key than the error, and the   *)
(* assertions of the pass hold.                                            *)
(***************************************************************************)
EXTENDS Plex, FiniteSetTheorems, TLAPS

\* The point of the spline's curve that a key is.
KeyAt(k) == Point(keys[k], k - 1)

\* The point q is no further than the error from the line from a to b.
Close(a, q, b) == /\ -error * (b.x - a.x) <= Turn(a, q, b)
                  /\ Turn(a, q, b) <= error * (b.x - a.x)

KeysInv ==
    /\ keys \in Seq(Nat) /\ keys # <<>> /\ error \in Nat
    /\ \A i, j \in 1 .. Len(keys) : i < j => keys[i] < keys[j]
    /\ count \in 0 .. Len(keys)

\* The spline goes through keys, the first one first, and every key between two
\* of its points is close to it.
SplineInv ==
    /\ spline \in Seq([x : Nat, y : Nat]) /\ spline # <<>> /\ spline[1] = KeyAt(1)
    /\ \A p \in 1 .. Len(spline) :
        spline[p].y + 1 \in 1 .. count /\ spline[p] = KeyAt(spline[p].y + 1)
    /\ \A p \in 2 .. Len(spline) :
        /\ spline[p - 1].y < spline[p].y
        /\ \A k \in spline[p - 1].y + 1 .. spline[p].y + 1 :
            Close(spline[p - 1], KeyAt(k), spline[p])

\* The corridor after the spline's last point: the last key is within its
\* limits, and they are no further from any key than the error allows.
CorridorInv ==
    LET last == Final(spline) IN
    /\ prev = KeyAt(count) /\ last.y < prev.y
    /\ upper \in [x : Int, y : Int] /\ lower \in [x : Int, y : Int]
    /\ upper.x > last.x /\ lower.x > last.x
    /\ Turn(last, prev, upper) <= 0 /\ Turn(last, lower, prev) <= 0
    /\ \A k \in last.y + 2 .. count :
        /\ Turn(last, upper, Above(KeyAt(k))) <= 0
        /\ Turn(last, Below(KeyAt(k)), lower) <= 0

IInv ==
    /\ KeysInv
    /\ pc = "add" /\ count = 0 => spline = <<>>
    /\ pc # "add" \/ count > 0 => SplineInv
    /\ pc = "add" /\ count = 1 => spline = <<KeyAt(1)>> /\ prev = KeyAt(1)
    /\ pc = "add" /\ count > 1 => CorridorInv
    /\ pc # "add" => Final(spline) = KeyAt(Len(keys))

-----------------------------------------------------------------------------
(* Products and slopes. *)

\* Multiplying by a positive number keeps an order, and dividing does.
LEMMA Scaling ==
    ASSUME NEW x \in Int, NEW y \in Int, NEW z \in Int, z > 0
    PROVE  x <= y <=> x * z <= y * z
<1>1. x <= y => x * z <= y * z
  <2> SUFFICES ASSUME x <= y PROVE x * z <= y * z
    OBVIOUS
  <2>1. y - x >= 0 /\ y - x \in Int
    OBVIOUS
  <2>2. (y - x) * z >= 0
    BY <2>1
  <2>3. (y - x) * z = y * z - x * z
    OBVIOUS
  <2>4. QED
    BY <2>2, <2>3
<1>2. x > y => x * z > y * z
  <2> SUFFICES ASSUME x > y PROVE x * z > y * z
    OBVIOUS
  <2>1. x - y > 0 /\ x - y \in Int
    OBVIOUS
  <2>2. (x - y) * z > 0
    BY <2>1
  <2>3. (x - y) * z = x * z - y * z
    OBVIOUS
  <2>4. QED
    BY <2>2, <2>3
<1>3. QED
  BY <1>1, <1>2

\* Comparing slopes by products is transitive.
LEMMA Slopes ==
    ASSUME NEW a \in Int, NEW b \in Int, NEW c \in Int,
           NEW u \in Int, NEW v \in Int, NEW w \in Int, u > 0, v > 0, w > 0,
           a * v <= b * u, b * w <= c * v
    PROVE  a * w <= c * u
<1>1. (a * v) * w <= (b * u) * w
  <2>1. a * v \in Int /\ b * u \in Int
    OBVIOUS
  <2> DEFINE m == a * v
             n == b * u
  <2> HIDE DEF m, n
  <2>2. m \in Int /\ n \in Int /\ m <= n
    BY <2>1 DEF m, n
  <2>3. m * w <= n * w
    BY <2>2, Scaling
  <2>4. QED
    BY <2>3 DEF m, n
<1>2. (b * w) * u <= (c * v) * u
  <2>1. b * w \in Int /\ c * v \in Int
    OBVIOUS
  <2> DEFINE m == b * w
             n == c * v
  <2> HIDE DEF m, n
  <2>2. m \in Int /\ n \in Int /\ m <= n
    BY <2>1 DEF m, n
  <2>3. m * u <= n * u
    BY <2>2, Scaling
  <2>4. QED
    BY <2>3 DEF m, n
<1>3. (a * v) * w = (a * w) * v /\ (b * u) * w = (b * w) * u /\ (c * v) * u = (c * u) * v
  OBVIOUS
<1>4. (a * w) * v <= (c * u) * v
  <2>1. (a * v) * w \in Int /\ (b * u) * w \in Int /\ (c * v) * u \in Int
    OBVIOUS
  <2>2. QED
    BY <1>1, <1>2, <1>3, <2>1
<1>5. a * w \in Int /\ c * u \in Int
  OBVIOUS
<1> DEFINE m == a * w
           n == c * u
<1> HIDE DEF m, n
<1>6. m \in Int /\ n \in Int /\ m * v <= n * v
  BY <1>4, <1>5 DEF m, n
<1>7. m <= n
  BY <1>6, Scaling
<1>8. QED
  BY <1>7 DEF m, n

IntPoint == [x : Int, y : Int]

\* A point with its coordinates.
LEMMA PointIs ==
    ASSUME NEW x, NEW y
    PROVE  /\ Point(x, y).x = x /\ Point(x, y).y = y
           /\ x \in Int /\ y \in Int => Point(x, y) \in IntPoint
           /\ x \in Nat /\ y \in Nat => Point(x, y) \in [x : Nat, y : Nat]
  BY DEF Point, IntPoint

\* Seen from one point, the turn from a second to a third is the turn back.
LEMMA TurnFlips ==
    ASSUME NEW f \in IntPoint, NEW p \in IntPoint, NEW q \in IntPoint
    PROVE  /\ Turn(f, p, q) \in Int /\ Turn(f, q, p) = -Turn(f, p, q)
           /\ Turn(f, p, p) = 0 /\ Turn(f, f, p) = 0
<1>1. /\ f.x \in Int /\ f.y \in Int /\ p.x \in Int /\ p.y \in Int /\ q.x \in Int /\ q.y \in Int
  BY DEF IntPoint
<1>a. PICK a, c \in Int : a = p.y - f.y /\ c = q.y - f.y
  BY <1>1
<1>b. PICK b, d \in Int : b = q.x - f.x /\ d = p.x - f.x
  BY <1>1
<1>2. a = p.y - f.y /\ b = q.x - f.x /\ c = q.y - f.y /\ d = p.x - f.x
  BY <1>a, <1>b
<1>3. Turn(f, p, q) = a * b - c * d /\ Turn(f, q, p) = c * d - a * b
      /\ Turn(f, p, p) = a * d - a * d
  BY <1>2 DEF Turn
<1>4. Turn(f, f, p) = 0 * d - a * 0
  BY <1>1, <1>2 DEF Turn
<1>5. a * b \in Int /\ c * d \in Int /\ a * d \in Int /\ 0 * d = 0 /\ a * 0 = 0
  BY <1>2
<1>6. QED
  BY <1>3, <1>4, <1>5

\* To the right of a point, lines through it are ordered by their slopes.
LEMMA TurnChains ==
    ASSUME NEW f \in IntPoint, NEW p \in IntPoint, NEW q \in IntPoint, NEW r \in IntPoint,
           p.x > f.x, q.x > f.x, r.x > f.x, Turn(f, p, q) <= 0, Turn(f, q, r) <= 0
    PROVE  Turn(f, p, r) <= 0
<1>1. /\ f.x \in Int /\ f.y \in Int /\ p.x \in Int /\ p.y \in Int /\ q.x \in Int /\ q.y \in Int
      /\ r.x \in Int /\ r.y \in Int
  BY DEF IntPoint
<1>2. PICK a, b, c \in Int : a = p.y - f.y /\ b = q.y - f.y /\ c = r.y - f.y
  BY <1>1
<1>3. PICK u, v, w \in Int : u = p.x - f.x /\ v = q.x - f.x /\ w = r.x - f.x
  BY <1>1
<1>4. u > 0 /\ v > 0 /\ w > 0
  BY <1>1, <1>3
<1>5. Turn(f, p, q) = a * v - b * u /\ Turn(f, q, r) = b * w - c * v /\ Turn(f, p, r) = a * w - c * u
  BY <1>2, <1>3 DEF Turn
<1>6. a * v \in Int /\ b * u \in Int /\ b * w \in Int /\ c * v \in Int /\ a * w \in Int /\ c * u \in Int
  BY <1>2, <1>3
<1>7. a * v <= b * u /\ b * w <= c * v
  <2>1. a * v - b * u <= 0 /\ b * w - c * v <= 0
    BY <1>5
  <2>2. QED
    BY <1>6, <2>1
<1>8. a * w <= c * u
  BY <1>2, <1>3, <1>4, <1>7, Slopes
<1>9. QED
  BY <1>5, <1>6, <1>8

\* A point to the right that is steeper than a rising one rises.
LEMMA SteeperRises ==
    ASSUME NEW f \in IntPoint, NEW p \in IntPoint, NEW q \in IntPoint,
           p.x > f.x, q.x > f.x, p.y > f.y, Turn(f, p, q) <= 0
    PROVE  q.y > f.y
<1>1. /\ f.x \in Int /\ f.y \in Int /\ p.x \in Int /\ p.y \in Int /\ q.x \in Int /\ q.y \in Int
  BY DEF IntPoint
<1>a. PICK a, c \in Int : a = p.y - f.y /\ c = q.y - f.y
  BY <1>1
<1>b. PICK b, d \in Int : b = q.x - f.x /\ d = p.x - f.x
  BY <1>1
<1>2. a = p.y - f.y /\ b = q.x - f.x /\ c = q.y - f.y /\ d = p.x - f.x
  BY <1>a, <1>b
<1>3. a * b - c * d <= 0 /\ a > 0 /\ b > 0 /\ d > 0
  BY <1>1, <1>2 DEF Turn
<1>4. a * b > 0 /\ a * b \in Int /\ c * d \in Int
  BY <1>2, <1>3
<1>5. c * d > 0
  BY <1>3, <1>4
<1>6. c > 0
  <2> SUFFICES ASSUME c <= 0 PROVE FALSE
    BY <1>2
  <2>1. c * d <= 0 * d
    BY <1>2, <1>3, Scaling
  <2>2. 0 * d = 0
    BY <1>2
  <2>3. QED
    BY <1>4, <1>5, <2>1, <2>2
<1>7. QED
  BY <1>1, <1>2, <1>6

-----------------------------------------------------------------------------
(* The keys. *)

\* A finite set of numbers, sorted, is an ascending sequence of its elements.
LEMMA SortedIs ==
    ASSUME NEW K \in SUBSET Nat, IsFiniteSet(K), K # {}
    PROVE  /\ Sorted(K) \in Seq(Nat) /\ Sorted(K) # <<>>
           /\ \A i, j \in 1 .. Len(Sorted(K)) : i < j => Sorted(K)[i] < Sorted(K)[j]
<1> DEFINE n == Cardinality(K)
           UpTo(k) == {j \in K : j <= k}
           Rank(k) == Cardinality(UpTo(k))
<1>1. n \in Nat /\ n # 0
  BY FS_CardinalityType, FS_EmptySet
<1>2. ASSUME NEW k \in K PROVE IsFiniteSet(UpTo(k)) /\ Rank(k) \in 1 .. n
  <2>1. UpTo(k) \in SUBSET K /\ k \in UpTo(k)
    BY <1>2
  <2>2. IsFiniteSet(UpTo(k)) /\ Rank(k) <= n
    BY <2>1, FS_Subset
  <2>3. Rank(k) \in Nat /\ Rank(k) # 0
    BY <2>1, <2>2, FS_CardinalityType, FS_EmptySet
  <2>4. QED
    BY <1>1, <2>2, <2>3
<1>3. ASSUME NEW j \in K, NEW k \in K, j < k PROVE Rank(j) < Rank(k)
  <2>1. UpTo(j) \in SUBSET UpTo(k) /\ k \in UpTo(k) /\ k \notin UpTo(j)
    <3>1. \A x \in K : x \in Int
      OBVIOUS
    <3>2. \A x \in UpTo(j) : x \in K /\ x <= k
      BY <1>3, <3>1
    <3>3. k <= k /\ ~(k <= j)
      BY <1>3, <3>1
    <3>4. QED
      BY <3>2, <3>3
  <2>2. IsFiniteSet(UpTo(k)) /\ Rank(k) \in Nat /\ Rank(j) \in Nat
    BY <1>1, <1>2
  <2> HIDE DEF UpTo
  <2>3. Rank(j) <= Rank(k) /\ (Rank(k) = Rank(j) => UpTo(k) = UpTo(j))
    BY <2>1, <2>2, FS_Subset
  <2>4. QED
    BY <2>1, <2>2, <2>3
<1>4. ASSUME NEW i \in 1 .. n PROVE \E k \in K : Rank(k) = i
  <2> DEFINE f == [k \in K |-> Rank(k)]
  <2> HIDE DEF Rank
  <2>1. f \in [K -> 1 .. n]
    BY <1>2
  <2>2. \A j, k \in K : f[j] = f[k] => j = k
    <3> SUFFICES ASSUME NEW j \in K, NEW k \in K, j # k PROVE f[j] # f[k]
      OBVIOUS
    <3>0. Rank(j) \in 1 .. n /\ Rank(k) \in 1 .. n
      BY <1>2, Zenon
    <3>1. Rank(j) \in Nat /\ Rank(k) \in Nat
      BY <1>1, <3>0
    <3>2. j < k \/ k < j
      OBVIOUS
    <3>3. Rank(j) # Rank(k)
      BY <1>3, <3>1, <3>2
    <3>4. QED
      BY <3>3
  <2> HIDE DEF f
  <2>3. f \in Injection(K, 1 .. n)
    BY <2>1, <2>2 DEF Injection, IsInjective
  <2>4. IsFiniteSet(1 .. n) /\ Cardinality(1 .. n) = n
    BY <1>1, FS_Interval
  <2>5. f \in Surjection(K, 1 .. n)
    BY <2>3, <2>4, FS_Injection
  <2>6. \E k \in K : f[k] = i
    BY <2>5 DEF Surjection
  <2>7. QED
    BY <2>6 DEF f
<1>5. Sorted(K) = [i \in 1 .. n |-> CHOOSE k \in K : Rank(k) = i]
  BY DEF Sorted
<1> HIDE DEF n, Rank
<1>6. ASSUME NEW i \in 1 .. n PROVE Sorted(K)[i] \in K /\ Rank(Sorted(K)[i]) = i
  BY <1>4, <1>5
<1>7. Sorted(K) \in Seq(Nat) /\ Len(Sorted(K)) = n
  <2>1. Sorted(K) = [i \in 1 .. n |-> Sorted(K)[i]]
    BY <1>5
  <2>2. \A i \in 1 .. n : Sorted(K)[i] \in Nat
    BY <1>6
  <2>3. Sorted(K) \in [1 .. n -> Nat]
    BY <2>1, <2>2
  <2>4. QED
    BY <1>1, <2>3
<1>8. ASSUME NEW i \in 1 .. n, NEW j \in 1 .. n, i < j PROVE Sorted(K)[i] < Sorted(K)[j]
  <2>1. /\ Sorted(K)[i] \in K /\ Sorted(K)[j] \in K
        /\ Rank(Sorted(K)[i]) = i /\ Rank(Sorted(K)[j]) = j
    BY <1>6
  <2>2. ~(Sorted(K)[j] < Sorted(K)[i]) /\ Sorted(K)[i] # Sorted(K)[j]
    <3>1. Sorted(K)[j] < Sorted(K)[i] => j < i
      BY <1>3, <2>1
    <3>2. QED
      BY <1>1, <1>8, <2>1, <3>1
  <2>3. Sorted(K)[i] \in Nat /\ Sorted(K)[j] \in Nat
    BY <2>1
  <2>4. QED
    BY <2>2, <2>3
<1>9. Sorted(K) # <<>>
  BY <1>1, <1>7
<1>10. QED
  BY <1>7, <1>8, <1>9

\* The keys as points of the curve: they go up to the right.
LEMMA KeyPoints ==
    ASSUME KeysInv
    PROVE  /\ Len(keys) \in Nat /\ Len(keys) # 0 /\ count \in Nat
           /\ \A k \in 1 .. Len(keys) :
                /\ keys[k] \in Nat /\ KeyAt(k) \in [x : Nat, y : Nat] /\ KeyAt(k) \in IntPoint
                /\ KeyAt(k).x = keys[k] /\ KeyAt(k).y = k - 1
           /\ \A j, k \in 1 .. Len(keys) : keys[j] < keys[k] <=> j < k
           /\ \A j, k \in 1 .. Len(keys) : keys[j] <= keys[k] <=> j <= k
<1>1. /\ keys \in Seq(Nat) /\ keys # <<>> /\ count \in 0 .. Len(keys)
      /\ \A i, j \in 1 .. Len(keys) : i < j => keys[i] < keys[j]
  BY DEF KeysInv
<1>2. Len(keys) \in Nat /\ Len(keys) # 0 /\ count \in Nat /\ \A k \in 1 .. Len(keys) : keys[k] \in Nat
  <2>1. Len(keys) \in Nat /\ \A k \in 1 .. Len(keys) : keys[k] \in Nat
    BY <1>1
  <2>2. Len(keys) # 0
    BY <1>1
  <2>3. QED
    BY <1>1, <2>1, <2>2
<1>3. ASSUME NEW k \in 1 .. Len(keys)
      PROVE  /\ keys[k] \in Nat /\ KeyAt(k) \in [x : Nat, y : Nat] /\ KeyAt(k) \in IntPoint
             /\ KeyAt(k).x = keys[k] /\ KeyAt(k).y = k - 1
  <2>1. keys[k] \in Nat /\ k - 1 \in Nat
    BY <1>2
  <2>2. QED
    BY <2>1, PointIs DEF KeyAt
<1>4. ASSUME NEW j \in 1 .. Len(keys), NEW k \in 1 .. Len(keys)
      PROVE  (keys[j] < keys[k] <=> j < k) /\ (keys[j] <= keys[k] <=> j <= k)
  <2>1. (j < k => keys[j] < keys[k]) /\ (k < j => keys[k] < keys[j]) /\ (j = k => keys[j] = keys[k])
    BY <1>1
  <2>2. j \in Nat /\ k \in Nat /\ keys[j] \in Nat /\ keys[k] \in Nat
    BY <1>2
  <2>3. QED
    BY <2>1, <2>2
<1>5. QED
  BY <1>2, <1>3, <1>4

-----------------------------------------------------------------------------
(* The corridor. *)

\* The limits of the corridor that a key draws.
LEMMA LimitsAre ==
    ASSUME error \in Nat, NEW p \in [x : Nat, y : Nat]
    PROVE  /\ Above(p) \in IntPoint /\ Below(p) \in IntPoint
           /\ Above(p).x = p.x /\ Below(p).x = p.x
           /\ Above(p).y = p.y + error /\ Below(p).y \in Int /\ Below(p).y >= p.y - error /\ Below(p).y <= p.y
<1>1. p.x \in Nat /\ p.y \in Nat
  OBVIOUS
<1>2. Above(p) = Point(p.x, p.y + error) /\ Below(p) = Point(p.x, IF p.y < error THEN 0 ELSE p.y - error)
  BY DEF Above, Below
<1>3. PICK b \in Int : b = IF p.y < error THEN 0 ELSE p.y - error
  BY <1>1
<1>4. b >= p.y - error /\ b <= p.y
  BY <1>1, <1>3
<1>5. p.x \in Int /\ p.y + error \in Int
  BY <1>1
<1>6. QED
  BY <1>2, <1>3, <1>4, <1>5, PointIs

\* Raising or lowering a point changes the turn by as much as it is far.
LEMMA TurnOfRaised ==
    ASSUME NEW f \in IntPoint, NEW p \in IntPoint, NEW q \in IntPoint, NEW b \in IntPoint, b.x = p.x
    PROVE  Turn(f, b, q) = Turn(f, p, q) + (b.y - p.y) * (q.x - f.x)
<1>1. /\ f.x \in Int /\ f.y \in Int /\ p.x \in Int /\ p.y \in Int /\ q.x \in Int /\ q.y \in Int /\ b.y \in Int
  BY DEF IntPoint
<1>a. PICK a, c \in Int : a = p.y - f.y /\ c = q.y - f.y
  BY <1>1
<1>b. PICK w, d \in Int : w = q.x - f.x /\ d = p.x - f.x
  BY <1>1
<1>c. PICK e \in Int : e = b.y - p.y
  BY <1>1
<1>2. b.y - f.y = a + e
  BY <1>1, <1>a, <1>c
<1>3. Turn(f, b, q) = (a + e) * w - c * d /\ Turn(f, p, q) = a * w - c * d
  BY <1>a, <1>b, <1>2 DEF Turn
<1>4. (a + e) * w = a * w + e * w
  BY <1>a, <1>b, <1>c
<1>5. a * w \in Int /\ e * w \in Int /\ c * d \in Int
  BY <1>a, <1>b, <1>c
<1>6. QED
  BY <1>b, <1>c, <1>3, <1>4, <1>5

\* A product of numbers that are not negative.
LEMMA NotNegative ==
    ASSUME NEW a \in Int, NEW b \in Int, a >= 0, b >= 0
    PROVE  a * b \in Int /\ a * b >= 0
  OBVIOUS

\* A key is within the limits it draws.
LEMMA WithinOwnLimits ==
    ASSUME error \in Nat, NEW f \in IntPoint, NEW p \in [x : Nat, y : Nat], p.x > f.x
    PROVE  /\ Turn(f, p, Above(p)) <= 0 /\ Turn(f, Below(p), p) <= 0
<1>1. p \in IntPoint /\ p.x \in Int /\ p.y \in Int /\ f.x \in Int
  BY DEF IntPoint
<1>2. /\ Above(p) \in IntPoint /\ Below(p) \in IntPoint /\ Above(p).x = p.x /\ Below(p).x = p.x
      /\ Above(p).y = p.y + error /\ Below(p).y \in Int /\ Below(p).y <= p.y
  BY LimitsAre
<1>3. Turn(f, p, p) = 0
  BY <1>1, TurnFlips
<1>4. Turn(f, Above(p), p) >= 0
  <2>1. Turn(f, Above(p), p) = Turn(f, p, p) + (Above(p).y - p.y) * (p.x - f.x)
    BY <1>1, <1>2, TurnOfRaised
  <2>2. (Above(p).y - p.y) \in Int /\ (Above(p).y - p.y) >= 0 /\ (p.x - f.x) \in Int /\ (p.x - f.x) >= 0
    BY <1>1, <1>2
  <2>3. (Above(p).y - p.y) * (p.x - f.x) \in Int /\ (Above(p).y - p.y) * (p.x - f.x) >= 0
    BY <2>2, NotNegative
  <2>4. QED
    BY <1>3, <2>1, <2>3
<1>5. Turn(f, p, Below(p)) >= 0
  <2>1. Turn(f, p, p) = Turn(f, Below(p), p) + (p.y - Below(p).y) * (p.x - f.x)
    BY <1>1, <1>2, TurnOfRaised
  <2>2. (p.y - Below(p).y) \in Int /\ (p.y - Below(p).y) >= 0 /\ (p.x - f.x) \in Int /\ (p.x - f.x) >= 0
    BY <1>1, <1>2
  <2>3. (p.y - Below(p).y) * (p.x - f.x) \in Int /\ (p.y - Below(p).y) * (p.x - f.x) >= 0
    BY <2>2, NotNegative
  <2>4. Turn(f, Below(p), p) \in Int /\ Turn(f, p, Below(p)) = -Turn(f, Below(p), p)
    BY <1>1, <1>2, TurnFlips
  <2>5. QED
    BY <1>3, <2>1, <2>3, <2>4
<1>6. /\ Turn(f, p, Above(p)) = -Turn(f, Above(p), p) /\ Turn(f, Above(p), p) \in Int
      /\ Turn(f, p, Below(p)) = -Turn(f, Below(p), p) /\ Turn(f, Below(p), p) \in Int
  BY <1>1, <1>2, TurnFlips
<1>7. QED
  BY <1>4, <1>5, <1>6

\* A key whose limits a line is within is close to it.
LEMMA LimitsMeanClose ==
    ASSUME error \in Nat, NEW f \in IntPoint, NEW q \in [x : Nat, y : Nat], NEW b \in IntPoint, b.x > f.x,
           Turn(f, b, Above(q)) <= 0, Turn(f, Below(q), b) <= 0
    PROVE  Close(f, q, b)
<1>1. q \in IntPoint /\ q.x \in Int /\ q.y \in Int /\ f.x \in Int /\ b.x \in Int
  BY DEF IntPoint
<1>2. /\ Above(q) \in IntPoint /\ Below(q) \in IntPoint /\ Above(q).x = q.x /\ Below(q).x = q.x
      /\ Above(q).y = q.y + error /\ Below(q).y \in Int /\ Below(q).y >= q.y - error
  BY LimitsAre
<1>d. PICK dx \in Int : dx = b.x - f.x /\ dx > 0
  BY <1>1
<1>t. PICK t : t = Turn(f, q, b)
  OBVIOUS
<1>3. t \in Int /\ error * dx \in Int /\ error \in Int
  BY <1>1, <1>d, <1>t, TurnFlips
<1>4. t + error * dx >= 0
  <2>1. Turn(f, Above(q), b) = Turn(f, q, b) + (Above(q).y - q.y) * (b.x - f.x)
    BY <1>1, <1>2, TurnOfRaised
  <2>2. Above(q).y - q.y = error
    BY <1>1, <1>2
  <2>3. Turn(f, Above(q), b) = t + error * dx
    BY <1>d, <1>t, <2>1, <2>2
  <2>4. Turn(f, b, Above(q)) = -Turn(f, Above(q), b)
    BY <1>2, TurnFlips
  <2>5. QED
    BY <1>3, <2>3, <2>4
<1>5. t <= error * dx
  <2>1. PICK e \in Int : e = q.y - Below(q).y /\ e <= error
    BY <1>1, <1>2
  <2>2. Turn(f, q, b) = Turn(f, Below(q), b) + (q.y - Below(q).y) * (b.x - f.x)
    BY <1>1, <1>2, TurnOfRaised
  <2>3. t = Turn(f, Below(q), b) + e * dx
    BY <1>d, <1>t, <2>1, <2>2
  <2>4. e * dx <= error * dx /\ e * dx \in Int
    BY <1>d, <1>3, <2>1, Scaling
  <2>5. Turn(f, Below(q), b) \in Int
    BY <1>2, TurnFlips
  <2>6. QED
    BY <1>3, <2>3, <2>4, <2>5
<1>6. -error * dx = -(error * dx)
  BY <1>3, <1>d
<1>7. -error * dx <= t /\ t <= error * dx
  BY <1>3, <1>4, <1>5, <1>6
<1>8. QED
  BY <1>7, <1>d, <1>t DEF Close

\* The points of the spline as keys.
LEMMA SplinePoints ==
    ASSUME KeysInv, SplineInv
    PROVE  /\ Len(spline) \in Nat /\ Len(spline) # 0 /\ Final(spline) = spline[Len(spline)]
           /\ Len(spline) \in 1 .. Len(spline)
           /\ \A p \in 1 .. Len(spline) :
                /\ spline[p] \in [x : Nat, y : Nat] /\ spline[p] \in IntPoint
                /\ spline[p].y \in Nat /\ spline[p].x \in Nat
                /\ spline[p].y + 1 \in 1 .. count /\ spline[p].y + 1 \in 1 .. Len(keys)
                /\ spline[p] = KeyAt(spline[p].y + 1) /\ spline[p].x = keys[spline[p].y + 1]
<1>1. /\ spline \in Seq([x : Nat, y : Nat]) /\ spline # <<>>
      /\ \A p \in 1 .. Len(spline) :
            spline[p].y + 1 \in 1 .. count /\ spline[p] = KeyAt(spline[p].y + 1)
  BY DEF SplineInv
<1>2. Len(spline) \in Nat /\ Len(spline) # 0
  BY <1>1
<1>3. count \in 0 .. Len(keys) /\ Len(keys) \in Nat
  BY KeyPoints DEF KeysInv
<1>4. ASSUME NEW p \in 1 .. Len(spline)
      PROVE  /\ spline[p] \in [x : Nat, y : Nat] /\ spline[p] \in IntPoint
             /\ spline[p].y \in Nat /\ spline[p].x \in Nat
             /\ spline[p].y + 1 \in 1 .. count /\ spline[p].y + 1 \in 1 .. Len(keys)
             /\ spline[p] = KeyAt(spline[p].y + 1) /\ spline[p].x = keys[spline[p].y + 1]
  <2>1. spline[p] \in [x : Nat, y : Nat]
    <3> DEFINE S == [x : Nat, y : Nat]
    <3>1. spline \in Seq(S)
      BY <1>1
    <3> HIDE DEF S
    <3>2. spline[p] \in S
      BY <3>1
    <3>3. QED
      BY <3>2 DEF S
  <2>2. spline[p].y \in Nat /\ spline[p].x \in Nat /\ spline[p] \in IntPoint
    BY <2>1 DEF IntPoint
  <2>3. spline[p].y + 1 \in 1 .. count /\ spline[p] = KeyAt(spline[p].y + 1)
    BY <1>1
  <2>4. spline[p].y + 1 \in 1 .. Len(keys)
    BY <1>3, <2>3
  <2>5. spline[p].x = keys[spline[p].y + 1]
    BY <2>3, <2>4, KeyPoints
  <2>6. QED
    BY <2>1, <2>2, <2>3, <2>4, <2>5
<1>5. Len(spline) \in 1 .. Len(spline)
  BY <1>2
<1>6. QED
  BY <1>2, <1>4, <1>5 DEF Final

\* What the corridor's limits are, in terms of the last point.
LEMMA CorridorIs ==
    ASSUME KeysInv, SplineInv, CorridorInv
    PROVE  LET last == Final(spline) IN
           /\ last \in IntPoint /\ last.y \in Nat /\ last.y + 1 \in 1 .. count /\ last = KeyAt(last.y + 1)
           /\ count \in 1 .. Len(keys) /\ prev = KeyAt(count) /\ prev \in IntPoint /\ prev \in [x : Nat, y : Nat]
           /\ prev.y = count - 1 /\ last.y + 1 < count
           /\ last.x \in Nat /\ prev.x \in Nat /\ prev.x > last.x /\ prev.y > last.y
           /\ upper \in IntPoint /\ lower \in IntPoint /\ upper.x > last.x /\ lower.x > last.x
           /\ Turn(last, prev, upper) <= 0 /\ Turn(last, lower, prev) <= 0
           /\ \A k \in last.y + 2 .. count :
                /\ k \in 1 .. Len(keys) /\ keys[k] > last.x
                /\ Turn(last, upper, Above(KeyAt(k))) <= 0
                /\ Turn(last, Below(KeyAt(k)), lower) <= 0
<1>l. PICK last : last = Final(spline)
  OBVIOUS
<1>1. /\ last \in IntPoint /\ last.y \in Nat /\ last.x \in Nat /\ last.y + 1 \in 1 .. count
      /\ last.y + 1 \in 1 .. Len(keys) /\ last = KeyAt(last.y + 1) /\ last.x = keys[last.y + 1]
  BY <1>l, SplinePoints
<1>2. /\ prev = KeyAt(count) /\ last.y < prev.y
      /\ upper \in IntPoint /\ lower \in IntPoint /\ upper.x > last.x /\ lower.x > last.x
      /\ Turn(last, prev, upper) <= 0 /\ Turn(last, lower, prev) <= 0
      /\ \A k \in last.y + 2 .. count :
            /\ Turn(last, upper, Above(KeyAt(k))) <= 0
            /\ Turn(last, Below(KeyAt(k)), lower) <= 0
  BY <1>l DEF CorridorInv, IntPoint
<1>3. Len(keys) \in Nat /\ count \in Nat /\ count \in 1 .. Len(keys)
  <2>1. Len(keys) \in Nat /\ count \in Nat /\ count <= Len(keys)
    BY KeyPoints DEF KeysInv
  <2>2. QED
    BY <1>1, <2>1
<1>4. /\ prev \in IntPoint /\ prev \in [x : Nat, y : Nat] /\ prev.y = count - 1
      /\ prev.x = keys[count] /\ prev.x \in Nat
  BY <1>2, <1>3, KeyPoints
<1>5. last.y + 1 < count
  BY <1>1, <1>2, <1>3, <1>4
<1>6. keys[last.y + 1] < keys[count]
  BY <1>1, <1>3, <1>5, KeyPoints
<1>7. ASSUME NEW k \in last.y + 2 .. count
      PROVE  k \in 1 .. Len(keys) /\ keys[k] > last.x
  <2>1. k \in 1 .. Len(keys) /\ last.y + 1 < k
    BY <1>1, <1>3
  <2>2. keys[last.y + 1] < keys[k] /\ keys[k] \in Nat
    BY <1>1, <2>1, KeyPoints
  <2>3. QED
    BY <1>1, <2>1, <2>2
<1>8. prev.x > last.x /\ prev.y > last.y
  BY <1>1, <1>2, <1>4, <1>6
<1>9. QED
  BY <1>l, <1>1, <1>2, <1>3, <1>4, <1>5, <1>7, <1>8

\* CorridorInv after a step.
LEMMA CorridorNext ==
    ASSUME UNCHANGED data, NEW l, l = Final(spline'), NEW c, c = count', NEW u, u = upper', NEW w, w = lower',
           prev' = KeyAt(c), l.y < prev'.y, u \in IntPoint, w \in IntPoint, u.x > l.x, w.x > l.x,
           Turn(l, prev', u) <= 0, Turn(l, w, prev') <= 0,
           \A k \in l.y + 2 .. c :
                /\ Turn(l, u, Above(KeyAt(k))) <= 0
                /\ Turn(l, Below(KeyAt(k)), w) <= 0
    PROVE  CorridorInv'
<1>1. \A k : KeyAt(k)' = KeyAt(k) /\ Above(KeyAt(k))' = Above(KeyAt(k)) /\ Below(KeyAt(k))' = Below(KeyAt(k))
  BY DEF data, KeyAt, Above, Below
<1>2. prev' = KeyAt(count') /\ Final(spline)' = l
  BY DEF Final
<1>3. QED
  BY <1>1, <1>2 DEF CorridorInv, IntPoint

\* A corridor that begins at a point has the limits of the next key.
LEMMA NewCorridor ==
    ASSUME KeysInv, UNCHANGED data, count \in 1 .. Len(keys) - 1, count' = count + 1,
           Final(spline') = KeyAt(count), prev' = KeyAt(count + 1),
           upper' = Above(prev'), lower' = Below(prev')
    PROVE  CorridorInv'
<1>l. PICK l : l = KeyAt(count)
  OBVIOUS
<1>p. PICK p : p = KeyAt(count + 1)
  OBVIOUS
<1>1. Len(keys) \in Nat /\ count \in 1 .. Len(keys) /\ count + 1 \in 1 .. Len(keys) /\ error \in Nat
  BY KeyPoints DEF KeysInv
<1>2. /\ l \in IntPoint /\ p \in IntPoint /\ p \in [x : Nat, y : Nat]
      /\ l.x = keys[count] /\ p.x = keys[count + 1] /\ l.y = count - 1 /\ p.y = (count + 1) - 1
      /\ keys[count] \in Nat /\ keys[count + 1] \in Nat
  BY <1>1, <1>l, <1>p, KeyPoints
<1>3. p.x > l.x /\ l.y < p.y /\ l.y + 2 = count + 1
  <2>1. keys[count] < keys[count + 1]
    BY <1>1, KeyPoints
  <2>2. QED
    BY <1>1, <1>2, <2>1
<1>4. /\ Above(p) \in IntPoint /\ Below(p) \in IntPoint /\ Above(p).x = p.x /\ Below(p).x = p.x
      /\ Turn(l, p, Above(p)) <= 0 /\ Turn(l, Below(p), p) <= 0
      /\ Turn(l, Above(p), Above(p)) <= 0 /\ Turn(l, Below(p), Below(p)) <= 0
  <2>1. Above(p) \in IntPoint /\ Below(p) \in IntPoint /\ Above(p).x = p.x /\ Below(p).x = p.x
    BY <1>1, <1>2, LimitsAre
  <2>2. Turn(l, Above(p), Above(p)) = 0 /\ Turn(l, Below(p), Below(p)) = 0
    BY <1>2, <2>1, TurnFlips
  <2>3. Turn(l, p, Above(p)) <= 0 /\ Turn(l, Below(p), p) <= 0
    BY <1>1, <1>2, <1>3, WithinOwnLimits
  <2>4. QED
    BY <2>1, <2>2, <2>3
<1>u. PICK u : u = Above(p)
  OBVIOUS
<1>w. PICK w : w = Below(p)
  OBVIOUS
<1>c. PICK c : c = count + 1
  OBVIOUS
<1>5. \A k \in l.y + 2 .. c : k = c
  BY <1>1, <1>3, <1>c
<1>6. \A k \in l.y + 2 .. c :
            /\ Turn(l, u, Above(KeyAt(k))) <= 0
            /\ Turn(l, Below(KeyAt(k)), w) <= 0
  BY <1>4, <1>5, <1>c, <1>p, <1>u, <1>w
<1>7. /\ l = Final(spline') /\ c = count' /\ u = upper' /\ w = lower' /\ prev' = KeyAt(c) /\ prev' = p
      /\ u \in IntPoint /\ w \in IntPoint /\ u.x > l.x /\ w.x > l.x
      /\ Turn(l, prev', u) <= 0 /\ Turn(l, w, prev') <= 0 /\ l.y < prev'.y
  BY <1>l, <1>p, <1>c, <1>u, <1>w, <1>3, <1>4
<1>8. QED
  BY <1>6, <1>7, CorridorNext

\* A key inside the corridor narrows it, if at all, to its own limits.
LEMMA NarrowedCorridor ==
    ASSUME KeysInv, SplineInv, CorridorInv, UNCHANGED <<data, spline>>, count < Len(keys), count' = count + 1,
           prev' = KeyAt(count + 1), ~Cuts(prev'), Narrowed(prev')
    PROVE  CorridorInv'
<1>l. PICK l : l = Final(spline)
  OBVIOUS
<1>p. PICK p : p = KeyAt(count + 1)
  OBVIOUS
<1>1. /\ l \in IntPoint /\ l.y \in Nat /\ l.y + 1 \in 1 .. count /\ l = KeyAt(l.y + 1)
      /\ count \in 1 .. Len(keys) /\ l.y + 1 < count /\ l.x \in Nat /\ l.x = keys[l.y + 1]
      /\ upper \in IntPoint /\ lower \in IntPoint /\ upper.x > l.x /\ lower.x > l.x
      /\ \A k \in l.y + 2 .. count :
            /\ k \in 1 .. Len(keys) /\ keys[k] > l.x
            /\ Turn(l, upper, Above(KeyAt(k))) <= 0
            /\ Turn(l, Below(KeyAt(k)), lower) <= 0
  <2>1. /\ l \in IntPoint /\ l.y \in Nat /\ l.y + 1 \in 1 .. count /\ l = KeyAt(l.y + 1)
        /\ count \in 1 .. Len(keys) /\ l.y + 1 < count /\ l.x \in Nat
        /\ upper \in IntPoint /\ lower \in IntPoint /\ upper.x > l.x /\ lower.x > l.x
        /\ \A k \in l.y + 2 .. count :
            /\ k \in 1 .. Len(keys) /\ keys[k] > l.x
            /\ Turn(l, upper, Above(KeyAt(k))) <= 0
            /\ Turn(l, Below(KeyAt(k)), lower) <= 0
    BY <1>l, CorridorIs
  <2>2. l.x = keys[l.y + 1]
    BY <1>l, SplinePoints
  <2>3. QED
    BY <2>1, <2>2
<1>2. /\ Len(keys) \in Nat /\ error \in Nat /\ count + 1 \in 1 .. Len(keys) /\ l.y + 1 \in 1 .. Len(keys)
      /\ l.y + 1 < count + 1
  <2>1. Len(keys) \in Nat /\ error \in Nat
    BY KeyPoints DEF KeysInv
  <2>2. count \in Nat /\ count + 1 \in 1 .. Len(keys)
    BY <1>1, <2>1
  <2>3. l.y + 1 < count + 1 /\ l.y + 1 \in 1 .. Len(keys)
    BY <1>1, <2>1, <2>2
  <2>4. QED
    BY <2>1, <2>2, <2>3
<1>3. /\ p \in IntPoint /\ p \in [x : Nat, y : Nat] /\ p.x = keys[count + 1] /\ p.x \in Nat
      /\ p.y = (count + 1) - 1 /\ p.x > l.x /\ p.y > l.y
  <2>1. /\ p \in IntPoint /\ p \in [x : Nat, y : Nat] /\ p.x = keys[count + 1] /\ keys[count + 1] \in Nat
        /\ p.y = (count + 1) - 1 /\ keys[l.y + 1] < keys[count + 1]
    BY <1>2, <1>p, KeyPoints
  <2>2. QED
    BY <1>1, <2>1
<1>4. /\ Above(p) \in IntPoint /\ Below(p) \in IntPoint /\ Above(p).x = p.x /\ Below(p).x = p.x
      /\ Turn(l, p, Above(p)) <= 0 /\ Turn(l, Below(p), p) <= 0
  <2>1. Above(p) \in IntPoint /\ Below(p) \in IntPoint /\ Above(p).x = p.x /\ Below(p).x = p.x
    BY <1>2, <1>3, LimitsAre
  <2>2. Turn(l, p, Above(p)) <= 0 /\ Turn(l, Below(p), p) <= 0
    BY <1>1, <1>2, <1>3, WithinOwnLimits
  <2>3. QED
    BY <2>1, <2>2
<1>u. PICK u : u = IF Turn(l, upper, Above(p)) > 0 THEN Above(p) ELSE upper
  OBVIOUS
<1>w. PICK w : w = IF Turn(l, lower, Below(p)) < 0 THEN Below(p) ELSE lower
  OBVIOUS
<1>5. /\ u = upper' /\ w = lower' /\ l = Final(spline') /\ prev' = p
      /\ ~(Turn(l, upper, p) <= 0) /\ ~(Turn(l, lower, p) >= 0)
  BY <1>l, <1>p, <1>u, <1>w DEF Narrowed, Cuts
<1>6. /\ u \in IntPoint /\ u.x > l.x /\ Turn(l, p, u) <= 0 /\ Turn(l, u, Above(p)) <= 0
      /\ \A q \in IntPoint : q.x > l.x /\ Turn(l, upper, q) <= 0 => Turn(l, u, q) <= 0
  <2>1. /\ Turn(l, upper, p) \in Int /\ Turn(l, p, upper) = -Turn(l, upper, p)
        /\ Turn(l, upper, Above(p)) \in Int /\ Turn(l, Above(p), upper) = -Turn(l, upper, Above(p))
        /\ Turn(l, Above(p), Above(p)) = 0
    BY <1>1, <1>3, <1>4, TurnFlips
  <2>2. CASE Turn(l, upper, Above(p)) > 0
    <3>1. u = Above(p) /\ Turn(l, u, upper) <= 0
      BY <1>u, <2>1, <2>2
    <3>2. \A q \in IntPoint : q.x > l.x /\ Turn(l, upper, q) <= 0 => Turn(l, u, q) <= 0
      BY <1>1, <1>3, <1>4, <3>1, TurnChains
    <3>3. QED
      BY <1>3, <1>4, <2>1, <3>1, <3>2
  <2>3. CASE ~(Turn(l, upper, Above(p)) > 0)
    <3>1. u = upper /\ Turn(l, u, Above(p)) <= 0
      BY <1>u, <2>1, <2>3
    <3>2. Turn(l, p, u) <= 0
      BY <1>5, <2>1, <3>1
    <3>3. QED
      BY <1>1, <3>1, <3>2
  <2>4. QED
    BY <2>2, <2>3
<1>7. /\ w \in IntPoint /\ w.x > l.x /\ Turn(l, w, p) <= 0 /\ Turn(l, Below(p), w) <= 0
      /\ \A q \in IntPoint : q.x > l.x /\ Turn(l, q, lower) <= 0 => Turn(l, q, w) <= 0
  <2>1. /\ Turn(l, lower, p) \in Int
        /\ Turn(l, lower, Below(p)) \in Int /\ Turn(l, Below(p), lower) = -Turn(l, lower, Below(p))
        /\ Turn(l, Below(p), Below(p)) = 0
    BY <1>1, <1>3, <1>4, TurnFlips
  <2>2. CASE Turn(l, lower, Below(p)) < 0
    <3>1. w = Below(p) /\ Turn(l, lower, w) <= 0
      BY <1>w, <2>1, <2>2
    <3>2. \A q \in IntPoint : q.x > l.x /\ Turn(l, q, lower) <= 0 => Turn(l, q, w) <= 0
      BY <1>1, <1>3, <1>4, <3>1, TurnChains
    <3>3. QED
      BY <1>3, <1>4, <2>1, <3>1, <3>2
  <2>3. CASE ~(Turn(l, lower, Below(p)) < 0)
    <3>1. w = lower /\ Turn(l, Below(p), w) <= 0
      BY <1>w, <2>1, <2>3
    <3>2. Turn(l, w, p) <= 0
      BY <1>5, <2>1, <3>1
    <3>3. QED
      BY <1>1, <3>1, <3>2
  <2>4. QED
    BY <2>2, <2>3
<1>c. PICK c : c = count + 1
  OBVIOUS
<1>8. ASSUME NEW k \in l.y + 2 .. c
      PROVE  /\ Turn(l, u, Above(KeyAt(k))) <= 0
             /\ Turn(l, Below(KeyAt(k)), w) <= 0
  <2>1. CASE k = c
    BY <1>6, <1>7, <1>c, <1>p, <2>1
  <2>2. CASE k # c
    <3>1. k \in l.y + 2 .. count
      BY <1>1, <1>c, <2>2
    <3>2. /\ k \in 1 .. Len(keys) /\ keys[k] > l.x
          /\ Turn(l, upper, Above(KeyAt(k))) <= 0 /\ Turn(l, Below(KeyAt(k)), lower) <= 0
      BY <1>1, <3>1
    <3>3. KeyAt(k) \in [x : Nat, y : Nat] /\ KeyAt(k).x = keys[k]
      BY <3>2, KeyPoints
    <3>4. /\ Above(KeyAt(k)) \in IntPoint /\ Below(KeyAt(k)) \in IntPoint
          /\ Above(KeyAt(k)).x = keys[k] /\ Below(KeyAt(k)).x = keys[k]
      BY <1>2, <3>3, LimitsAre
    <3>5. QED
      BY <1>6, <1>7, <3>2, <3>4
  <2>3. QED
    BY <2>1, <2>2
<1>9. /\ c = count' /\ prev' = KeyAt(c) /\ l.y < prev'.y
      /\ Turn(l, prev', u) <= 0 /\ Turn(l, w, prev') <= 0
  BY <1>3, <1>5, <1>6, <1>7, <1>c, <1>p
<1>d. UNCHANGED data
  OBVIOUS
<1>10. QED
  BY <1>d, <1>5, <1>6, <1>7, <1>8, <1>9, CorridorNext

-----------------------------------------------------------------------------
(* The spline. *)

\* SplineInv after a step.
LEMMA SplineNext ==
    ASSUME UNCHANGED data, NEW s, s = spline', NEW c, c = count',
           s \in Seq([x : Nat, y : Nat]), s # <<>>, s[1] = KeyAt(1),
           \A p \in 1 .. Len(s) : s[p].y + 1 \in 1 .. c /\ s[p] = KeyAt(s[p].y + 1),
           \A p \in 2 .. Len(s) :
                /\ s[p - 1].y < s[p].y
                /\ \A k \in s[p - 1].y + 1 .. s[p].y + 1 : Close(s[p - 1], KeyAt(k), s[p])
    PROVE  SplineInv'
<1>1. \A k : KeyAt(k)' = KeyAt(k)
  BY DEF data, KeyAt
<1>2. ASSUME NEW a, NEW b, NEW k
      PROVE  Close(a, KeyAt(k), b)' = Close(a, KeyAt(k), b)
  <2>1. error' = error
    BY DEF data
  <2>2. QED
    BY <1>1, <2>1, Zenon DEF Close, Turn
<1>3. spline' = s /\ count' = c
  OBVIOUS
<1>4. ASSUME NEW p \in 2 .. Len(s), NEW k \in s[p - 1].y + 1 .. s[p].y + 1
      PROVE  Close(spline[p - 1], KeyAt(k), spline[p])'
  <2>1. Close(s[p - 1], KeyAt(k), s[p])
    BY <1>4
  <2>2. Close(s[p - 1], KeyAt(k), s[p])'
    BY <1>2, <2>1
  <2>3. QED
    BY <1>3, <2>2
<1>5. ASSUME NEW p \in 1 .. Len(s)
      PROVE  (spline[p].y + 1 \in 1 .. count /\ spline[p] = KeyAt(spline[p].y + 1))'
  <2>1. s[p].y + 1 \in 1 .. c /\ s[p] = KeyAt(s[p].y + 1)'
    BY <1>1
  <2>2. QED
    BY <1>3, <2>1
<1>6. (spline \in Seq([x : Nat, y : Nat]) /\ spline # <<>> /\ spline[1] = KeyAt(1))'
  BY <1>1, <1>3
<1>7. \A p \in 2 .. Len(s) : s[p - 1].y < s[p].y
  OBVIOUS
<1>8. QED
  BY <1>3, <1>4, <1>5, <1>6, <1>7 DEF SplineInv

\* A spline that stays what it is, while keys are added.
LEMMA SplineKept ==
    ASSUME KeysInv, SplineInv, UNCHANGED <<data, spline>>, count' \in Nat, count <= count'
    PROVE  SplineInv'
<1>s. PICK s : s = spline
  OBVIOUS
<1>c. PICK c : c = count'
  OBVIOUS
<1>1. count \in Nat
  BY KeyPoints
<1>2. /\ s \in Seq([x : Nat, y : Nat]) /\ s # <<>> /\ s[1] = KeyAt(1)
      /\ \A p \in 1 .. Len(s) : s[p].y + 1 \in 1 .. count /\ s[p] = KeyAt(s[p].y + 1)
      /\ \A p \in 2 .. Len(s) :
            /\ s[p - 1].y < s[p].y
            /\ \A k \in s[p - 1].y + 1 .. s[p].y + 1 : Close(s[p - 1], KeyAt(k), s[p])
  BY <1>s DEF SplineInv
<1>3. \A i \in 1 .. count : i \in 1 .. c
  BY <1>1, <1>c
<1>4. \A p \in 1 .. Len(s) : s[p].y + 1 \in 1 .. c /\ s[p] = KeyAt(s[p].y + 1)
  BY <1>2, <1>3
<1>5. UNCHANGED data /\ s = spline'
  BY <1>s
<1>6. QED
  BY <1>2, <1>4, <1>5, <1>c, SplineNext

\* The first key begins the spline.
LEMMA SplineOfOne ==
    ASSUME KeysInv, UNCHANGED data, spline' = <<KeyAt(1)>>, count' = 1
    PROVE  SplineInv'
<1>s. PICK s : s = <<KeyAt(1)>>
  OBVIOUS
<1>1. 1 \in 1 .. Len(keys) /\ KeyAt(1) \in [x : Nat, y : Nat] /\ KeyAt(1).y = 0
  <2>1. Len(keys) \in Nat /\ Len(keys) # 0
    BY KeyPoints
  <2>2. 1 \in 1 .. Len(keys)
    BY <2>1
  <2>3. QED
    BY <2>2, KeyPoints
<1>2. s \in Seq([x : Nat, y : Nat]) /\ Len(s) = 1 /\ s[1] = KeyAt(1) /\ s # <<>>
  <2> DEFINE S == [x : Nat, y : Nat]
  <2>1. KeyAt(1) \in S
    BY <1>1
  <2> HIDE DEF S
  <2>2. s \in Seq(S) /\ Len(s) = 1 /\ s[1] = KeyAt(1) /\ s # <<>>
    BY <1>s, <2>1
  <2>3. QED
    BY <2>2 DEF S
<1>3. \A p \in 1 .. Len(s) : s[p].y + 1 \in 1 .. 1 /\ s[p] = KeyAt(s[p].y + 1)
  <2>1. \A p \in 1 .. Len(s) : p = 1
    BY <1>2
  <2>2. s[1].y = 0
    BY <1>1, <1>2
  <2>3. s[1].y + 1 = 1
    BY <2>2
  <2>4. QED
    BY <1>2, <2>1, <2>3
<1>4. \A p \in 2 .. Len(s) : FALSE
  BY <1>2
<1>5. UNCHANGED data /\ s = spline' /\ 1 = count'
  BY <1>s
<1>6. QED
  BY <1>2, <1>3, <1>4, <1>5, SplineNext

\* Every key of the corridor is close to the line to the last one of them.
LEMMA CorridorIsClose ==
    ASSUME KeysInv, SplineInv, CorridorInv,
           NEW k \in Final(spline).y + 1 .. count
    PROVE  Close(Final(spline), KeyAt(k), prev)
<1>l. PICK l : l = Final(spline)
  OBVIOUS
<1>1. /\ l \in IntPoint /\ l.y \in Nat /\ l.y + 1 \in 1 .. count /\ l = KeyAt(l.y + 1)
      /\ count \in 1 .. Len(keys) /\ prev \in IntPoint /\ l.x \in Nat /\ prev.x \in Nat /\ prev.x > l.x
      /\ upper \in IntPoint /\ lower \in IntPoint /\ upper.x > l.x /\ lower.x > l.x
      /\ Turn(l, prev, upper) <= 0 /\ Turn(l, lower, prev) <= 0
      /\ \A j \in l.y + 2 .. count :
            /\ j \in 1 .. Len(keys) /\ keys[j] > l.x
            /\ Turn(l, upper, Above(KeyAt(j))) <= 0
            /\ Turn(l, Below(KeyAt(j)), lower) <= 0
  BY <1>l, CorridorIs
<1>2. error \in Nat /\ count \in Nat
  BY KeyPoints DEF KeysInv
<1>3. k \in l.y + 1 .. count
  BY <1>l
<1>4. CASE k = l.y + 1
  <2>1. PICK dx \in Int : dx = prev.x - l.x /\ dx >= 0
    BY <1>1
  <2>2. error * dx \in Int /\ error * dx >= 0
    BY <1>2, <2>1, NotNegative
  <2>3. -error * dx = -(error * dx)
    BY <1>2, <2>1
  <2>4. Turn(l, l, prev) = 0
    BY <1>1, TurnFlips
  <2>5. -error * dx <= 0 /\ 0 <= error * dx
    BY <2>2, <2>3
  <2>6. KeyAt(k) = l
    BY <1>1, <1>4
  <2>7. QED
    BY <1>l, <2>1, <2>4, <2>5, <2>6 DEF Close
<1>5. CASE k # l.y + 1
  <2>1. k \in l.y + 2 .. count
    BY <1>1, <1>2, <1>3, <1>5
  <2>2. /\ k \in 1 .. Len(keys) /\ keys[k] > l.x
        /\ Turn(l, upper, Above(KeyAt(k))) <= 0 /\ Turn(l, Below(KeyAt(k)), lower) <= 0
    BY <1>1, <2>1
  <2>3. KeyAt(k) \in [x : Nat, y : Nat] /\ KeyAt(k).x = keys[k]
    BY <2>2, KeyPoints
  <2>4. /\ Above(KeyAt(k)) \in IntPoint /\ Below(KeyAt(k)) \in IntPoint
        /\ Above(KeyAt(k)).x > l.x /\ Below(KeyAt(k)).x > l.x
    BY <1>2, <2>2, <2>3, LimitsAre
  <2>5. Turn(l, prev, Above(KeyAt(k))) <= 0
    BY <1>1, <2>2, <2>4, TurnChains
  <2>6. Turn(l, Below(KeyAt(k)), prev) <= 0
    BY <1>1, <2>2, <2>4, TurnChains
  <2>7. Close(l, KeyAt(k), prev)
    BY <1>1, <1>2, <2>3, <2>5, <2>6, LimitsMeanClose
  <2>8. QED
    BY <1>l, <2>7
<1>6. QED
  BY <1>4, <1>5

\* The last key of the corridor becomes a point of the spline.
LEMMA SplineGrows ==
    ASSUME KeysInv, SplineInv, CorridorInv, UNCHANGED data, spline' = Append(spline, prev),
           count' \in Nat, count <= count'
    PROVE  SplineInv' /\ Final(spline') = prev
<1>s. PICK s : s = Append(spline, prev)
  OBVIOUS
<1>n. PICK n : n = Len(spline)
  OBVIOUS
<1>o. PICK o : o = spline
  OBVIOUS
<1>c. PICK c : c = count'
  OBVIOUS
<1>1. /\ n \in Nat /\ n # 0 /\ n \in 1 .. n /\ Final(o) = o[n] /\ count \in Nat
      /\ count \in 1 .. Len(keys) /\ prev \in [x : Nat, y : Nat] /\ prev = KeyAt(count) /\ prev.y = count - 1
      /\ o[n].y \in Nat /\ o[n].y < prev.y
  <2>1. n \in Nat /\ n # 0 /\ n \in 1 .. n /\ Final(o) = o[n]
    BY <1>n, <1>o, SplinePoints
  <2>2. /\ count \in 1 .. Len(keys) /\ prev \in [x : Nat, y : Nat] /\ prev = KeyAt(count) /\ prev.y = count - 1
        /\ Final(o).y \in Nat /\ prev.y > Final(o).y
    BY <1>o, CorridorIs
  <2>3. o[n].y < prev.y
    BY <2>1, <2>2
  <2>4. count \in Nat
    BY <2>2
  <2>5. QED
    BY <2>1, <2>2, <2>3, <2>4
<1>2. /\ o \in Seq([x : Nat, y : Nat]) /\ o[1] = KeyAt(1)
      /\ \A p \in 1 .. n : o[p].y + 1 \in 1 .. count /\ o[p] = KeyAt(o[p].y + 1)
      /\ \A p \in 2 .. n :
            /\ o[p - 1].y < o[p].y
            /\ \A k \in o[p - 1].y + 1 .. o[p].y + 1 : Close(o[p - 1], KeyAt(k), o[p])
  BY <1>n, <1>o DEF SplineInv
<1>3. /\ s \in Seq([x : Nat, y : Nat]) /\ Len(s) = n + 1 /\ s # <<>> /\ s[n + 1] = prev
      /\ \A p \in 1 .. n : s[p] = o[p]
  <2> DEFINE S == [x : Nat, y : Nat]
  <2>1. o \in Seq(S) /\ prev \in S /\ s = Append(o, prev) /\ n = Len(o)
    BY <1>1, <1>2, <1>s, <1>n, <1>o
  <2> HIDE DEF S
  <2>2. s \in Seq(S) /\ Len(s) = n + 1 /\ s[n + 1] = prev /\ \A p \in 1 .. n : s[p] = o[p]
    BY <2>1
  <2>3. s # <<>>
    BY <1>1, <2>2
  <2>4. QED
    BY <2>2, <2>3 DEF S
<1>4. s[1] = KeyAt(1)
  BY <1>1, <1>2, <1>3
<1>5. ASSUME NEW p \in 1 .. Len(s) PROVE s[p].y + 1 \in 1 .. c /\ s[p] = KeyAt(s[p].y + 1)
  <2>1. CASE p \in 1 .. n
    <3>1. s[p].y + 1 \in 1 .. count /\ s[p] = KeyAt(s[p].y + 1)
      BY <1>2, <1>3, <2>1
    <3>2. QED
      BY <1>1, <1>c, <3>1
  <2>2. CASE p \notin 1 .. n
    <3>1. s[p] = prev /\ s[p].y = count - 1
      BY <1>1, <1>3, <2>2
    <3>2. s[p].y + 1 = count
      BY <1>1, <3>1
    <3>3. count \in 1 .. c
      BY <1>1, <1>c
    <3>4. QED
      BY <1>1, <3>1, <3>2, <3>3
  <2>3. QED
    BY <2>1, <2>2
<1>6. ASSUME NEW p \in 2 .. Len(s)
      PROVE  /\ s[p - 1].y < s[p].y
             /\ \A k \in s[p - 1].y + 1 .. s[p].y + 1 : Close(s[p - 1], KeyAt(k), s[p])
  <2>1. CASE p \in 1 .. n
    <3>1. p \in 2 .. n /\ p - 1 \in 1 .. n
      BY <1>1, <2>1
    <3>2. s[p] = o[p] /\ s[p - 1] = o[p - 1]
      BY <1>3, <3>1
    <3>3. QED
      BY <1>2, <3>1, <3>2
  <2>2. CASE p \notin 1 .. n
    <3>1. p = n + 1 /\ p - 1 = n
      BY <1>1, <1>3, <2>2
    <3>2. s[p] = prev /\ s[p - 1] = o[n]
      BY <1>1, <1>3, <3>1
    <3>3. s[p].y + 1 = count
      BY <1>1, <3>2
    <3>4. \A k \in o[n].y + 1 .. count : Close(o[n], KeyAt(k), prev)
      <4>1. o[n] = Final(spline)
        BY <1>1, <1>o
      <4>2. \A k \in Final(spline).y + 1 .. count : Close(Final(spline), KeyAt(k), prev)
        BY CorridorIsClose
      <4>3. QED
        BY <4>1, <4>2
    <3>5. QED
      BY <1>1, <3>2, <3>3, <3>4
  <2>3. QED
    BY <2>1, <2>2
<1>7. UNCHANGED data /\ s = spline'
  BY <1>s
<1>8. SplineInv'
  BY <1>3, <1>4, <1>5, <1>6, <1>7, <1>c, SplineNext
<1>9. Final(spline') = prev
  BY <1>3, <1>7 DEF Final
<1>10. QED
  BY <1>8, <1>9

-----------------------------------------------------------------------------
(* The steps. *)

\* The keys stay, and no key is counted twice.
LEMMA KeysKept ==
    ASSUME KeysInv, UNCHANGED data, count' \in 0 .. Len(keys)
    PROVE  KeysInv'
  BY DEF KeysInv, data

\* A key is added.
LEMMA AddKeyStep ==
    ASSUME IInv, AddKey
    PROVE  IInv'
<1>1. /\ KeysInv /\ pc = "add" /\ pc' = "add" /\ UNCHANGED data /\ count < Len(keys) /\ count' = count + 1
      /\ count = 0 => spline = <<>>
      /\ count > 0 => SplineInv
      /\ count = 1 => spline = <<KeyAt(1)>> /\ prev = KeyAt(1)
      /\ count > 1 => CorridorInv
  BY DEF IInv, AddKey
<1>2. count \in Nat /\ Len(keys) \in Nat /\ count' \in Nat /\ count <= count' /\ count' # 0
  <2>1. count \in Nat /\ Len(keys) \in Nat
    BY <1>1, KeyPoints
  <2>2. QED
    BY <1>1, <2>1
<1>3. Point(keys[count + 1], count) = KeyAt(count + 1)
  <2>1. (count + 1) - 1 = count
    BY <1>2
  <2>2. QED
    BY <2>1 DEF KeyAt
<1>4. /\ prev' = KeyAt(count + 1)
      /\ \/ count = 0 /\ spline' = <<KeyAt(count + 1)>>
         \/ /\ count = 1 /\ upper' = Above(prev') /\ lower' = Below(prev') /\ UNCHANGED spline
         \/ /\ count > 1 /\ spline' = Append(spline, prev)
            /\ upper' = Above(prev') /\ lower' = Below(prev')
         \/ /\ count > 1 /\ ~Cuts(prev') /\ Narrowed(prev') /\ UNCHANGED spline
  <2> DEFINE p == Point(keys[count + 1], count)
  <2>1. /\ prev' = p
        /\ \/ count = 0 /\ spline' = <<p>>
           \/ /\ count = 1 /\ upper' = Above(p) /\ lower' = Below(p) /\ UNCHANGED spline
           \/ /\ count > 1 /\ spline' = Append(spline, prev)
              /\ upper' = Above(p) /\ lower' = Below(p)
           \/ /\ count > 1 /\ ~Cuts(p) /\ Narrowed(p) /\ UNCHANGED spline
    BY DEF AddKey, Knot
  <2>2. p = KeyAt(count + 1)
    BY <1>3
  <2> HIDE DEF p
  <2>3. p = prev'
    BY <2>1
  <2>4. QED
    BY <2>1, <2>2, <2>3
<1>5. KeysInv'
  <2>1. count' \in 0 .. Len(keys)
    BY <1>1, <1>2
  <2>2. QED
    BY <1>1, <2>1, KeysKept
<1>6. CASE count = 0
  <2>1. spline' = <<KeyAt(1)>> /\ count' = 1 /\ prev' = KeyAt(1)
    BY <1>1, <1>4, <1>6
  <2>2. SplineInv'
    BY <1>1, <2>1, SplineOfOne
  <2>3. KeyAt(1)' = KeyAt(1)
    BY <1>1 DEF KeyAt, data
  <2>4. QED
    BY <1>1, <1>5, <2>1, <2>2, <2>3 DEF IInv
<1>7. ASSUME count > 0, SplineInv', CorridorInv' PROVE IInv'
  <2>1. count' # 0 /\ count' # 1
    BY <1>1, <1>2, <1>7
  <2>2. QED
    BY <1>1, <1>5, <1>7, <2>1 DEF IInv
<1>8. CASE count = 1
  <2>1. UNCHANGED spline /\ upper' = Above(prev') /\ lower' = Below(prev')
    BY <1>4, <1>8
  <2>2. SplineInv'
    <3>1. UNCHANGED <<data, spline>> /\ SplineInv
      BY <1>1, <1>8, <2>1
    <3>2. QED
      BY <1>1, <1>2, <3>1, SplineKept
  <2>3. Final(spline') = KeyAt(count)
    BY <1>1, <1>8, <2>1 DEF Final
  <2>4. count \in 1 .. Len(keys) - 1
    BY <1>1, <1>2, <1>8
  <2>5. CorridorInv'
    BY <1>1, <1>4, <2>1, <2>3, <2>4, NewCorridor
  <2>6. QED
    BY <1>7, <1>8, <2>2, <2>5
<1>9. CASE count > 1 /\ spline' = Append(spline, prev) /\ upper' = Above(prev') /\ lower' = Below(prev')
  <2>1. SplineInv /\ CorridorInv /\ count > 0
    BY <1>1, <1>2, <1>9
  <2>2. SplineInv' /\ Final(spline') = prev
    BY <1>1, <1>2, <1>9, <2>1, SplineGrows
  <2>3. prev = KeyAt(count)
    BY <2>1 DEF CorridorInv
  <2>4. count \in 1 .. Len(keys) - 1
    BY <1>1, <1>2, <1>9
  <2>5. Final(spline') = KeyAt(count)
    BY <2>2, <2>3
  <2>6. CorridorInv'
    BY <1>1, <1>4, <1>9, <2>4, <2>5, NewCorridor
  <2>7. QED
    BY <1>7, <2>1, <2>2, <2>6
<1>10. CASE count > 1 /\ ~Cuts(prev') /\ Narrowed(prev') /\ UNCHANGED spline
  <2>1. SplineInv /\ CorridorInv /\ count > 0 /\ UNCHANGED <<data, spline>>
    BY <1>1, <1>2, <1>10
  <2>2. SplineInv'
    BY <1>1, <1>2, <2>1, SplineKept
  <2>3. CorridorInv'
    BY <1>1, <1>4, <1>10, <2>1, NarrowedCorridor
  <2>4. QED
    BY <1>7, <2>1, <2>2, <2>3
<1>11. QED
  BY <1>4, <1>6, <1>8, <1>9, <1>10

\* The last key ends the spline.
LEMMA FinalizeStep ==
    ASSUME IInv, Finalize
    PROVE  IInv'
<1>1. /\ KeysInv /\ UNCHANGED data /\ count = Len(keys) /\ count' = count /\ spline' = Closed
      /\ pc' # "add"
      /\ count > 0 => SplineInv
      /\ count = 1 => spline = <<KeyAt(1)>> /\ prev = KeyAt(1)
      /\ count > 1 => CorridorInv
  BY DEF IInv, Finalize
<1>2. count \in Nat /\ count # 0 /\ count' \in Nat /\ count <= count' /\ count > 0
  <2>1. count \in Nat /\ count # 0
    BY <1>1, KeyPoints
  <2>2. QED
    BY <1>1, <2>1
<1>3. KeysInv'
  <2>1. count' \in 0 .. Len(keys)
    BY <1>1, <1>2
  <2>2. QED
    BY <1>1, <2>1, KeysKept
<1>4. SplineInv' /\ Final(spline') = KeyAt(count)
  <2>1. CASE count = 1
    <3>1. spline = <<KeyAt(1)>> /\ prev = KeyAt(1) /\ SplineInv
      BY <1>1, <1>2, <2>1
    <3>2. Final(spline) = KeyAt(1)
      BY <3>1 DEF Final
    <3>3. UNCHANGED <<data, spline>>
      BY <1>1, <3>1, <3>2 DEF Closed
    <3>4. SplineInv'
      BY <1>1, <1>2, <3>1, <3>3, SplineKept
    <3>5. QED
      BY <2>1, <3>2, <3>3, <3>4
  <2>2. CASE count # 1
    <3>1. SplineInv /\ CorridorInv
      BY <1>1, <1>2, <2>2
    <3>l. PICK l : l = Final(spline)
      OBVIOUS
    <3>2. l.x \in Nat /\ prev.x \in Nat /\ prev.x > l.x /\ prev = KeyAt(count)
      BY <1>1, <3>1, <3>l, CorridorIs
    <3>3. l.x # prev.x
      BY <3>2
    <3>4. spline' = Append(spline, prev)
      BY <1>1, <3>l, <3>3 DEF Closed
    <3>5. SplineInv' /\ Final(spline') = prev
      BY <1>1, <1>2, <3>1, <3>4, SplineGrows
    <3>6. QED
      BY <3>2, <3>5
  <2>3. QED
    BY <2>1, <2>2
<1>5. Final(spline)' = KeyAt(Len(keys))'
  BY <1>1, <1>4 DEF Final, KeyAt, data
<1>6. QED
  BY <1>1, <1>3, <1>4, <1>5 DEF IInv

\* The other steps leave the keys and the spline alone.
LEMMA OtherStep ==
    ASSUME IInv, UNCHANGED <<data, count, spline>>, pc # "add", pc' # "add"
    PROVE  IInv'
<1>1. KeysInv /\ SplineInv /\ Final(spline) = KeyAt(Len(keys))
  BY DEF IInv
<1>2. count' \in Nat /\ count <= count' /\ count' \in 0 .. Len(keys)
  <2>1. count \in Nat /\ count \in 0 .. Len(keys)
    BY <1>1, KeyPoints DEF KeysInv
  <2>2. QED
    BY <2>1
<1>3. UNCHANGED data /\ UNCHANGED <<data, spline>>
  OBVIOUS
<1>4. KeysInv' /\ SplineInv'
  BY <1>1, <1>2, <1>3, KeysKept, SplineKept
<1>5. Final(spline)' = KeyAt(Len(keys))'
  BY <1>1, <1>3 DEF Final, KeyAt, data
<1>6. QED
  BY <1>4, <1>5 DEF IInv

\* No key is counted yet.
LEMMA InitIInv == Init => IInv
<1> SUFFICES ASSUME Init PROVE IInv
  OBVIOUS
<1>1. PICK K \in (SUBSET Key) \ {{}} : keys = Sorted(K)
  BY DEF Init
<1>2. K \in SUBSET Nat /\ IsFiniteSet(K) /\ K # {}
  <2>1. Key \subseteq 0 .. MaxKey /\ MaxKey \in Nat /\ IsFiniteSet(Key)
    BY KeysAssumption
  <2>2. IsFiniteSet(K)
    BY <1>1, <2>1, FS_Subset
  <2>3. \A k \in K : k \in Nat
    BY <1>1, <2>1
  <2>4. QED
    BY <1>1, <2>2, <2>3
<1>3. /\ keys \in Seq(Nat) /\ keys # <<>>
      /\ \A i, j \in 1 .. Len(keys) : i < j => keys[i] < keys[j]
  BY <1>1, <1>2, SortedIs
<1>4. error \in Nat
  BY KeysAssumption DEF Init
<1>5. count = 0 /\ pc = "add" /\ spline = <<>>
  BY DEF Init
<1>6. Len(keys) \in Nat
  BY <1>3
<1>7. KeysInv
  BY <1>3, <1>4, <1>5, <1>6 DEF KeysInv
<1>8. QED
  BY <1>5, <1>7 DEF IInv

\* Every step keeps the invariant.
LEMMA NextIInv == IInv /\ [Next]_vars => IInv'
<1> SUFFICES ASSUME IInv, [Next]_vars PROVE IInv'
  OBVIOUS
<1>1. CASE AddKey
  BY <1>1, AddKeyStep
<1>2. CASE Finalize
  BY <1>2, FinalizeStep
<1>3. CASE ComputeStatistics
  <2>1. UNCHANGED <<data, count, spline>> /\ pc # "add" /\ pc' # "add"
    BY <1>3 DEF ComputeStatistics
  <2>2. QED
    BY <2>1, OtherStep
<1>4. CASE Tune
  <2>1. UNCHANGED <<data, count, spline>> /\ pc # "add" /\ pc' # "add"
    BY <1>4 DEF Tune
  <2>2. QED
    BY <2>1, OtherStep
<1>5. CASE Split
  <2>1. UNCHANGED <<data, count, spline>> /\ pc # "add" /\ pc' # "add"
    BY <1>5 DEF Split
  <2>2. QED
    BY <2>1, OtherStep
<1>6. CASE Finish
  <2>1. UNCHANGED <<data, count, spline>> /\ pc # "add" /\ pc' # "add"
    BY <1>6 DEF Finish
  <2>2. QED
    BY <2>1, OtherStep
<1>7. CASE UNCHANGED vars
  BY <1>7 DEF vars, IInv, KeysInv, SplineInv, CorridorInv, Final, KeyAt, Close, Turn, Above, Below
<1>8. QED
  BY <1>1, <1>2, <1>3, <1>4, <1>5, <1>6, <1>7 DEF Next

\* The invariant holds throughout.
LEMMA IInvHolds == Spec => []IInv
  BY InitIInv, NextIInv, PTL DEF Spec

-----------------------------------------------------------------------------
(* What the spline promises. *)

\* The assertions of PossiblyAddKeyToSpline hold before every key.
LEMMA CorridorStaysOpen == IInv => CorridorIsOpen
<1> SUFFICES ASSUME IInv, pc = "add", count \in 2 .. Len(keys) - 1
             PROVE  LET last == Final(spline) IN
                    /\ upper.x >= last.x /\ lower.x >= last.x /\ keys[count + 1] >= last.x
                    /\ upper.y >= last.y /\ count >= last.y
                    /\ prev.x # last.x
  BY DEF CorridorIsOpen
<1>1. KeysInv /\ SplineInv /\ CorridorInv
  <2>1. Len(keys) \in Nat
    BY KeyPoints DEF IInv
  <2>2. count > 0 /\ count > 1
    BY <2>1
  <2>3. QED
    BY <2>2 DEF IInv
<1>l. PICK l : l = Final(spline)
  OBVIOUS
<1>2. /\ l \in IntPoint /\ l.y \in Nat /\ prev \in IntPoint
      /\ l.y + 1 < count /\ l.x \in Nat /\ prev.x \in Nat /\ prev.x > l.x /\ prev.y > l.y
      /\ upper \in IntPoint /\ lower \in IntPoint /\ upper.x > l.x /\ lower.x > l.x
      /\ Turn(l, prev, upper) <= 0
  BY <1>1, <1>l, CorridorIs
<1>3. Len(keys) \in Nat /\ count \in Nat /\ count + 1 \in 1 .. Len(keys)
  <2>1. Len(keys) \in Nat
    BY <1>1, KeyPoints
  <2>2. QED
    BY <2>1
<1>4. l.x = keys[l.y + 1] /\ l.y + 1 \in 1 .. Len(keys)
  BY <1>1, <1>l, SplinePoints
<1>5. keys[l.y + 1] < keys[count + 1] /\ keys[count + 1] \in Nat
  <2>1. l.y + 1 < count + 1
    BY <1>2, <1>3
  <2>2. QED
    BY <1>1, <1>3, <1>4, <2>1, KeyPoints
<1>6. upper.y > l.y
  BY <1>2, SteeperRises
<1>7. upper.x \in Int /\ upper.y \in Int /\ lower.x \in Int
  BY <1>2 DEF IntPoint
<1>8. keys[count + 1] >= l.x
  BY <1>2, <1>4, <1>5
<1>9. upper.x >= l.x /\ lower.x >= l.x /\ upper.y >= l.y /\ count >= l.y /\ prev.x # l.x
  BY <1>2, <1>3, <1>6, <1>7
<1>10. QED
  BY <1>l, <1>8, <1>9

\* The finished spline spans the keys, ascends, and is close to each of them.
LEMMA SplineIsClose ==
    ASSUME IInv, pc # "add"
    PROVE  /\ spline[1].x = keys[1] /\ Final(spline).x = Final(keys)
           /\ \A p \in Points \ {1} : spline[p - 1].x < spline[p].x
           /\ \A k \in 1 .. Len(keys) : \A p \in Points \ {1} :
                spline[p - 1].x <= keys[k] /\ keys[k] <= spline[p].x =>
                    Close(spline[p - 1], Point(keys[k], k - 1), spline[p])
<1>1. KeysInv /\ SplineInv /\ Final(spline) = KeyAt(Len(keys))
  BY DEF IInv
<1>2. Len(keys) \in Nat /\ Len(keys) # 0 /\ Len(spline) \in Nat
  BY <1>1, KeyPoints, SplinePoints
<1>3. 1 \in 1 .. Len(keys) /\ Len(keys) \in 1 .. Len(keys)
  BY <1>2
<1>4. spline[1].x = keys[1] /\ Final(spline).x = Final(keys)
  <2>1. spline[1] = KeyAt(1)
    BY <1>1 DEF SplineInv
  <2>2. QED
    BY <1>1, <1>3, <2>1, KeyPoints DEF Final
<1>5. ASSUME NEW p \in Points \ {1}
      PROVE  /\ p \in 2 .. Len(spline)
             /\ spline[p - 1].x = keys[spline[p - 1].y + 1] /\ spline[p - 1].y + 1 \in 1 .. Len(keys)
             /\ spline[p].x = keys[spline[p].y + 1] /\ spline[p].y + 1 \in 1 .. Len(keys)
             /\ spline[p - 1].y + 1 < spline[p].y + 1
  <2>1. p \in 2 .. Len(spline) /\ p \in 1 .. Len(spline) /\ p - 1 \in 1 .. Len(spline)
    BY <1>2 DEF Points
  <2>2. /\ spline[p].x = keys[spline[p].y + 1] /\ spline[p].y + 1 \in 1 .. Len(keys)
        /\ spline[p - 1].x = keys[spline[p - 1].y + 1] /\ spline[p - 1].y + 1 \in 1 .. Len(keys)
        /\ spline[p - 1].y \in Nat /\ spline[p].y \in Nat
    BY <1>1, <2>1, SplinePoints
  <2>3. spline[p - 1].y < spline[p].y
    BY <1>1, <2>1 DEF SplineInv
  <2>4. spline[p - 1].y + 1 < spline[p].y + 1
    BY <2>2, <2>3
  <2>5. QED
    BY <2>1, <2>2, <2>4
<1>6. \A p \in Points \ {1} : spline[p - 1].x < spline[p].x
  BY SMTT(60), <1>1, <1>5, KeyPoints
<1>7. ASSUME NEW k \in 1 .. Len(keys), NEW p \in Points \ {1}, spline[p - 1].x <= keys[k], keys[k] <= spline[p].x
      PROVE  Close(spline[p - 1], Point(keys[k], k - 1), spline[p])
  <2>1. PICK i, j : i = spline[p - 1].y + 1 /\ j = spline[p].y + 1
    OBVIOUS
  <2>2. i \in 1 .. Len(keys) /\ j \in 1 .. Len(keys) /\ keys[i] <= keys[k] /\ keys[k] <= keys[j]
    BY <1>5, <1>7, <2>1
  <2>3. i <= k /\ k <= j
    BY <1>1, <2>2, KeyPoints
  <2>4. k \in i .. j
    BY <1>2, <2>2, <2>3
  <2>5. \A m \in i .. j : Close(spline[p - 1], KeyAt(m), spline[p])
    BY <1>1, <1>5, <2>1 DEF SplineInv
  <2>6. QED
    BY <2>4, <2>5 DEF KeyAt
<1>8. QED
  BY <1>4, <1>6, <1>7

\* The error corridor (ts/builder.h): for any set of keys and any error, the
\* spline found in one pass goes from the first key to the last, ascends, and
\* is within spline_max_error_ of every key, and no assertion of the pass fails.
THEOREM SplineIsWithinError == Spec => []SplineWithinError
<1>1. IInv => SplineWithinError
  <2> SUFFICES ASSUME IInv PROVE SplineWithinError
    OBVIOUS
  <2>1. CorridorIsOpen
    BY CorridorStaysOpen
  <2>2. CASE pc = "add"
    BY <2>1, <2>2 DEF SplineWithinError
  <2>3. CASE pc # "add"
    <3>1. /\ spline[1].x = keys[1] /\ Final(spline).x = Final(keys)
          /\ \A p \in Points \ {1} : spline[p - 1].x < spline[p].x
          /\ \A k \in 1 .. Len(keys) : \A p \in Points \ {1} :
                spline[p - 1].x <= keys[k] /\ keys[k] <= spline[p].x =>
                    Close(spline[p - 1], Point(keys[k], k - 1), spline[p])
      BY <2>3, SplineIsClose
    <3>2. \A k \in 1 .. Len(keys) : \A p \in Points \ {1} :
                Close(spline[p - 1], Point(keys[k], k - 1), spline[p]) =>
                    LET dx == spline[p].x - spline[p - 1].x
                        off == Turn(spline[p - 1], Point(keys[k], k - 1), spline[p])
                    IN  -error * dx <= off /\ off <= error * dx
      BY DEF Close
    <3>3. QED
      BY <2>1, <3>1, <3>2 DEF SplineWithinError
  <2>4. QED
    BY <2>2, <2>3
<1>2. QED
  BY <1>1, IInvHolds, PTL
=============================================================================
