---------------------------- MODULE RadixSpline ----------------------------
(***************************************************************************)
(* The radix spline (include/plex/rs): the spline of TrieSpline with a     *)
(* table of prefixes instead of a tree, and a multimap on top of it.  Its  *)
(* keys may repeat: only the first of equal keys is a point.               *)
(*                                                                         *)
(* b stands for a builder, s for a finished radix spline.  Positions count *)
(* from 0, and ratios are exact, as in Plex.                               *)
(***************************************************************************)
EXTENDS Plex, SequencesExt

\* One key alone spans no range: its number of leading zeros is undefined.
RadixBuilder(min, max, bits, maxError) ==
    LET diff  == max - min
        shift == IF FloorLog(diff) + 1 < bits THEN 0 ELSE FloorLog(diff) + 1 - bits
    IN  [min |-> min, max |-> max, shift |-> shift, error |-> maxError,
         count |-> 0, distinct |-> 0, key |-> min, position |-> 0, prefix |-> 0,
         table |-> [p \in 0 .. diff \div 2 ^ shift + 1 |-> 0],
         points |-> <<>>, upper |-> Point(0, 0), lower |-> Point(0, 0), prev |-> Point(0, 0)]

\* A point is where the prefixes since the last one begin.
PossiblyAddKeyToRadixTable(b, to, index) ==
    [b EXCEPT !.table = [p \in DOMAIN @ |-> IF p \in b.prefix + 1 .. to THEN index ELSE @[p]],
              !.prefix = to]

AddKeyToSpline(b, p) ==
    PossiblyAddKeyToRadixTable([b EXCEPT !.points = Append(@, p)],
                               (p.x - b.min) \div 2 ^ b.shift, Len(b.points))

\* The corridor of the next points, when p is its only one.
Limits(b, p) == [b EXCEPT !.upper = Point(p.x, p.y + b.error),
                          !.lower = Point(p.x, IF p.y < b.error THEN 0 ELSE p.y - b.error),
                          !.prev = p]

PossiblyAddKeyToSpline(b, p) ==
    LET last   == Final(b.points)
        narrow == Limits(b, p)
        cut    == Turn(last, b.upper, p) <= 0 \/ Turn(last, b.lower, p) >= 0
    IN  IF b.count = 0 THEN [AddKeyToSpline(b, p) EXCEPT !.distinct = 1, !.prev = p]
        ELSE IF p.x = b.key THEN b
        ELSE IF b.distinct = 1 THEN [narrow EXCEPT !.distinct = 2]
        ELSE IF cut THEN Limits([AddKeyToSpline(b, b.prev) EXCEPT !.distinct = @ + 1], p)
        ELSE [b EXCEPT !.distinct = @ + 1,
                       !.upper = IF Turn(last, b.upper, narrow.upper) > 0 THEN narrow.upper ELSE @,
                       !.lower = IF Turn(last, b.lower, narrow.lower) < 0 THEN narrow.lower ELSE @,
                       !.prev = p]

RadixAddKey(b, key) ==
    LET position == IF b.count = 0 THEN 0 ELSE b.position + 1
    IN  [PossiblyAddKeyToSpline(b, Point(key, position)) EXCEPT
           !.count = @ + 1, !.key = key, !.position = position]

\* The largest key goes on the spline, at the position of its last copy.
RadixFinalize(b) ==
    LET closed == IF b.count > 0 /\ Final(b.points).x # b.key
                  THEN AddKeyToSpline(b, Point(b.key, b.position)) ELSE b
    IN  [closed EXCEPT !.table = [p \in DOMAIN @ |->
                                     IF p > closed.prefix THEN Len(closed.points) ELSE @[p]]]

\* The point right of the key: points are looked at from where the key's
\* prefix begins, in a long range up to where the next begins.
RadixSegment(s, key) ==
    LET prefix == (key - s.min) \div 2 ^ s.shift
        begin  == s.table[prefix]
        end    == s.table[prefix + 1]
        right  == {i \in begin .. Len(s.points) - 1 : s.points[i + 1].x >= key}
    IN  IF end - begin < FewPoints THEN Min(right) ELSE Min({i \in right : i < end} \cup {end})

\* Cut to an integer; a whole number may come out one lower.
RadixEstimates(s, key) ==
    IF key <= s.min THEN {0}
    ELSE IF key >= s.max THEN {s.count - 1}
    ELSE LET index == RadixSegment(s, key)
             down  == s.points[index]
             up    == s.points[index + 1]
             rise  == (key - down.x) * (up.y - down.y)
             whole == down.y + rise \div (up.x - down.x)
         IN  IF rise % (up.x - down.x) = 0 THEN {whole, whole - 1} \cap Nat ELSE {whole}

\* Fault: the position itself is the end of the bound.
RadixBoundShort(s, estimate) ==
    [begin |-> IF estimate < s.error THEN 0 ELSE estimate - s.error,
     end   |-> AtMost(estimate + s.error, s.count)]

RadixSearchBound(s, estimate) ==
    [begin |-> IF estimate < s.error THEN 0 ELSE estimate - s.error,
     end   |-> AtMost(estimate + s.error + 2, s.count)]

\* MultiMap: the data, sorted if they are not, and their spline.
MultiMap(pairs, bits, maxError) ==
    LET sorted == SortSeq(pairs, LAMBDA p, q : p < q)
        new    == RadixBuilder(sorted[1], Final(sorted), bits, maxError)
    IN  [data |-> sorted, rs |-> RadixFinalize(FoldLeft(RadixAddKey, new, sorted))]

\* std::lower_bound within the search bound.
MapLowerBound(m, key, estimate) ==
    LET bound == RadixSearchBound(m.rs, estimate)
    IN  Min({p \in bound.begin .. bound.end - 1 : m.data[p + 1] >= key} \cup {bound.end})

MapFind(m, key, estimate) ==
    LET p == MapLowerBound(m, key, estimate)
    IN  IF p # Len(m.data) /\ m.data[p + 1] = key THEN p ELSE Len(m.data)

-----------------------------------------------------------------------------
\* The keys of the model, in the wrong order; and in the right one, with
\* every third key three times and the largest once.
Backward == [p \in 1 .. Len(keys) |-> keys[Len(keys) + 1 - p]]
Copied   == FlattenSeq([p \in 1 .. Len(keys) |->
                           IF p % 3 = 1 /\ p < Len(keys) THEN <<keys[p], keys[p], keys[p]>> ELSE <<keys[p]>>])

FirstOf(s, key) == Cardinality({p \in 1 .. Len(s) : s[p] < key})
Asked == 0 .. MaxKey

\* The two builders, one with a state of its own for equal keys, find the
\* same spline.  Of distinct keys, MultiMap's lower_bound names the first
\* that is not smaller, for every number and width of table: the search from
\* a table entry never starts behind the key and the bound never misses it.
\* Of repeated keys, find names the first of those that are stored.
RadixSplineFinds ==
    pc \in {"statistics", "undefined"} =>
        \A bits \in {1, 2, 4} :
            /\ \E m \in {MultiMap(Backward, bits, error)} :
                  /\ m.rs.points = spline
                  /\ \A key \in Asked : \A estimate \in RadixEstimates(m.rs, key) :
                        MapLowerBound(m, key, estimate) = FirstOf(keys, key)
            /\ \E m \in {MultiMap(Copied, bits, error)} :
                  \A key \in Asked : \A estimate \in RadixEstimates(m.rs, key) :
                      MapFind(m, key, estimate) = IF key \in ToSet(keys) THEN FirstOf(Copied, key) ELSE Len(Copied)
=============================================================================
