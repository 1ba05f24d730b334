-------------------------------- MODULE Plex --------------------------------
(***************************************************************************)
(* The learned model of a chunk of keys (include/plex_model_impl.h and     *)
(* include/plex/ts): a spline through points of the keys' distribution,    *)
(* found in one pass, and a compact history tree or radix table over the   *)
(* spline's points, whichever costs less.                                  *)
(*                                                                         *)
(* Keys are integers that a double represents; ratios are exact.  Where    *)
(* the code's rounding could show, a position that is a whole number may   *)
(* come out one lower.  Points and positions count from 1 in sequences and *)
(* from 0 in every value, as in the code.                                  *)
(***************************************************************************)
EXTENDS Cht, FiniteSetsExt

CONSTANTS
    Key,            \* the keys that may be trained
    MaxKey,         \* the largest key anyone asks for
    Errors,         \* spline_max_error_: PlexModel takes 0
    MaxRadixBits,   \* 30 in the code
    MaxLogBins,     \* 20 in the code
    MaxTreeError,   \* 1024 in the code
    FewPoints,      \* 32 in the code
    MaxNodes        \* bound: nodes of a tree
ASSUME KeysAssumption ==
    /\ MaxKey \in Nat /\ Key \subseteq 0 .. MaxKey /\ IsFiniteSet(Key)
    /\ {MaxRadixBits, MaxLogBins, MaxTreeError, FewPoints, MaxNodes} \cup Errors \subseteq Nat

VARIABLES
    pc,             \* what the builder is doing
    keys, error,    \* the keys, and spline_max_error_
    count,          \* curr_num_keys_
    spline,         \* spline_points_: [x, y]
    upper, lower,   \* upper_limit_, lower_limit_
    prev,           \* prev_point_
    statistics,     \* the tunings and their costs
    tuning,         \* numBins (its logarithm) and treeMaxError
    tree, at        \* of the tree's builder
vars == <<pc, keys, error, count, spline, upper, lower, prev, statistics, tuning, tree, at>>
corridor == <<upper, lower, prev>>
data == <<keys, error>>

Final(s) == s[Len(s)]
Sorted(K) == [p \in 1 .. Cardinality(K) |-> CHOOSE k \in K : Cardinality({j \in K : j <= k}) = p]
Point(x, y) == [x |-> x, y |-> y]

Init ==
    /\ keys \in {Sorted(K) : K \in (SUBSET Key) \ {{}}} /\ error \in Errors
    /\ pc = "add" /\ count = 0 /\ spline = <<>>
    /\ upper = Point(0, 0) /\ lower = Point(0, 0) /\ prev = Point(0, 0)
    /\ statistics = {} /\ tuning = [log |-> 0, error |-> 0] /\ tree = <<>> /\ at = 0

-----------------------------------------------------------------------------
(* The spline. *)

Above(p) == Point(p.x, p.y + error)
Below(p) == Point(p.x, IF p.y < error THEN 0 ELSE p.y - error)

\* ComputeOrientation of two points seen from a third: positive is CW.
Turn(from, p, q) == (p.y - from.y) * (q.x - from.x) - (q.y - from.y) * (p.x - from.x)

\* Do we cut the error corridor?
Cuts(p) == LET last == Final(spline)
           IN  Turn(last, upper, p) <= 0 \/ Turn(last, lower, p) >= 0

Narrowed(p) ==
    LET last == Final(spline) IN
    /\ upper' = IF Turn(last, upper, Above(p)) > 0 THEN Above(p) ELSE upper
    /\ lower' = IF Turn(last, lower, Below(p)) < 0 THEN Below(p) ELSE lower

\* Fault: the key that cuts the corridor is added to the spline.
KnotLate(p) == p
Knot(p) == prev

AddKey ==
    LET p == Point(keys[count + 1], count) IN
    /\ pc = "add" /\ count < Len(keys)
    /\ count' = count + 1
    /\ \/ /\ count = 0
          /\ spline' = <<p>> /\ UNCHANGED <<upper, lower>>
       \/ /\ count = 1
          /\ upper' = Above(p) /\ lower' = Below(p) /\ UNCHANGED spline
       \/ /\ count > 1 /\ Cuts(p)
          /\ spline' = Append(spline, Knot(p)) /\ upper' = Above(p) /\ lower' = Below(p)
       \/ /\ count > 1 /\ ~Cuts(p)
          /\ Narrowed(p) /\ UNCHANGED spline
    /\ prev' = p
    /\ UNCHANGED <<pc, statistics, tuning, tree, at>> /\ UNCHANGED data

-----------------------------------------------------------------------------
(* The tuning.  What is chosen has the least cost, and of these takes the  *)
(* least space.                                                            *)

Points == 1 .. Len(spline)
Offset(p) == spline[p].x - spline[1].x
MaxMinus == Final(keys) - keys[1]
Log == CeilLog(MaxMinus)
AtMost(a, b) == IF a < b THEN a ELSE b

\* The points, grouped by what is left of their offsets after a shift.
Groups(shift) ==
    {{p \in Points : Offset(p) \div 2 ^ shift = v} : v \in {Offset(p) \div 2 ^ shift : p \in Points}}

NumShiftBits(bits) == IF FloorLog(MaxMinus) + 1 < bits THEN 0 ELSE FloorLog(MaxMinus) + 1 - bits
CostOf(n) == IF n = 1 THEN 1 ELSE CeilLog(n)

\* Bits above Log repeat the numbers of Log and are never preferred.
RadixTables ==
    {LET Data(g) == spline[IF Max(g) = Len(spline) THEN Len(spline) ELSE Max(g) + 1].y - spline[Min(g)].y
     IN  [log |-> bits, error |-> Len(spline),
          cost |-> MapThenSumSet(LAMBDA g : Data(g) * CostOf(Cardinality(g)), Groups(NumShiftBits(bits))),
          over |-> Final(spline).y, plus |-> 0,
          space |-> (MaxMinus \div 2 ^ NumShiftBits(bits) + 2) * 4]
        : bits \in 1 .. AtMost(MaxRadixBits, Log)}

Trees ==
    {LET levels == {l \in 1 .. Log - 1 : l % bits = 0}
         Split  == {lg \in UNION {{l} \X Groups(Log - l) : l \in levels} : Cardinality(lg[2]) > delta}
     IN  [log |-> bits, error |-> delta,
          cost |-> MapThenSumSet(LAMBDA lg : Cardinality(lg[2]), Split),
          over |-> Len(spline), plus |-> CeilLog(delta),
          space |-> (1 + Cardinality(Split)) * 2 ^ bits * 4]
        : bits \in 1 .. AtMost(MaxLogBins, Log), delta \in 1 .. MaxTreeError}

Cheaper(s, t) == (s.cost + s.plus * s.over) * t.over < (t.cost + t.plus * t.over) * s.over

Closed == IF Final(spline).x # prev.x THEN Append(spline, prev) ELSE spline

\* The last key is on the spline.  One key spans no range, which is asserted;
\* with a power of two the longest common prefix is -1, and counted.
Finalize ==
    /\ pc = "add" /\ count = Len(keys)
    /\ spline' = Closed
    /\ pc' = IF MaxMinus = 0 THEN "aborted"
             ELSE IF \E k \in 0 .. WordBits : MaxMinus = 2 ^ k THEN "undefined"
             ELSE "statistics"
    /\ UNCHANGED <<count, statistics, tuning, tree, at>> /\ UNCHANGED data /\ UNCHANGED corridor

ComputeStatistics ==
    /\ pc = "statistics"
    /\ statistics' = RadixTables \cup Trees
    /\ pc' = "tune"
    /\ UNCHANGED <<count, spline, tuning, tree, at>> /\ UNCHANGED data /\ UNCHANGED corridor

-----------------------------------------------------------------------------
(* The tree over the points. *)

BuilderFor(t) == [keys |-> [p \in Points |-> spline[p].x], log |-> t.log,
                  shift |-> Log - t.log, error |-> t.error]
Builder == BuilderFor(tuning)

\* Of what fits into the space of the points, and equals in cost and space.
InferTuning ==
    LET limited == {s \in statistics : s.space <= Len(spline) * 16}
        cheap   == {s \in limited : \A t \in limited : ~Cheaper(t, s)}
    IN  {s \in cheap : \A t \in cheap : s.space <= t.space}

Tune == /\ pc = "tune"
        /\ \E s \in InferTuning :
              /\ tuning' = [log |-> s.log, error |-> s.error]
              /\ tree' = <<Root(BuilderFor(s))>>
        /\ statistics' = {}
        /\ pc' = "build"
        /\ UNCHANGED <<count, spline, at>> /\ UNCHANGED data /\ UNCHANGED corridor

\* Fault: only a node that got children leaves the queue.
SplitNoPop == /\ pc = "build" /\ at < Len(tree) /\ Len(tree) <= MaxNodes
              /\ tree' = SplitNode(Builder, tree, at + 1)
              /\ at' = IF Len(tree') > Len(tree) THEN at + 1 ELSE at
              /\ UNCHANGED <<pc, count, spline, statistics, tuning>>
              /\ UNCHANGED data /\ UNCHANGED corridor
Split == /\ pc = "build" /\ at < Len(tree) /\ Len(tree) <= MaxNodes
         /\ tree' = SplitNode(Builder, tree, at + 1)
         /\ at' = at + 1
         /\ UNCHANGED <<pc, count, spline, statistics, tuning>> /\ UNCHANGED data /\ UNCHANGED corridor

\* Flatten: the order of the nodes in memory is left out.
Finish == /\ pc = "build" /\ at = Len(tree)
          /\ pc' = "ready"
          /\ UNCHANGED <<count, spline, statistics, tuning, tree, at>> /\ UNCHANGED data /\ UNCHANGED corridor

Next == AddKey \/ Finalize \/ ComputeStatistics \/ Tune \/ Split \/ Finish

Spec     == Init /\ [][Next]_vars
FairSpec == Spec /\ WF_vars(Next)

-----------------------------------------------------------------------------
(* Use: what a ready model answers. *)

\* A tree of one node is replaced by a radix table with one more entry.
Bound(key) ==
    IF Len(tree) > 1
    THEN LET begin == Descend(Builder, tree, key - keys[1])
         IN  [begin |-> begin, end |-> AtMost(begin + tuning.error + 1, Len(spline))]
    ELSE LET shift == NumShiftBits(tuning.log)
             last  == MaxMinus \div 2 ^ shift + 1
             table == [i \in 0 .. last |->
                          IF i = last THEN Len(spline)
                          ELSE IF i < 2 ^ tuning.log THEN tree[1].bins[i].first ELSE 0]
             prefix == (key - keys[1]) \div 2 ^ shift
         IN  [begin |-> table[prefix], end |-> table[prefix + 1]]

\* A short bound is where a search to the right starts, with no end of its own;
\* a long one is all that is looked at.
GetSplineSegment(key) ==
    LET bound == Bound(key)
        found == {p \in Points : p > bound.begin /\ spline[p].x >= key}
    IN  IF bound.end - bound.begin < FewPoints THEN Min(found \cup {Len(spline) + 1}) - 1
        ELSE Min({p - 1 : p \in {q \in found : q <= bound.end}} \cup {bound.end})

\* GetEstimatedPosition, cut to an integer.
Estimates(key) ==
    IF key <= keys[1] THEN {0}
    ELSE IF key >= Final(keys) THEN {Len(keys) - 1}
    ELSE LET up   == spline[GetSplineSegment(key) + 1]
             down == spline[GetSplineSegment(key)]
             rise == (key - down.x) * (up.y - down.y)
             whole == down.y + rise \div (up.x - down.x)
         IN  IF rise % (up.x - down.x) = 0 THEN {whole, whole - 1} \cap Nat ELSE {whole}

\* Fault: the estimate is taken to be exact.
NearOne(begin) == {p \in {begin} : p < Len(keys)}
Near(begin) == {p \in begin .. begin + 2 : p < Len(keys)}

\* predict, with the estimate the spline gives for the key.
Predict(key, estimate) ==
    LET begin == IF estimate < error THEN 0 ELSE estimate - error
        hits  == {p \in Near(begin) : keys[p + 1] = key}
        less  == {p \in Near(begin) : keys[p + 1] < key}
    IN  IF key < keys[1] THEN 0
        ELSE IF key > Final(keys) THEN Len(keys) - 1
        ELSE IF hits # {} THEN Min(hits)
        ELSE IF less # {} THEN Max(less) ELSE 0

-----------------------------------------------------------------------------
(* Properties. *)

\* The assertions of PossiblyAddKeyToSpline (ts/builder.h:188-204), before
\* every key from the third on.
CorridorIsOpen ==
    pc = "add" /\ count \in 2 .. Len(keys) - 1 =>
        LET last == Final(spline) IN
        /\ upper.x >= last.x /\ lower.x >= last.x /\ keys[count + 1] >= last.x
        /\ upper.y >= last.y /\ count >= last.y
        /\ prev.x # last.x

\* The error corridor: the finished spline goes from the first key to the last
\* and ascends, and every key's position is within spline_max_error_ of it,
\* although each limit was drawn when the keys after it were unknown.
SplineWithinError ==
    /\ CorridorIsOpen
    /\ pc \in {"statistics", "tune", "build", "ready"} =>
        /\ spline[1].x = keys[1] /\ Final(spline).x = Final(keys)
        /\ \A p \in Points \ {1} : spline[p - 1].x < spline[p].x
        /\ \A k \in 1 .. Len(keys) : \A p \in Points \ {1} :
            spline[p - 1].x <= keys[k] /\ keys[k] <= spline[p].x =>
                LET dx == spline[p].x - spline[p - 1].x
                    off == Turn(spline[p - 1], Point(keys[k], k - 1), spline[p])
                IN  -error * dx <= off /\ off <= error * dx

\* "`key` in (spline[index - 1], spline[index]]" (ts/ts.h): the bound of the
\* tree or table never starts behind the point, whatever tuning was chosen.
SegmentIsRight ==
    pc = "ready" => \A key \in keys[1] + 1 .. Final(keys) - 1 :
        LET index == GetSplineSegment(key)
        IN  index \in 1 .. Len(spline) - 1 /\ spline[index].x < key /\ key <= spline[index + 1].x

\* What AidelModel relies on: predict names the position of a stored key, and
\* for any other the last position with a smaller key.
PredictIsRight ==
    pc = "ready" /\ error = 0 => \A key \in 0 .. MaxKey : \A estimate \in Estimates(key) :
        Predict(key, estimate) = IF key < keys[1] THEN 0
                                 ELSE Max({k \in 1 .. Len(keys) : keys[k] <= key}) - 1

\* A node below the level where bins are as narrow as shifts allow.
TooDeep == \E n \in 1 .. Len(tree) : Log - tuning.log < tree[n].level * tuning.log

\* Building ends, unless keys in one bin of the last level are more than the
\* tree's error and shifts, which go below zero then, never come to zero: the
\* number of bins is an even power of two.  "Finalizes the construction and
\* returns" (ts_cht/builder.h:35) says so without an exception; the keys 0, 1,
\* 7, 55, 106, tuned to 4 bins and error 1, are one.
BuildEnds == <>(pc \in {"ready", "aborted", "undefined"} \/ (TooDeep /\ tuning.log % 2 = 0))
=============================================================================
