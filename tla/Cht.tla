-------------------------------- MODULE Cht ---------------------------------
(***************************************************************************)
(* The compact history tree (include/cht/builder.h, cht.h): a tree over    *)
(* sorted keys whose nodes split their range into 2^log bins of equal      *)
(* width.  A bin with at most error keys is a leaf with the position of    *)
(* its first key; any other points to a node of the next level.            *)
(*                                                                         *)
(* A shift by a negative count takes it modulo the word, as the processor  *)
(* does: that happens below the level where bins are narrower than 2^log.  *)
(*                                                                         *)
(* c stands for a builder: [keys, log, shift, error].  Positions and nodes *)
(* count from 0 as in the code.                                            *)
(***************************************************************************)
EXTENDS Integers, Sequences, FiniteSets

CONSTANT WordBits   \* 64 in the code
ASSUME WordAssumption == WordBits \in Nat \ {0}

\* computeLog(n) and computeLog(n, true); n is not 0.
FloorLog(n) == CHOOSE k \in 0 .. WordBits : 2 ^ k <= n /\ n < 2 ^ (k + 1)
CeilLog(n)  == CHOOSE k \in 0 .. WordBits : n <= 2 ^ k /\ (k > 0 => 2 ^ (k - 1) < n)

\* The range of a bin of this level: 1ull << (shift_ - level * log_num_bins_).
Covers(c, level) == 2 ^ ((c.shift - level * c.log) % WordBits)

BinOf(c, level, lower, p) == (c.keys[p + 1] - c.keys[1] - lower) \div Covers(c, level)

\* What initNode writes is inside the node.
Fits(c, level, lower, from, to) ==
    \A p \in from .. to - 1 : BinOf(c, level, lower, p) < 2 ^ c.log

\* Fault: bins without keys before one with keys are not filled in.
InitNodeUnfilled(c, level, lower, from, to) ==
    LET bin  == [p \in from .. to - 1 |-> BinOf(c, level, lower, p)]
        In(b) == {p \in DOMAIN bin : bin[p] = b}
    IN  [level |-> level, lower |-> lower, from |-> from, to |-> to,
         bins  |-> [b \in 0 .. 2 ^ c.log - 1 |->
                       IF In(b) = {} THEN [first |-> to, second |-> to, leaf |-> FALSE]
                       ELSE LET first == CHOOSE p \in In(b) : \A q \in In(b) : p <= q
                            IN  [first |-> first, second |-> first + Cardinality(In(b)), leaf |-> FALSE]]]

\* The node of a level for the keys from .. to - 1; which keys these were is
\* kept for properties.
InitNode(c, level, lower, from, to) ==
    LET bin == [p \in from .. to - 1 |-> BinOf(c, level, lower, p)] IN
    [level |-> level, lower |-> lower, from |-> from, to |-> to,
     bins  |-> [b \in 0 .. 2 ^ c.log - 1 |->
                   [first  |-> from + Cardinality({p \in DOMAIN bin : bin[p] < b}),
                    second |-> from + Cardinality({p \in DOMAIN bin : bin[p] <= b}),
                    leaf   |-> FALSE]]]

Root(c) == InitNode(c, 0, 0, 0, Len(c.keys))

\* More keys than values is a leaf, too.
ToSplit(c, node) ==
    {b \in DOMAIN node.bins :
        LET size == node.bins[b].second - node.bins[b].first
        IN  size > c.error /\ size <= Covers(c, node.level)}

\* Fault: the new node is of the same level.
SplitNodeSameLevel(c, tree, at) ==
    LET node   == tree[at]
        split  == ToSplit(c, node)
        Rank(b) == Cardinality({d \in split : d <= b})
        Nth(k) == CHOOSE b \in split : Rank(b) = k
        Below(b) == InitNode(c, node.level, node.lower + b * Covers(c, node.level),
                             node.bins[b].first, node.bins[b].second)
    IN  [tree EXCEPT ![at].bins =
            [b \in DOMAIN node.bins |->
                IF b \in split
                THEN [first |-> 0, second |-> Len(tree) + Rank(b) - 1, leaf |-> FALSE]
                ELSE [node.bins[b] EXCEPT !.leaf = TRUE]]]
        \o [k \in 1 .. Cardinality(split) |-> Below(Nth(k))]

\* One turn of BuildOffline's loop: every bin of the node is made a leaf, or
\* gets a node of its own at the end of the tree.
SplitNode(c, tree, at) ==
    LET node   == tree[at]
        split  == ToSplit(c, node)
        Rank(b) == Cardinality({d \in split : d <= b})
        Nth(k) == CHOOSE b \in split : Rank(b) = k
        Below(b) == InitNode(c, node.level + 1, node.lower + b * Covers(c, node.level),
                             node.bins[b].first, node.bins[b].second)
    IN  [tree EXCEPT ![at].bins =
            [b \in DOMAIN node.bins |->
                IF b \in split
                THEN [first |-> 0, second |-> Len(tree) + Rank(b) - 1, leaf |-> FALSE]
                ELSE [node.bins[b] EXCEPT !.leaf = TRUE]]]
        \o [k \in 1 .. Cardinality(split) |-> Below(Nth(k))]

\* The descent of Lookup, for an offset from the first key.
Descend(c, tree, offset) ==
    LET Go[node \in Nat, rest \in Nat] ==
            LET covers == Covers(c, tree[node + 1].level)
                bin    == tree[node + 1].bins[rest \div covers]
            IN  IF bin.leaf THEN bin.first ELSE Go[bin.second, rest % covers]
    IN  Go[0, offset]

Lookup(c, tree, key) ==
    IF key <= c.keys[1] THEN 0
    ELSE IF key >= c.keys[Len(c.keys)] THEN Len(c.keys) - 1
    ELSE Descend(c, tree, key - c.keys[1])

GetSearchBound(c, tree, key) ==
    LET begin == Lookup(c, tree, key)
        end   == begin + c.error + 1
    IN  [begin |-> begin, end |-> IF end > Len(c.keys) THEN Len(c.keys) ELSE end]
=============================================================================
