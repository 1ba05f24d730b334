---------------------------- MODULE ChtBuilders ----------------------------
(***************************************************************************)
(* The other ways of include/cht/builder.h to a compact history tree: a    *)
(* single pass, which grows every path to the last level and prunes it     *)
(* afterwards, and the cache-oblivious order of the nodes.  Trees are      *)
(* those of Cht, and looked up as they are.                                *)
(***************************************************************************)
EXTENDS Cht, SequencesExt, FiniteSetsExt

Infinity == -1
Bins(c) == 0 .. 2 ^ c.log - 1
Indices(n) == [i \in 1 .. n |-> i]

-----------------------------------------------------------------------------
(* Single pass.  A node is [lower, bins], a bin the number of keys before  *)
(* its first (first) and the node below it (second), or Infinity.          *)

EmptyNode(c, lower) ==
    [lower |-> lower, bins |-> [b \in Bins(c) |-> [first |-> Infinity, second |-> Infinity]]]

\* The key goes down to the last level there is room for; where none came
\* before, bins are set, and a node is added below each but the last.
RECURSIVE IncrementTable(_, _, _, _, _, _)
IncrementTable(c, t, key, n, level, node) ==
    LET lower  == t[node + 1].lower
        bin    == (key - c.keys[1] - lower) \div Covers(c, level)
        deeper == c.shift >= (level + 1) * c.log
        marked == [t EXCEPT ![node + 1].bins[bin] =
                      [first |-> n, second |-> IF deeper THEN Len(t) ELSE Infinity]]
        grown  == Append(marked, EmptyNode(c, lower + bin * Covers(c, level)))
        fresh  == t[node + 1].bins[bin].first = Infinity
    IN  IF ~deeper THEN (IF fresh THEN marked ELSE t)
        ELSE IncrementTable(c, IF fresh THEN grown ELSE t, key, n, level + 1,
                            IF fresh THEN Len(t) ELSE t[node + 1].bins[bin].second)

AllKeys(c) ==
    FoldLeft(LAMBDA t, p : IncrementTable(c, t, c.keys[p], p - 1, 0, 0),
             <<EmptyNode(c, 0)>>, Indices(Len(c.keys)))

\* AnalyzeNode, for element e of the queue: [node, to], the keys of which end
\* before to.  Bins are gone through backward; those of the last level do not
\* count as the end of the ones before them.
Analyzed(c, t, e) ==
    LET bins  == t[e.node + 1].bins
        Ends(b) == {bins[d].first : d \in {d \in Bins(c) : d > b /\ bins[d].second # Infinity}}
        End(b) == Min(Ends(b) \cup {e.to})
    IN  [b \in Bins(c) |->
            IF bins[b].first = Infinity THEN [leaf |-> TRUE, first |-> End(b), second |-> 0, to |-> End(b)]
            ELSE [leaf   |-> bins[b].second = Infinity \/ End(b) - bins[b].first <= c.error,
                  first  |-> bins[b].first,
                  second |-> bins[b].second,
                  to     |-> End(b)]]

\* The nodes in the order they are visited, and the queue after each.
RECURSIVE Prune(_, _, _, _)
Prune(c, t, queue, flat) ==
    LET bins == Analyzed(c, t, Head(queue))
        last == 2 ^ c.log
        next == SelectSeq([i \in 1 .. last |-> last - i], LAMBDA b : ~bins[b].leaf)
        pushed == [i \in 1 .. Len(next) |->
                      [node |-> bins[next[i]].second, to |-> bins[next[i]].to, level |-> Head(queue).level + 1]]
    IN  IF queue = <<>> THEN flat
        ELSE Prune(c, t, Tail(queue) \o pushed,
                   Append(flat, [node |-> Head(queue).node, level |-> Head(queue).level, bins |-> bins]))

PruneAndFlatten(c) ==
    LET flat == Prune(c, AllKeys(c), <<[node |-> 0, to |-> Len(c.keys), level |-> 0]>>, <<>>)
        Mapping(node) == SelectInSeq(flat, LAMBDA f : f.node = node) - 1
    IN  [i \in 1 .. Len(flat) |->
            [flat[i] EXCEPT !.bins = [b \in DOMAIN @ |->
                IF @[b].leaf THEN @[b] ELSE [@[b] EXCEPT !.second = Mapping(@)]]]]

-----------------------------------------------------------------------------
(* BuildOffline, from the root on.                                         *)

RECURSIVE SplitFrom(_, _, _)
SplitFrom(c, tree, at) == IF at = Len(tree) THEN tree ELSE SplitFrom(c, SplitNode(c, tree, at + 1), at + 1)

BuildOffline(c) == SplitFrom(c, <<Root(c)>>, 0)

-----------------------------------------------------------------------------
(* The cache-oblivious order.                                              *)

Children(tree, v) == {bin.second : bin \in {tree[v + 1].bins[b] : b \in {d \in DOMAIN tree[v + 1].bins :
                                                                          ~tree[v + 1].bins[d].leaf}}}

\* helper: the first node of a level below v, and how many there are, which
\* are taken to follow each other.
Subtrees(tree) ==
    LET Under[v \in 0 .. Len(tree) - 1] == {v} \cup UNION {Under[u] : u \in Children(tree, v)}
    IN  Under

AtLevel(tree, under, v, l) ==
    LET nodes == {u \in under[v] : tree[u + 1].level = l}
    IN  [i \in 1 .. Cardinality(nodes) |-> Min(nodes) + i - 1]

\* The upper half of the levels first, then each subtree below it: the nodes
\* in the order in which fill() numbers them.
RECURSIVE Fill(_, _, _, _, _)
Fill(tree, under, row, lh, uh) ==
    LET deepest == Max({tree[u + 1].level : u \in under[row]})
        reached == IF deepest + 1 < uh THEN deepest + 1 ELSE uh
        split   == lh + (reached - lh) \div 2
    IN  IF uh - lh = 1 \/ under[row] = {row} THEN <<row>>
        ELSE FoldLeft(LAMBDA placed, u : placed \o Fill(tree, under, u, split, uh),
                      Fill(tree, under, row, lh, split), AtLevel(tree, under, row, split))

CacheObliviousOrder(tree) == Fill(tree, Subtrees(tree), 0, 0, tree[Len(tree)].level + 1)

\* Fault: nodes are moved, the pointers to them are not.
FlattenUnmapped(tree, order) == [i \in 1 .. Len(order) |-> tree[order[i] + 1]]

CacheObliviousFlatten(tree, order) ==
    LET Place(v) == SelectInSeq(order, LAMBDA u : u = v) - 1
        Moved(node) == [node EXCEPT !.bins = [b \in DOMAIN @ |->
                           IF @[b].leaf THEN @[b] ELSE [@[b] EXCEPT !.second = Place(@)]]]
    IN  [i \in 1 .. Len(order) |-> Moved(tree[order[i] + 1])]
=============================================================================
