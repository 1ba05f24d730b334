------------------------------- MODULE BTree -------------------------------
(***************************************************************************)
(* A B+ tree (include/stx/btree.h) behind one of its facades: a set, a     *)
(* multiset, a map or a multimap.  Whole-tree operations come first, then  *)
(* the state machine: one action per public operation that changes the     *)
(* tree.  A behaviour starts from a bulk_load followed by erasures, and    *)
(* performs a bounded number of operations.                                *)
(***************************************************************************)
EXTENDS BTreeErase

CONSTANTS
    Key,       \* the keys, natural numbers
    Data,      \* the data stored with a key by a map or multimap
    NoData,    \* data_type(): what sets store and operator[] starts from
    Starts     \* how behaviours begin: [kind, leafslots, innerslots, load, erase, keys, ops]

ASSUME KeysAssumption == Key \subseteq Nat \ {0}
ASSUME SlotsAssumption == \A s \in Starts : s.leafslots \in Nat \ 0 .. 3 /\ s.innerslots \in Nat \ {0, 1}

(***************************************************************************)
(* bulk_load: equal shares for the leaves, and for each level above.       *)
(***************************************************************************)
RECURSIVE Shares(_, _)
Shares(s, parts) ==
    IF parts = 0 THEN <<>>
    ELSE LET n == Len(s) \div parts
         IN  <<SubSeq(s, 1, n)>> \o Shares(SubSeq(s, n + 1, Len(s)), parts - 1)

RoundUp(n, by) == (n + by - 1) \div by

LoadLeaf(t, share) ==
    LET a == NextAddress(t)
        filled == [AllocateLeaf(t) EXCEPT
                     !.node[a].key = [i \in 1 .. Len(share) |-> share[i][1]],
                     !.node[a].data = [i \in 1 .. Len(share) |-> share[i][2]],
                     !.node[a].prev = t.tail,
                     !.tail = a]
    IN  IF t.tail = NULL THEN [filled EXCEPT !.head = a] ELSE [filled EXCEPT !.node[t.tail].next = a]

\* acc.up: the inner nodes of this level, with the last key below each.
LoadInner(acc, group, level) ==
    LET a == NextAddress(acc.tree)
        n == Len(group)
    IN  [tree |-> [AllocateInner(acc.tree, level) EXCEPT
                     !.node[a].key = [i \in 1 .. n - 1 |-> group[i][2]],
                     !.node[a].child = [i \in 1 .. n |-> group[i][1]]],
         up |-> Append(acc.up, <<a, group[n][2]>>)]

RECURSIVE LoadLevel(_, _)
LoadLevel(below, level) ==
    LET t == below.tree
        groups == Shares(below.up, RoundUp(Len(below.up), t.innerslots + 1))
    IN  IF Len(below.up) = 1 THEN [t EXCEPT !.root = below.up[1][1]]
        ELSE LoadLevel(FoldLeft(LAMBDA acc, group : LoadInner(acc, group, level),
                                [tree |-> t, up |-> <<>>], groups),
                       level + 1)

RECURSIVE LeafChain(_, _)
LeafChain(t, a) == IF a = NULL THEN <<>> ELSE <<a>> \o LeafChain(t, t.node[a].next)

LoadInners(t) ==
    LET Kid(a) == <<a, Last(t.node[a].key)>>
        chain == LeafChain(t, t.head)
    IN  LoadLevel([tree |-> t, up |-> [i \in 1 .. Len(chain) |-> Kid(chain[i])]], 1)

BulkLoad(t, s) ==
    IF s = <<>> THEN t
    ELSE LoadInners(FoldLeft(LoadLeaf, [t EXCEPT !.items = Len(s)], Shares(s, RoundUp(Len(s), t.leafslots))))

(***************************************************************************)
(* Copying: operator= and the copy constructor rebuild the tree node by    *)
(* node and link the leaves in the order they are met.  A dump writes the  *)
(* nodes in that order too and restore builds from it; it reads level,     *)
(* slots and leaf links, of which it repairs prev and next.                *)
(***************************************************************************)
LinkLeaf(t, a) ==
    IF t.head = NULL THEN [t EXCEPT !.head = a, !.tail = a, !.node[a].prev = NULL]
    ELSE [t EXCEPT !.node[a].prev = t.tail, !.node[t.tail].next = a, !.tail = a]

RECURSIVE CopyNode(_, _, _)
CopyNode(source, a, t) ==
    LET n == source.node[a]
        b == NextAddress(t)
        Step(acc, child) ==
            LET r == CopyNode(source, child, acc.tree)
            IN  [r EXCEPT !.tree.node[b].child = Append(@, r.new), !.new = b]
    IN  IF IsLeafNode(n)
        THEN [tree |-> LinkLeaf([AllocateLeaf(t) EXCEPT !.node[b].key = n.key,
                                                        !.node[b].data = n.data], b),
              new |-> b]
        ELSE FoldLeft(Step, [tree |-> [AllocateInner(t, n.level) EXCEPT !.node[b].key = n.key], new |-> b],
                      SubSeq(n.child, 1, SlotUse(n) + 1))

Cleared(t) == EmptyTree(t.leafslots, t.innerslots, t.dup)

Copy(t) ==
    IF t.items = 0 THEN Cleared(t)
    ELSE LET r == CopyNode(t, t.root, Cleared(t))
         IN  [r.tree EXCEPT !.root = r.new,
                            !.items = t.items, !.leaves = t.leaves, !.inners = t.inners]

RECURSIVE DumpNode(_, _)
DumpNode(t, a) ==
    LET n == t.node[a]
    IN  IF IsLeafNode(n) THEN <<n>>
        ELSE <<n>> \o FoldLeft(LAMBDA image, child : image \o DumpNode(t, child), <<>>,
                               SubSeq(n.child, 1, SlotUse(n) + 1))

Dump(t) == [items |-> t.items, nodes |-> IF t.root = NULL THEN <<>> ELSE DumpNode(t, t.root)]

\* Reads the node at the head of r.rest; r.new is its new address.
RECURSIVE RestoreNode(_)
RestoreNode(r) ==
    LET n == Head(r.rest)
        b == NextAddress(r.tree)
        Step(acc, i) ==
            LET s == RestoreNode(acc)
            IN  [s EXCEPT !.tree.node[b].child[i] = s.new, !.new = b]
    IN  IF IsLeafNode(n)
        THEN LET first == r.tree.head = NULL => n.prev = NULL
             IN  [tree |-> LinkLeaf([AllocateLeaf(BtreeAssert(r.tree, first)) EXCEPT !.node[b] = n], b),
                  rest |-> Tail(r.rest), new |-> b]
        ELSE FoldLeft(Step, [tree |-> [AllocateInner(r.tree, 0) EXCEPT !.node[b] = n],
                             rest |-> Tail(r.rest), new |-> b],
                      [i \in 1 .. SlotUse(n) + 1 |-> i])

Restore(t, image) ==
    IF image.items = 0 THEN Cleared(t)
    ELSE LET r == RestoreNode([tree |-> Cleared(t), rest |-> image.nodes, new |-> NULL])
         IN  [r.tree EXCEPT !.root = r.new, !.items = image.items]

(***************************************************************************)
(* verify(): the tree's own check of itself, for a tree that has a root.   *)
(***************************************************************************)
SubTree(t, a) ==
    LET Under[b \in DOMAIN t.node] ==
            {b} \cup UNION {Under[t.node[b].child[i]] : i \in DOMAIN t.node[b].child}
    IN  Under[a]

MinKey(t, a) ==
    LET Least[b \in DOMAIN t.node] ==
            IF IsLeafNode(t.node[b]) THEN t.node[b].key[1] ELSE Least[t.node[b].child[1]]
    IN  Least[a]

MaxKey(t, a) ==
    LET Greatest[b \in DOMAIN t.node] ==
            IF IsLeafNode(t.node[b]) THEN Last(t.node[b].key) ELSE Greatest[Last(t.node[b].child)]
    IN  Greatest[a]

\* Leaves a and b follow each other in the chain.
Linked(t, a, b) == t.node[a].next = b /\ t.node[b].prev = a

VerifyNode(t, a) ==
    LET n == t.node[a]
    IN  /\ a = t.root \/ ~IsUnderflow(t, n)
        /\ SlotUse(n) > 0
        /\ \A i \in 1 .. SlotUse(n) - 1 : n.key[i] <= n.key[i + 1]
        /\ ~IsLeafNode(n) =>
              /\ \A i \in DOMAIN n.child : t.node[n.child[i]].level + 1 = n.level
              /\ \A i \in 1 .. SlotUse(n) :
                    /\ MaxKey(t, n.child[i]) = n.key[i]
                    /\ MinKey(t, n.child[i + 1]) >= n.key[i]
                    /\ n.level = 1 => Linked(t, n.child[i], n.child[i + 1])
                    /\ n.level = 2 =>
                          Linked(t, Last(t.node[n.child[i]].child), t.node[n.child[i + 1]].child[1])

VerifyLeafLinks(t) ==
    LET chain == LeafChain(t, t.head)
        n(i) == t.node[chain[i]]
    IN  /\ n(1).prev = NULL
        /\ Last(chain) = t.tail
        /\ \A i \in 1 .. Len(chain) : IsLeafNode(n(i)) /\ SlotUse(n(i)) > 0
        /\ \A i \in 1 .. Len(chain) - 1 :
              /\ Last(n(i).key) <= n(i + 1).key[1]
              /\ n(i + 1).prev = chain[i]
        /\ FoldLeft(LAMBDA sum, a : sum + SlotUse(t.node[a]), 0, chain) = t.items

Verify(t) ==
    t.root # NULL =>
        LET nodes == SubTree(t, t.root)
            leaves == {a \in nodes : IsLeafNode(t.node[a])}
        IN  /\ \A a \in nodes : VerifyNode(t, a)
            /\ FoldSet(LAMBDA a, sum : sum + SlotUse(t.node[a]), 0, leaves) = t.items
            /\ Cardinality(leaves) = t.leaves
            /\ Cardinality(nodes \ leaves) = t.inners
            /\ VerifyLeafLinks(t)

(***************************************************************************)
(* The state machine.                                                      *)
(***************************************************************************)
VARIABLES
    kind,   \* the facade: "set", "multiset", "map" or "multimap"
    tree,
    answer, \* the last operation and what it returned
    bound   \* operations still to be performed, and the keys they use

vars == <<kind, tree, answer, bound>>

\* The entries in iteration order, from m_headleaf along nextleaf.
Contents(t) ==
    LET chain == LeafChain(t, t.head)
        Entries(n) == [i \in 1 .. SlotUse(n) |-> <<n.key[i], n.data[i]>>]
    IN  FlattenSeq([i \in 1 .. Len(chain) |-> Entries(t.node[chain[i]])])

\* The rank of a slot in iteration order.
Rank(t, at) ==
    LET chain == LeafChain(t, t.head)
        Before == SelectInSeq(chain, LAMBDA a : a = at.leaf) - 1
    IN  FoldLeft(LAMBDA sum, a : sum + SlotUse(t.node[a]), 0, SubSeq(chain, 1, Before)) + at.slot

Answer(op, key, res) ==
    /\ answer' = [op |-> op, key |-> key, res |-> res]
    /\ bound' = [bound EXCEPT !.ops = @ - 1]
    /\ UNCHANGED kind

AllowDuplicates(k) == k \in {"multiset", "multimap"}

Begun(s) ==
    FoldLeft(LAMBDA t, key : EraseOne(t, key).tree,
             BulkLoad(EmptyTree(s.leafslots, s.innerslots, AllowDuplicates(s.kind)), s.load),
             s.erase)

Init ==
    /\ \E s \in Starts : kind = s.kind /\ tree = Begun(s) /\ bound = [ops |-> s.ops, keys |-> s.keys]
    /\ answer = [op |-> "none", key |-> NoData, res |-> TRUE]

\* A facade with duplicates returns the iterator only: it has no second answer.
Insert(key, data) ==
    \E r \in {InsertStart(tree, key, data)} :
        /\ tree' = r.tree
        /\ Answer("insert", key, IF tree.dup THEN <<Rank(r.tree, r)>> ELSE <<Rank(r.tree, r), r.fresh>>)

\* map[key] = data: an insert of data_type(), then a write through the
\* iterator it returned.
Assign(key, data) ==
    \E r \in {InsertStart(tree, key, NoData)} :
        /\ tree' = [r.tree EXCEPT !.node[r.leaf].data[r.slot] = data]
        /\ Answer("assign", key, Rank(r.tree, r))

EraseFirst(key) ==
    \E r \in {EraseOne(tree, key)} : tree' = r.tree /\ Answer("erase_one", key, r.found)

EraseAll(key) ==
    \E r \in {EraseKey(tree, key)} : tree' = r.tree /\ Answer("erase", key, r.count)

\* erase(iterator): the iterator stands at a slot of a leaf.
EraseAt(leaf, slot) ==
    LET at == [leaf |-> leaf, slot |-> slot]
    IN  /\ tree' = EraseIter(tree, at).tree
        /\ Answer("erase_iter", tree.node[leaf].key[slot], Rank(tree, at))

Clear == tree' = Cleared(tree) /\ Answer("clear", NoData, TRUE)
CopyTree == tree' = Copy(tree) /\ Answer("copy", NoData, TRUE)
DumpRestore == tree' = Restore(tree, Dump(tree)) /\ Answer("restore", NoData, TRUE)

Reload(s) ==
    /\ tree.items = 0
    /\ s.kind = kind /\ s.innerslots = tree.innerslots
    /\ tree' = BulkLoad(tree, s.load)
    /\ Answer("bulk_load", NoData, s.load)

\* What every facade passes on to the tree as it is.
PassedOn ==
    \/ \E key \in bound.keys : EraseFirst(key) \/ EraseAll(key)
    \/ \E leaf \in DOMAIN tree.node : \E slot \in DOMAIN tree.node[leaf].data : EraseAt(leaf, slot)
    \/ Clear
    \/ CopyTree
    \/ DumpRestore
    \/ \E s \in Starts : Reload(s)

SetNext ==
    /\ bound.ops > 0 /\ kind = "set"
    /\ PassedOn \/ \E key \in bound.keys : Insert(key, NoData)

MultisetNext ==
    /\ bound.ops > 0 /\ kind = "multiset"
    /\ PassedOn \/ \E key \in bound.keys : Insert(key, NoData)

MapNext ==
    /\ bound.ops > 0 /\ kind = "map"
    /\ PassedOn \/ \E key \in bound.keys, data \in Data : Insert(key, data) \/ Assign(key, data)

MultimapNext ==
    /\ bound.ops > 0 /\ kind = "multimap"
    /\ PassedOn \/ \E key \in bound.keys, data \in Data : Insert(key, data)

Next == SetNext \/ MultisetNext \/ MapNext \/ MultimapNext

Spec == Init /\ [][Next]_vars

(***************************************************************************)
(* Properties.                                                             *)
(***************************************************************************)

\* After every operation the tree's own verify() would pass: nodes are
\* filled at least by half, each separator is the last key below its left
\* child, the leaf chain follows the order of the tree, and the counters
\* m_stats are those of the nodes.  Nothing is leaked: every node is reachable.
TreeIsValid ==
    /\ Verify(tree)
    /\ tree.root = NULL => tree = Cleared(tree)
    /\ tree.root # NULL => SubTree(tree, tree.root) = DOMAIN tree.node

\* No BTREE_ASSERT of the code has failed.  Splits, merges and shifts
\* assert the fill of both nodes and that they share the parent they were
\* passed: conditions that hold only if the descent chose the right case.
AssertionsHold == tree.sane

\* The lookups, which descend by separators and never look back, answer what
\* a scan of the leaf chain says; walking the iterators forward from begin(),
\* backward from end() and in reverse from rbegin() visits the same entries.
RECURSIVE WalkOn(_, _), WalkBack(_, _), WalkReverse(_, _)
WalkOn(t, at) ==
    IF at = End(t) THEN <<>> ELSE <<t.node[at.leaf].key[at.slot]>> \o WalkOn(t, NextItem(t, at))
WalkBack(t, at) ==
    IF at = Begin(t) THEN <<>>
    ELSE LET p == PreviousItem(t, at) IN Append(WalkBack(t, p), t.node[p.leaf].key[p.slot])
WalkReverse(t, at) ==
    IF at = Begin(t) THEN <<>>
    ELSE Append(WalkReverse(t, ReverseNext(t, at)), t.node[at.leaf].key[at.slot - 1])

LookupsAgree ==
    LET entries == Contents(tree)
        order == [i \in 1 .. Len(entries) |-> entries[i][1]]
        Is(at, i) == IF i > Len(entries) THEN at = End(tree) ELSE Rank(tree, at) = i
        Fewer(key) == Cardinality({i \in 1 .. Len(entries) : entries[i][1] < key})
        Here(key) == Cardinality({i \in 1 .. Len(entries) : entries[i][1] = key})
    IN  /\ \A key \in bound.keys :
              /\ Exists(tree, key) = (Here(key) > 0)
              /\ Count(tree, key) = Here(key)
              /\ Is(LowerBound(tree, key), Fewer(key) + 1)
              /\ Is(UpperBound(tree, key), Fewer(key) + Here(key) + 1)
              /\ Find(tree, key) = IF Here(key) > 0 THEN LowerBound(tree, key) ELSE End(tree)
        /\ tree.root # NULL =>
              /\ WalkOn(tree, Begin(tree)) = order
              /\ WalkBack(tree, End(tree)) = order
              /\ WalkReverse(tree, End(tree)) = order

\* The tree implements the sorted entries: each operation changes the
\* entries and answers as SortedEntries says.
Entries == INSTANCE SortedEntries WITH
    dup <- AllowDuplicates(kind),
    entries <- Contents(tree)

ImplementsEntries == Entries!Spec
=============================================================================
