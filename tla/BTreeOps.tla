------------------------------ MODULE BTreeOps ------------------------------
(***************************************************************************)
(* The algorithms of the B+ tree (include/stx/btree.h, class btree) as     *)
(* operators from trees to trees.                                          *)
(*                                                                         *)
(* A tree is a record: its template parameters (leafslots, innerslots,     *)
(* dup), node, the heap of live nodes by address, root, head and tail      *)
(* (m_root, m_headleaf, m_tailleaf), and the counters items, leaves and    *)
(* inners (m_stats).  Slots are numbered from 1: child i of an inner node  *)
(* lies left of its key i, and slotuse is the number of keys.  sane is     *)
(* FALSE once a BTREE_ASSERT of the code has failed: release builds leave  *)
(* the assertions out, so the operators go on as the code would.           *)
(***************************************************************************)
EXTENDS Naturals, FiniteSetsExt, SequencesExt

NULL == 0

SlotUse(n) == Len(n.key)
IsLeafNode(n) == n.level = 0
SlotMax(t, n) == IF IsLeafNode(n) THEN t.leafslots ELSE t.innerslots
MinSlots(t, n) == SlotMax(t, n) \div 2
IsFull(t, n) == SlotUse(n) = SlotMax(t, n)

\* Fault: a node one above the minimum is merged, not asked for slots.
IsFewAbove(t, n) == SlotUse(n) <= MinSlots(t, n) + 1
IsFew(t, n) == SlotUse(n) <= MinSlots(t, n)
IsUnderflow(t, n) == SlotUse(n) < MinSlots(t, n)

EmptyTree(leafslots, innerslots, dup) ==
    [leafslots |-> leafslots, innerslots |-> innerslots, dup |-> dup,
     node |-> <<>>, root |-> NULL, head |-> NULL, tail |-> NULL,
     items |-> 0, leaves |-> 0, inners |-> 0, sane |-> TRUE]

BtreeAssert(t, condition) == [t EXCEPT !.sane = @ /\ condition]

(***************************************************************************)
(* Nodes.                                                                  *)
(***************************************************************************)
NextAddress(t) ==
    CHOOSE a \in 1 .. Cardinality(DOMAIN t.node) + 1 :
        a \notin DOMAIN t.node /\ \A b \in 1 .. a - 1 : b \in DOMAIN t.node

Allocate(t, n) ==
    LET new == NextAddress(t)
    IN  [t EXCEPT !.node = [a \in DOMAIN @ \cup {new} |-> IF a = new THEN n ELSE @[a]]]

AllocateLeaf(t) ==
    LET leaf == [level |-> 0, key |-> <<>>, data |-> <<>>, child |-> <<>>,
                 prev |-> NULL, next |-> NULL]
    IN  [Allocate(t, leaf) EXCEPT !.leaves = @ + 1]

AllocateInner(t, level) ==
    LET inner == [level |-> level, key |-> <<>>, data |-> <<>>, child |-> <<>>,
                  prev |-> NULL, next |-> NULL]
    IN  [Allocate(t, inner) EXCEPT !.inners = @ + 1]

FreeNode(t, a) ==
    LET rest == [t EXCEPT !.node = [b \in DOMAIN @ \ {a} |-> @[b]]]
    IN  IF IsLeafNode(t.node[a]) THEN [rest EXCEPT !.leaves = @ - 1]
                                 ELSE [rest EXCEPT !.inners = @ - 1]

(***************************************************************************)
(* Searching.                                                              *)
(***************************************************************************)
FindLower(n, key) == Min({i \in 1 .. SlotUse(n) + 1 : i <= SlotUse(n) => ~(n.key[i] < key)})
FindUpper(n, key) == Min({i \in 1 .. SlotUse(n) + 1 : i <= SlotUse(n) => ~(n.key[i] <= key)})

\* The way down to a leaf is a function of the slot chosen at each node.
LowerLeaf(t, key) ==
    LET Down[a \in DOMAIN t.node] ==
            IF IsLeafNode(t.node[a]) THEN a
            ELSE Down[t.node[a].child[FindLower(t.node[a], key)]]
    IN  Down[t.root]

UpperLeaf(t, key) ==
    LET Down[a \in DOMAIN t.node] ==
            IF IsLeafNode(t.node[a]) THEN a
            ELSE Down[t.node[a].child[FindUpper(t.node[a], key)]]
    IN  Down[t.root]

Begin(t) == [leaf |-> t.head, slot |-> 1]
End(t) == [leaf |-> t.tail, slot |-> IF t.tail = NULL THEN 1 ELSE SlotUse(t.node[t.tail]) + 1]

LowerBound(t, key) ==
    IF t.root = NULL THEN End(t)
    ELSE LET leaf == LowerLeaf(t, key) IN [leaf |-> leaf, slot |-> FindLower(t.node[leaf], key)]

UpperBound(t, key) ==
    IF t.root = NULL THEN End(t)
    ELSE LET leaf == UpperLeaf(t, key) IN [leaf |-> leaf, slot |-> FindUpper(t.node[leaf], key)]

\* Does the slot hold the key?
Holds(t, at, key) ==
    /\ at.leaf # NULL
    /\ at.slot <= SlotUse(t.node[at.leaf])
    /\ t.node[at.leaf].key[at.slot] = key

Exists(t, key) == Holds(t, LowerBound(t, key), key)
Find(t, key) == IF Exists(t, key) THEN LowerBound(t, key) ELSE End(t)

\* iterator::operator++ and operator--, and those of reverse_iterator, whose
\* slot is one past the item it stands for.
NextItem(t, at) ==
    LET leaf == t.node[at.leaf]
    IN  IF at.slot < SlotUse(leaf) THEN [at EXCEPT !.slot = @ + 1]
        ELSE IF leaf.next # NULL THEN [leaf |-> leaf.next, slot |-> 1]
        ELSE [at EXCEPT !.slot = SlotUse(leaf) + 1]

PreviousItem(t, at) ==
    LET leaf == t.node[at.leaf]
    IN  IF at.slot > 1 THEN [at EXCEPT !.slot = @ - 1]
        ELSE IF leaf.prev # NULL THEN [leaf |-> leaf.prev, slot |-> SlotUse(t.node[leaf.prev])]
        ELSE [at EXCEPT !.slot = 1]

ReverseNext(t, at) ==
    LET leaf == t.node[at.leaf]
    IN  IF at.slot > 2 THEN [at EXCEPT !.slot = @ - 1]
        ELSE IF leaf.prev # NULL THEN [leaf |-> leaf.prev, slot |-> SlotUse(t.node[leaf.prev]) + 1]
        ELSE [at EXCEPT !.slot = 1]

RECURSIVE CountFrom(_, _, _)
CountFrom(t, at, key) ==
    IF ~Holds(t, at, key) THEN 0
    ELSE LET leaf == t.node[at.leaf]
         IN  1 + CountFrom(t, IF at.slot < SlotUse(leaf) THEN [at EXCEPT !.slot = @ + 1]
                              ELSE [leaf |-> leaf.next, slot |-> 1], key)

Count(t, key) == CountFrom(t, LowerBound(t, key), key)

(***************************************************************************)
(* Inserting.  An insertion answers [tree, leaf, slot, fresh] (fresh: the  *)
(* key went in), and, to the node above, the node a split made and the key *)
(* that separates it (new, key).                                           *)
(***************************************************************************)
SplitLeafNode(t, a) ==
    LET n == t.node[a]
        mid == SlotUse(n) \div 2
        b == NextAddress(t)
        ok == IsFull(t, n) /\ (n.next = NULL => a = t.tail)
        split == [AllocateLeaf(BtreeAssert(t, ok)) EXCEPT
                    !.node[b].key = SubSeq(n.key, mid + 1, SlotUse(n)),
                    !.node[b].data = SubSeq(n.data, mid + 1, SlotUse(n)),
                    !.node[b].next = n.next,
                    !.node[b].prev = a,
                    !.node[a].key = SubSeq(n.key, 1, mid),
                    !.node[a].data = SubSeq(n.data, 1, mid),
                    !.node[a].next = b]
    IN  [tree |-> IF n.next = NULL THEN [split EXCEPT !.tail = b]
                                   ELSE [split EXCEPT !.node[n.next].prev = b],
         new |-> b,
         key |-> n.key[mid]]

\* Fault: the larger half stays left, wherever the new child goes.
SplitInTheMiddle(n, slot) == SlotUse(n) \div 2

\* An uneven split gives the larger half to the side that will not grow.
SplitPlace(n, slot) ==
    LET half == SlotUse(n) \div 2
    IN  IF slot - 1 <= half /\ half > SlotUse(n) - (half + 1) THEN half - 1 ELSE half

SplitInnerAt(t, a, mid) ==
    LET n == t.node[a]
        b == NextAddress(t)
    IN  [tree |-> [AllocateInner(BtreeAssert(t, IsFull(t, n)), n.level) EXCEPT
                     !.node[b].key = SubSeq(n.key, mid + 2, SlotUse(n)),
                     !.node[b].child = SubSeq(n.child, mid + 2, SlotUse(n) + 1),
                     !.node[a].key = SubSeq(n.key, 1, mid),
                     !.node[a].child = SubSeq(n.child, 1, mid + 1)],
         new |-> b,
         key |-> n.key[mid + 1]]

SplitInnerNode(t, a, slot) == SplitInnerAt(t, a, SplitPlace(t.node[a], slot))

PutChild(t, a, slot, key, child) ==
    [BtreeAssert(t, slot <= SlotUse(t.node[a]) + 1) EXCEPT
       !.node[a].key = InsertAt(@, slot, key),
       !.node[a].child = InsertAt(@, slot + 1, child)]

\* The new child of r goes to slot of the inner node a, which was split (s)
\* into a and s.new.
AddChildSplit(r, a, slot, s) ==
    LET left == SlotUse(s.tree.node[a])
        between == slot = left + 2 /\ left < SlotUse(s.tree.node[s.new])
    IN  [r EXCEPT
           !.tree =
             IF between
             THEN \* the child falls between the halves: its key separates them
                  [BtreeAssert(s.tree, left + 1 < s.tree.innerslots) EXCEPT
                     !.node[a].key = Append(@, s.key),
                     !.node[a].child = Append(@, s.tree.node[s.new].child[1]),
                     !.node[s.new].child[1] = r.new]
             ELSE IF slot >= left + 2 THEN PutChild(s.tree, s.new, slot - (left + 1), r.key, r.new)
             ELSE PutChild(s.tree, a, slot, r.key, r.new),
           !.new = s.new,
           !.key = IF between THEN r.key ELSE s.key]

AddChild(r, a, slot) ==
    IF IsFull(r.tree, r.tree.node[a]) THEN AddChildSplit(r, a, slot, SplitInnerNode(r.tree, a, slot))
    ELSE [r EXCEPT !.tree = PutChild(@, a, slot, r.key, r.new), !.new = NULL]

PutItem(t, a, slot, key, data) ==
    [BtreeAssert(t, slot <= SlotUse(t.node[a]) + 1) EXCEPT
       !.node[a].key = InsertAt(@, slot, key),
       !.node[a].data = InsertAt(@, slot, data)]

\* The item goes to slot of leaf a, or into the leaf split off it (s.new).
AddItem(s, a, slot, key, data) ==
    LET left == SlotUse(s.tree.node[a])
        moved == s.new # NULL /\ slot > left
        leaf == IF moved THEN s.new ELSE a
        at == IF moved THEN slot - left ELSE slot
    IN  [tree |-> PutItem(s.tree, leaf, at, key, data),
         new |-> s.new,
         key |-> IF ~moved /\ at = left + 1 THEN key ELSE s.key,
         leaf |-> leaf, slot |-> at, fresh |-> TRUE]

InsertLeaf(t, a, key, data, slot) ==
    IF ~t.dup /\ Holds(t, [leaf |-> a, slot |-> slot], key)
    THEN [tree |-> t, new |-> NULL, key |-> key, leaf |-> a, slot |-> slot, fresh |-> FALSE]
    ELSE AddItem(IF IsFull(t, t.node[a]) THEN SplitLeafNode(t, a)
                 ELSE [tree |-> t, new |-> NULL, key |-> key],
                 a, slot, key, data)

UpToParent(r, a, slot) == IF r.new = NULL THEN r ELSE AddChild(r, a, slot)

RECURSIVE InsertDescend(_, _, _, _)
InsertDescend(t, a, key, data) ==
    LET slot == FindLower(t.node[a], key)
    IN  IF IsLeafNode(t.node[a]) THEN InsertLeaf(t, a, key, data, slot)
        ELSE UpToParent(InsertDescend(t, t.node[a].child[slot], key, data), a, slot)

WithRoot(t) ==
    LET a == NextAddress(t)
    IN  IF t.root # NULL THEN t ELSE [AllocateLeaf(t) EXCEPT !.root = a, !.head = a, !.tail = a]

\* A split of the root gives the tree a new one; a fresh item is counted.
Finish(r) ==
    LET t == IF r.fresh THEN [r.tree EXCEPT !.items = @ + 1] ELSE r.tree
        b == NextAddress(r.tree)
    IN  [r EXCEPT !.tree =
           IF r.new = NULL THEN t
           ELSE [AllocateInner(t, t.node[t.root].level + 1) EXCEPT
                   !.node[b].key = <<r.key>>,
                   !.node[b].child = <<t.root, r.new>>,
                   !.root = b]]

InsertFrom(t, key, data) == Finish(InsertDescend(t, t.root, key, data))
InsertStart(t, key, data) == InsertFrom(WithRoot(t), key, data)
=============================================================================
