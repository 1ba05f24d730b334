----------------------------- MODULE BTreeErase -----------------------------
(***************************************************************************)
(* Erasing from the B+ tree (include/stx/btree.h): the descent collects,   *)
(* for each node, its neighbours and their parents; a node that underflows *)
(* is merged with a neighbour or takes slots from one.                     *)
(*                                                                         *)
(* A context c names the node at hand (curr), its neighbours (left, right),*)
(* the parents of these (leftparent, rightparent), its own parent and its  *)
(* slot there (parentslot).  A result is a record: the tree, whether the   *)
(* item was found, whether two children were merged (btree_fixmerge), and  *)
(* the new last key an ancestor has to store (btree_update_lastkey), as a  *)
(* sequence of at most one key.                                            *)
(***************************************************************************)
EXTENDS BTreeOps

RootContext(t) ==
    [curr |-> t.root, left |-> NULL, right |-> NULL, leftparent |-> NULL,
     rightparent |-> NULL, parent |-> NULL, parentslot |-> 1]

\* The context of child slot.  The left neighbour of a first child is taken
\* one child too early, childid[slotuse - 1]: it is only looked at, never
\* changed, because its parent is another one.
Below(t, c, slot) ==
    LET n == t.node[c.curr]
        first == slot = 1
        last == slot = SlotUse(n) + 1
    IN  [curr |-> n.child[slot],
         left |-> IF ~first THEN n.child[slot - 1]
                  ELSE IF c.left = NULL THEN NULL
                  ELSE t.node[c.left].child[SlotUse(t.node[c.left])],
         leftparent |-> IF first THEN c.leftparent ELSE c.curr,
         right |-> IF ~last THEN n.child[slot + 1]
                   ELSE IF c.right = NULL THEN NULL ELSE t.node[c.right].child[1],
         rightparent |-> IF last THEN c.rightparent ELSE c.curr,
         parent |-> c.curr,
         parentslot |-> slot]

NotFound(t) == [tree |-> t, found |-> FALSE, merge |-> FALSE, last |-> <<>>]
Erased(t) == [tree |-> t, found |-> TRUE, merge |-> FALSE, last |-> <<>>]

\* Fault: the key is handed upwards past the node that stores it.
UpdateLastKeyAbove(r, c, key) == [r EXCEPT !.last = <<key>>]

\* The last key below c.curr has become key: the parent stores it, or
\* passes it on when the node is its last child.
UpdateLastKey(r, c, key) ==
    IF c.parent # NULL /\ c.parentslot <= SlotUse(r.tree.node[c.parent])
    THEN LET ok == r.tree.node[c.parent].child[c.parentslot] = c.curr
         IN  [r EXCEPT !.tree = [BtreeAssert(@, ok) EXCEPT !.node[c.parent].key[c.parentslot] = key]]
    ELSE [r EXCEPT !.last = <<key>>]

(***************************************************************************)
(* Merging and shifting.                                                   *)
(***************************************************************************)
MergeLeaves(r, left, right, parent) ==
    LET t == r.tree
        l == t.node[left]
        n == t.node[right]
        ok == /\ IsLeafNode(l) /\ IsLeafNode(n)
              /\ t.node[parent].level = 1
              /\ SlotUse(l) + SlotUse(n) < t.leafslots
        joined == [BtreeAssert(t, ok) EXCEPT
                     !.node[left].key = @ \o n.key,
                     !.node[left].data = @ \o n.data,
                     !.node[left].next = n.next,
                     !.node[right].key = <<>>,
                     !.node[right].data = <<>>]
    IN  [r EXCEPT !.tree = IF n.next = NULL THEN [joined EXCEPT !.tail = left]
                           ELSE [joined EXCEPT !.node[n.next].prev = left],
                  !.merge = TRUE]

\* What the functions on two inner nodes assert of them and their parent.
Siblings(t, left, right, parent, slot) ==
    /\ t.node[left].level = t.node[right].level
    /\ t.node[parent].level = t.node[left].level + 1
    /\ t.node[parent].child[slot] = left
    /\ t.node[parent].child[slot + 1] = right

MergeInner(r, left, right, parent, slot) ==
    LET t == r.tree
        n == t.node[right]
        ok == /\ Siblings(t, left, right, parent, slot)
              /\ SlotUse(t.node[left]) + SlotUse(n) < t.innerslots
    IN  [r EXCEPT !.tree = [BtreeAssert(t, ok) EXCEPT
                              !.node[left].key = (@ \o <<t.node[parent].key[slot]>>) \o n.key,
                              !.node[left].child = @ \o n.child,
                              !.node[right].key = <<>>],
                  !.merge = TRUE]

LinkedLeaves(t, left, right, parent, slot) ==
    /\ IsLeafNode(t.node[left]) /\ IsLeafNode(t.node[right])
    /\ t.node[parent].level = 1
    /\ t.node[left].next = right /\ t.node[right].prev = left
    /\ t.node[parent].child[slot] = left

ShiftLeftLeaf(r, left, right, parent, slot) ==
    LET t == r.tree
        l == t.node[left]
        n == t.node[right]
        shift == (SlotUse(n) - SlotUse(l)) \div 2
        ok == /\ LinkedLeaves(t, left, right, parent, slot)
              /\ SlotUse(l) < SlotUse(n) /\ SlotUse(l) + shift < t.leafslots
        moved == [BtreeAssert(t, ok) EXCEPT
                    !.node[left].key = @ \o SubSeq(n.key, 1, shift),
                    !.node[left].data = @ \o SubSeq(n.data, 1, shift),
                    !.node[right].key = SubSeq(@, shift + 1, SlotUse(n)),
                    !.node[right].data = SubSeq(@, shift + 1, SlotUse(n))]
    IN  IF slot <= SlotUse(t.node[parent])
        THEN [r EXCEPT !.tree = [moved EXCEPT !.node[parent].key[slot] = n.key[shift]]]
        ELSE [r EXCEPT !.tree = moved, !.last = <<n.key[shift]>>]

ShiftLeftInner(r, left, right, parent, slot) ==
    LET t == r.tree
        l == t.node[left]
        n == t.node[right]
        shift == (SlotUse(n) - SlotUse(l)) \div 2
        ok == /\ Siblings(t, left, right, parent, slot)
              /\ SlotUse(l) < SlotUse(n) /\ SlotUse(l) + shift < t.innerslots
    IN  [r EXCEPT !.tree = [BtreeAssert(t, ok) EXCEPT
           !.node[left].key = (@ \o <<t.node[parent].key[slot]>>) \o SubSeq(n.key, 1, shift - 1),
           !.node[left].child = @ \o SubSeq(n.child, 1, shift),
           !.node[parent].key[slot] = n.key[shift],
           !.node[right].key = SubSeq(@, shift + 1, SlotUse(n)),
           !.node[right].child = SubSeq(@, shift + 1, SlotUse(n) + 1)]]

ShiftRightLeaf(r, left, right, parent, slot) ==
    LET t == r.tree
        l == t.node[left]
        n == t.node[right]
        shift == (SlotUse(l) - SlotUse(n)) \div 2
        keep == SlotUse(l) - shift
        ok == /\ LinkedLeaves(t, left, right, parent, slot)
              /\ t.node[parent].child[slot + 1] = right
              /\ SlotUse(l) > SlotUse(n) /\ SlotUse(n) + shift < t.leafslots
    IN  [r EXCEPT !.tree = [BtreeAssert(t, ok) EXCEPT
           !.node[right].key = SubSeq(l.key, keep + 1, SlotUse(l)) \o @,
           !.node[right].data = SubSeq(l.data, keep + 1, SlotUse(l)) \o @,
           !.node[left].key = SubSeq(@, 1, keep),
           !.node[left].data = SubSeq(@, 1, keep),
           !.node[parent].key[slot] = l.key[keep]]]

ShiftRightInner(r, left, right, parent, slot) ==
    LET t == r.tree
        l == t.node[left]
        n == t.node[right]
        shift == (SlotUse(l) - SlotUse(n)) \div 2
        keep == SlotUse(l) - shift
        ok == /\ Siblings(t, left, right, parent, slot)
              /\ SlotUse(l) > SlotUse(n) /\ SlotUse(n) + shift < t.innerslots
    IN  [r EXCEPT !.tree = [BtreeAssert(t, ok) EXCEPT
           !.node[right].key =
               (SubSeq(l.key, keep + 2, SlotUse(l)) \o <<t.node[parent].key[slot]>>) \o @,
           !.node[right].child = SubSeq(l.child, keep + 2, SlotUse(l) + 1) \o @,
           !.node[parent].key[slot] = l.key[keep + 1],
           !.node[left].key = SubSeq(@, 1, keep),
           !.node[left].child = SubSeq(@, 1, keep + 1)]]

(***************************************************************************)
(* What to do about an underflow: the six cases of the code.               *)
(***************************************************************************)
Remedy(t, c) ==
    LET few(a) == a = NULL \/ IsFew(t, t.node[a])
        rich(a) == ~few(a)
        leftIsMine == c.leftparent = c.parent
        rightIsMine == c.rightparent = c.parent
    IN  CASE few(c.left) /\ few(c.right) ->
               IF leftIsMine THEN "merge left" ELSE "merge right"
          [] c.left # NULL /\ few(c.left) /\ rich(c.right) ->
               IF rightIsMine THEN "take from right" ELSE "merge left"
          [] rich(c.left) /\ c.right # NULL /\ few(c.right) ->
               IF leftIsMine THEN "take from left" ELSE "merge right"
          [] c.leftparent # c.rightparent ->
               IF leftIsMine THEN "take from left" ELSE "take from right"
          [] OTHER ->
               IF SlotUse(t.node[c.left]) <= SlotUse(t.node[c.right])
               THEN "take from right" ELSE "take from left"

RemedyLeaf(r, c, remedy) ==
    CASE remedy = "merge left" -> MergeLeaves(r, c.left, c.curr, c.leftparent)
      [] remedy = "merge right" -> MergeLeaves(r, c.curr, c.right, c.rightparent)
      [] remedy = "take from right" -> ShiftLeftLeaf(r, c.curr, c.right, c.rightparent, c.parentslot)
      [] remedy = "take from left" -> ShiftRightLeaf(r, c.left, c.curr, c.leftparent, c.parentslot - 1)

RemedyInner(r, c, remedy) ==
    CASE remedy = "merge left" -> MergeInner(r, c.left, c.curr, c.leftparent, c.parentslot - 1)
      [] remedy = "merge right" -> MergeInner(r, c.curr, c.right, c.rightparent, c.parentslot)
      [] remedy = "take from right" -> ShiftLeftInner(r, c.curr, c.right, c.rightparent, c.parentslot)
      [] remedy = "take from left" -> ShiftRightInner(r, c.left, c.curr, c.leftparent, c.parentslot - 1)

MustFix(t, a) ==
    IsUnderflow(t, t.node[a]) /\ ~(a = t.root /\ SlotUse(t.node[a]) >= 1)

\* The root leaf is empty: the tree is.
DropRootLeaf(t, a) ==
    LET rest == FreeNode(t, a)
        ok == /\ a = t.root /\ SlotUse(t.node[a]) = 0
              /\ rest.items = 1 /\ rest.leaves = 0 /\ rest.inners = 0
    IN  [BtreeAssert(rest, ok) EXCEPT !.root = NULL, !.head = NULL, !.tail = NULL]

\* The root has one child left: it is the new root.
DropRootInner(t, a) ==
    LET ok == a = t.root /\ SlotUse(t.node[a]) = 0
    IN  [FreeNode(BtreeAssert(t, ok), a) EXCEPT !.root = t.node[a].child[1]]

FixLeaf(r, c) ==
    IF ~MustFix(r.tree, c.curr) THEN r
    ELSE IF c.left = NULL /\ c.right = NULL THEN Erased(DropRootLeaf(r.tree, c.curr))
    ELSE RemedyLeaf(r, c, Remedy(r.tree, c))

FixInner(r, c) ==
    IF ~MustFix(r.tree, c.curr) THEN r
    ELSE IF c.left = NULL /\ c.right = NULL THEN Erased(DropRootInner(r.tree, c.curr))
    ELSE RemedyInner(r, c, Remedy(r.tree, c))

(***************************************************************************)
(* The two ends of the descent: the leaf, and each inner node on the way   *)
(* back up.                                                                *)
(***************************************************************************)
TellLast(t, c, left) ==
    IF left = 0 THEN Erased(BtreeAssert(t, c.curr = t.root))
    ELSE UpdateLastKey(Erased(t), c, t.node[c.curr].key[left])

AfterErase(t, c, slot) ==
    LET left == SlotUse(t.node[c.curr])
    IN  FixLeaf(IF slot <= left THEN Erased(t) ELSE TellLast(t, c, left), c)

EraseSlot(t, c, slot) ==
    AfterErase([t EXCEPT !.node[c.curr].key = RemoveAt(@, slot),
                         !.node[c.curr].data = RemoveAt(@, slot)], c, slot)

\* Two children of node a were merged: drop the emptied one, child slot or
\* the one after it, and let level 1 repeat the last key of the other.
RemoveMerged(t, a, slot) ==
    LET n == t.node[a]
        at == IF SlotUse(t.node[n.child[slot]]) # 0 THEN slot + 1 ELSE slot
        dead == n.child[at]
        keys == RemoveAt(n.key, at - 1)
        kids == RemoveAt(n.child, at)
        left == t.node[kids[at - 1]]
    IN  [FreeNode(BtreeAssert(t, SlotUse(t.node[dead]) = 0), dead) EXCEPT
           !.node[a].child = kids,
           !.node[a].key = IF n.level = 1 /\ at - 1 <= Len(keys)
                           THEN [keys EXCEPT ![at - 1] = left.key[SlotUse(left)]]
                           ELSE keys]

Told(r, c) ==
    IF r.last = <<>> THEN Erased(r.tree) ELSE UpdateLastKey(Erased(r.tree), c, r.last[1])

Unmerged(r, merge, a, slot) ==
    IF merge THEN [r EXCEPT !.tree = RemoveMerged(@, a, slot)] ELSE r

AfterChild(r, c, slot) == FixInner(Unmerged(Told(r, c), r.merge, c.curr, slot), c)

UpFromChild(r, c, slot) == IF r.found THEN AfterChild(r, c, slot) ELSE r

RECURSIVE EraseOneDescend(_, _, _)
EraseOneDescend(t, key, c) ==
    LET slot == FindLower(t.node[c.curr], key)
    IN  IF ~IsLeafNode(t.node[c.curr])
        THEN UpFromChild(EraseOneDescend(t, key, Below(t, c, slot)), c, slot)
        ELSE IF Holds(t, [leaf |-> c.curr, slot |-> slot], key) THEN EraseSlot(t, c, slot)
        ELSE NotFound(t)

\* The leaf of an iterator is searched in every child that may hold its key:
\* r is the result for child slot.
RECURSIVE EraseIterDescend(_, _, _), EraseIterNext(_, _, _, _, _)
EraseIterDescend(t, at, c) ==
    LET n == t.node[c.curr]
        slot == FindLower(n, t.node[at.leaf].key[at.slot])
    IN  IF ~IsLeafNode(n)
        THEN EraseIterNext(EraseIterDescend(t, at, Below(t, c, slot)), t, at, c, slot)
        ELSE IF c.curr = at.leaf /\ at.slot <= SlotUse(n) THEN EraseSlot(t, c, at.slot)
        ELSE NotFound(t)

\* Fault: only the first child that may hold the key is searched.
EraseIterOnce(r, t, at, c, slot) == IF r.found THEN AfterChild(r, c, slot) ELSE NotFound(t)

EraseIterNext(r, t, at, c, slot) ==
    LET n == t.node[c.curr]
        passed == slot <= SlotUse(n) /\ n.key[slot] < t.node[at.leaf].key[at.slot]
    IN  IF r.found THEN AfterChild(r, c, slot)
        ELSE IF passed \/ slot > SlotUse(n) THEN NotFound(t)
        ELSE EraseIterNext(EraseIterDescend(t, at, Below(t, c, slot + 1)), t, at, c, slot + 1)

Counted(r) == IF r.found THEN [r EXCEPT !.tree.items = @ - 1] ELSE r

EraseOne(t, key) == IF t.root = NULL THEN NotFound(t) ELSE Counted(EraseOneDescend(t, key, RootContext(t)))
EraseIter(t, at) == IF t.root = NULL THEN NotFound(t) ELSE Counted(EraseIterDescend(t, at, RootContext(t)))

\* erase(key): erase_one until the key is gone; how many items went.
RECURSIVE EraseRest(_, _, _)
EraseRest(r, key, count) ==
    IF ~r.found THEN [tree |-> r.tree, count |-> count]
    ELSE IF ~r.tree.dup THEN [tree |-> r.tree, count |-> count + 1]
    ELSE EraseRest(EraseOne(r.tree, key), key, count + 1)

EraseKey(t, key) == EraseRest(EraseOne(t, key), key, 0)
=============================================================================
