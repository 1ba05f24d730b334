------------------------- MODULE ConBinRootProofs --------------------------
(***************************************************************************)
(* Below a root the arrays stay one ascending sequence, cut by separators; *)
(* con_find and con_insert answer truly, whatever the other threads do     *)
(* between two steps of theirs, and no key is lost, nor before there is a  *)
(* root.                                                                   *)
(***************************************************************************)
EXTENDS ConBinProofs

\* Structure, with what it lets itself be proved from: the separators ascend, no
\* array is empty or below the root twice.
Below ==
    /\ Len(rkeys) <= RootMax /\ (\A b \in Bin : Len(keys[b]) <= ChildMax)
    /\ head = kids[1] /\ tail = kids[Len(kids)] /\ next[tail] = NoBin
    /\ IsInjective(kids) /\ Ascending(rkeys)
    /\ \A i \in 1 .. Len(kids) : keys[kids[i]] # <<>> /\ Ascending(keys[kids[i]])
    /\ \A i \in 1 .. Len(rkeys) :
        /\ next[kids[i]] = kids[i + 1]
        /\ rkeys[i] = Last(keys[kids[i]]) /\ rkeys[i] < keys[kids[i + 1]][1]

\* What an insert that holds the root knows of it, until it changes something.
AtSlot(t) ==
    /\ slot[t] = Lower(rkeys, key(t)) /\ child[t] = kids[slot[t]]
    /\ pc[t] \in {"wprev", "borrow", "split"} =>
        ~In(child[t], key(t)) /\ Len(keys[child[t]]) = ChildMax
    /\ pc[t] \in {"wprev", "borrow"} =>
        slot[t] > 1 /\ nb[t] = kids[slot[t] - 1] /\ Len(keys[nb[t]]) < ChildMax
    /\ pc[t] = "split" =>
        /\ Len(rkeys) < RootMax /\ \A i \in 1 .. Len(kids) : kids[i] # nb[t]
        /\ keys[nb[t]] = SubSeq(keys[child[t]], Mid(child[t]) + 1, Len(keys[child[t]]))
        /\ next[nb[t]] = next[child[t]]
StructureInv == rooted => Below /\ \A t \in Thread : pc[t] \in AtRoot => AtSlot(t)

-----------------------------------------------------------------------------
(* Ascending arrays. *)

\* find_lower: the keys before the slot are smaller, those from it on are not.
LEMMA LowerIs ==
    ASSUME NEW s \in Seq(Key), Ascending(s), NEW k \in Key
    PROVE  /\ Lower(s, k) \in 1 .. Len(s) + 1
           /\ \A i \in 1 .. Len(s) : s[i] < k <=> i < Lower(s, k)
<1> DEFINE S == {i \in DOMAIN s : s[i] < k}
<1>1. Len(s) \in Nat /\ DOMAIN s = 1 .. Len(s) /\ k \in Int /\ \A i \in 1 .. Len(s) : s[i] \in Int
  <2>1. Key \subseteq Int
    BY KeyAssumption DEF KeyAssumption
  <2>2. \A i \in 1 .. Len(s) : s[i] \in Key
    OBVIOUS
  <2>3. Len(s) \in Nat /\ DOMAIN s = 1 .. Len(s)
    OBVIOUS
  <2>4. k \in Int /\ \A i \in 1 .. Len(s) : s[i] \in Int
    BY <2>1, <2>2
  <2>5. QED
    BY <2>3, <2>4
<1>2. S \in SUBSET (1 .. Len(s)) /\ \A i \in S : \A j \in 1 .. i : j \in S
  BY SMTT(60), <1>1 DEF Ascending
<1> HIDE DEF S
<1>3. Cardinality(S) \in 0 .. Len(s) /\ S = 1 .. Cardinality(S)
  BY <1>1, <1>2, NoGaps
<1>4. \A i \in 1 .. Len(s) : s[i] < k <=> i \in S
  BY <1>1 DEF S
<1>5. Lower(s, k) = Cardinality(S) + 1
  BY DEF Lower, S
<1>6. QED
  BY <1>1, <1>3, <1>4, <1>5

\* A key inserted between smaller and greater ones.
LEMMA InsertBetween ==
    ASSUME NEW s \in Seq(Key), Ascending(s), NEW e \in Key, NEW n \in 1 .. Len(s) + 1,
           \A x \in 1 .. Len(s) : (x < n => s[x] < e) /\ (x >= n => e < s[x])
    PROVE  Ascending(InsertAt(s, n, e))
<1> DEFINE r == InsertAt(s, n, e)
<1>1. /\ r \in Seq(Key) /\ Len(r) = Len(s) + 1
      /\ \A j \in 1 .. Len(s) + 1 : r[j] = IF j < n THEN s[j] ELSE IF j = n THEN e ELSE s[j - 1]
  BY InsertAtIs
<1> HIDE DEF r
<1>2. Len(s) \in Nat
  OBVIOUS
<1>3. ASSUME NEW i \in 1 .. Len(s) + 1, NEW j \in 1 .. Len(s) + 1, i < j PROVE r[i] < r[j]
  <2>1. r[i] = (IF i < n THEN s[i] ELSE IF i = n THEN e ELSE s[i - 1])
    BY <1>1
  <2>2. r[j] = (IF j < n THEN s[j] ELSE IF j = n THEN e ELSE s[j - 1])
    BY <1>1
  <2>3. \A x, y \in 1 .. Len(s) : x < y => s[x] < s[y]
    BY DEF Ascending
  <2>4. \A x \in 1 .. Len(s) : (x < n => s[x] < e) /\ (x >= n => e < s[x])
    OBVIOUS
  <2>5. CASE j < n
    BY <1>2, <1>3, <2>1, <2>2, <2>3, <2>5
  <2>6. CASE j = n
    BY <1>2, <1>3, <2>1, <2>2, <2>4, <2>6
  <2>7. CASE j > n /\ i < n
    <3>1. j - 1 \in 1 .. Len(s) /\ r[j] = s[j - 1] /\ i \in 1 .. Len(s) /\ r[i] = s[i] /\ i < j - 1
      BY <1>2, <2>1, <2>2, <2>7
    <3>2. QED
      BY <2>3, <3>1
  <2>8. CASE j > n /\ i = n
    <3>1. j - 1 \in 1 .. Len(s) /\ r[j] = s[j - 1] /\ j - 1 >= n /\ r[i] = e
      BY <1>2, <2>1, <2>2, <2>8
    <3>2. QED
      BY <2>4, <3>1
  <2>9. CASE j > n /\ i > n
    BY <1>2, <1>3, <2>1, <2>2, <2>3, <2>9
  <2>10. QED
    BY <2>5, <2>6, <2>7, <2>8, <2>9
<1>4. QED
  BY <1>1, <1>3 DEF r, Ascending

\* A new key inserted at its slot: the array ascends, and its ends are known.
LEMMA InsertedAscends ==
    ASSUME NEW s \in Seq(Key), Ascending(s), NEW k \in Key, \A i \in 1 .. Len(s) : s[i] # k
    PROVE  LET n == Lower(s, k)
               r == InsertAt(s, n, k)
           IN  /\ n \in 1 .. Len(s) + 1 /\ r \in Seq(Key) /\ Len(r) = Len(s) + 1 /\ Ascending(r)
               /\ r[1] = (IF n = 1 THEN k ELSE s[1])
               /\ Last(r) = (IF n > Len(s) THEN k ELSE Last(s))
<1> DEFINE n == Lower(s, k)
           r == InsertAt(s, n, k)
<1>1. Len(s) \in Nat /\ DOMAIN s = 1 .. Len(s) /\ k \in Int /\ \A i \in 1 .. Len(s) : s[i] \in Int
  <2>1. Key \subseteq Int
    BY KeyAssumption DEF KeyAssumption
  <2>2. \A i \in 1 .. Len(s) : s[i] \in Key
    OBVIOUS
  <2>3. Len(s) \in Nat /\ DOMAIN s = 1 .. Len(s)
    OBVIOUS
  <2>4. k \in Int /\ \A i \in 1 .. Len(s) : s[i] \in Int
    BY <2>1, <2>2
  <2>5. QED
    BY <2>3, <2>4
<1>2. n \in 1 .. Len(s) + 1 /\ \A i \in 1 .. Len(s) : s[i] < k <=> i < n
  BY LowerIs
<1> HIDE DEF n
<1>3. /\ r \in Seq(Key) /\ Len(r) = Len(s) + 1
      /\ \A j \in 1 .. Len(s) + 1 : r[j] = IF j < n THEN s[j] ELSE IF j = n THEN k ELSE s[j - 1]
  BY <1>2, InsertAtIs
<1> HIDE DEF r
<1>4. \A i \in 1 .. Len(s) : (i < n => s[i] < k) /\ (i >= n => k < s[i])
  BY <1>1, <1>2
<1>5. Ascending(r)
  BY <1>2, <1>4, InsertBetween DEF r
<1>6. r[1] = IF n = 1 THEN k ELSE s[1]
  BY <1>1, <1>2, <1>3
<1>7. Last(r) = IF n > Len(s) THEN k ELSE Last(s)
  <2>1. Last(r) = r[Len(s) + 1] /\ Last(s) = s[Len(s)]
    BY <1>3 DEF Last
  <2>2. QED
    BY <1>1, <1>2, <1>3, <2>1
<1>8. QED
  BY <1>2, <1>3, <1>5, <1>6, <1>7 DEF n, r

-----------------------------------------------------------------------------
(* Steps that change no array. *)

LEMMA AloneHasNoRoot ==
    ASSUME IInv, NEW t \in Thread, RootStep(t), pc[t] \in Alone
    PROVE  StructureInv'
<1>1. ~rooted
  BY DEF IInv, RootInv
<1>2. ~rooted'
  BY <1>1 DEF RootStep
<1>3. QED
  BY <1>2 DEF StructureInv

\* Who changes the arrays holds the root, so nobody else is at a slot of it.
LEMMA StructureKept ==
    ASSUME IInv, StructureInv, NEW t \in Thread, Keeps(t), RootStep(t),
           UNCHANGED <<keys, next, rkeys, kids>> \/ pc[t] \in AtRoot,
           rooted => Below' /\ (pc'[t] \in AtRoot => AtSlot(t)')
    PROVE  StructureInv'
<1> SUFFICES ASSUME rooted', NEW s \in Thread, pc'[s] \in AtRoot
             PROVE  AtSlot(s)'
  BY DEF StructureInv, RootStep
<1>1. rooted
  BY DEF RootStep
<1>2. CASE s = t
  BY <1>1, <1>2
<1>3. CASE s # t
  <2>1. pc'[s] = pc[s] /\ call'[s] = call[s] /\ child'[s] = child[s] /\ nb'[s] = nb[s] /\ slot'[s] = slot[s]
    BY <1>3 DEF Keeps, OthersStay
  <2>2. pc[s] \in AtRoot /\ AtSlot(s)
    BY <1>1, <2>1 DEF StructureInv
  <2>3. pc[t] \notin AtRoot
    BY <1>1, <1>3, <2>2 DEF IInv, RootInv, HoldsRoot
  <2>4. UNCHANGED <<keys, next, rkeys, kids>>
    BY <2>3
  <2>5. QED
    BY <2>1, <2>2, <2>4 DEF AtSlot, In, Mid, key, Lower
<1>4. QED
  BY <1>2, <1>3

LEMMA NothingMoves ==
    ASSUME IInv, StructureInv, NEW t \in Thread, Keeps(t), RootStep(t), UNCHANGED <<bins, root>>,
           rooted /\ pc'[t] \in AtRoot => AtSlot(t)'
    PROVE  StructureInv'
<1>1. rooted => Below'
  BY DEF StructureInv, Below, bins, root
<1>2. QED
  BY <1>1, StructureKept DEF bins, root

LEMMA QuietSteps ==
    ASSUME IInv, StructureInv, NEW t \in Thread, Keeps(t), RootStep(t),
           \/ Call(t) \/ Return(t) \/ Unlock(t)
           \/ FindStart(t) \/ ReadRootVersion(t) \/ ReadRootSlot(t) \/ CheckRoot(t)
           \/ ReadChild(t) \/ ReadChildVersion(t) \/ ReadKeys(t) \/ CheckChild(t) \/ Hop(t)
           \/ InsertStart(t) \/ Duplicate(t) \/ NeedRetrain(t)
    PROVE  StructureInv'
<1>1. UNCHANGED <<bins, root>>
  BY DEF Call, Return, Unlock, FindStart, ReadRootVersion, ReadRootSlot, CheckRoot, ReadChild,
         ReadChildVersion, ReadKeys, CheckChild, Hop, InsertStart, Duplicate, NeedRetrain, shared
<1>2. pc'[t] \notin AtRoot
  <2>1. pc \in [Thread -> Labels]
    BY DEF IInv, TypeOK
  <2>2. QED
    BY <2>1
       DEF Call, Return, Unlock, FindStart, ReadRootVersion, ReadRootSlot, CheckRoot, ReadChild,
           ReadChildVersion, ReadKeys, CheckChild, Hop, InsertStart, Duplicate, NeedRetrain,
           Finish, Release, GoTo, AtRoot
<1>3. QED
  BY <1>1, <1>2, NothingMoves

LEMMA AloneSteps ==
    ASSUME IInv, NEW t \in Thread, RootStep(t),
           \/ NewHead(t) \/ PublishHead(t) \/ ReadVersion(t) \/ CheckVersion(t)
           \/ PutAlone(t) \/ SkipSeparator(t) \/ WantSeparator(t) \/ SetSeparator(t)
           \/ GiveUp(t) \/ GiveBack(t) \/ SeeNoRoot(t) \/ StoreRoot(t) \/ SplitAlone(t)
    PROVE  StructureInv'
<1>1. pc[t] \in Alone
  BY DEF NewHead, PublishHead, ReadVersion, CheckVersion, PutAlone, SkipSeparator, WantSeparator,
         SetSeparator, GiveUp, GiveBack, SeeNoRoot, StoreRoot, SplitAlone, Alone
<1>2. QED
  BY <1>1, AloneHasNoRoot

LEMMA LockRootFinds ==
    ASSUME IInv, StructureInv, NEW t \in Thread, Keeps(t), RootStep(t), LockRoot(t)
    PROVE  StructureInv'
<1>1. UNCHANGED <<bins, root>>
  BY DEF LockRoot
<1>2. pc'[t] \in AtRoot => AtSlot(t)'
  <2>1. slot \in [Thread -> Nat] /\ child \in [Thread -> Bin \cup {NoBin}] /\ pc \in [Thread -> Labels]
    BY DEF IInv, TypeOK
  <2>2. retr => pc'[t] = "unlock"
    BY <2>1 DEF LockRoot, Release, GoTo
  <2>3. ~retr => /\ pc'[t] = "wchild" /\ slot'[t] = Lower(rkeys, key(t))
                 /\ child'[t] = kids[Lower(rkeys, key(t))] /\ UNCHANGED <<rkeys, kids, call>>
    BY <2>1 DEF LockRoot, GoTo, root
  <2>4. ~retr => AtSlot(t)'
    <3> HAVE ~retr
    <3>1. Lower(rkeys, key(t))' = Lower(rkeys, key(t))
      BY <2>3 DEF key
    <3>2. QED
      BY <2>3, <3>1 DEF AtSlot
  <2>5. QED
    BY <2>2, <2>4 DEF AtRoot
<1>3. QED
  BY <1>1, <1>2, NothingMoves

LEMMA LockChildWaits ==
    ASSUME IInv, StructureInv, NEW t \in Thread, Keeps(t), RootStep(t), LockChild(t)
    PROVE  StructureInv'
<1>1. UNCHANGED <<bins, root, local>>
  BY DEF LockChild
<1>2. rooted => pc'[t] = "put" /\ AtSlot(t)
  <2>1. pc \in [Thread -> Labels] /\ (rooted => pc[t] # "slock")
    BY DEF IInv, TypeOK, RootInv, Alone
  <2>2. QED
    BY <2>1 DEF LockChild, GoTo, StructureInv, AtRoot
<1>3. rooted => AtSlot(t)'
  BY <1>1, <1>2 DEF AtSlot, key, Lower, root, local
<1>4. QED
  BY <1>1, <1>3, NothingMoves

LEMMA ChooseLeftKnows ==
    ASSUME IInv, StructureInv, NEW t \in Thread, Keeps(t), RootStep(t), ChooseLeft(t)
    PROVE  StructureInv'
<1>1. UNCHANGED <<bins, root, slot, child, call>>
  BY DEF ChooseLeft, shared
<1>2. rooted => AtSlot(t)
  BY DEF ChooseLeft, Crowded, StructureInv, AtRoot
<1>3. pc'[t] = "wprev" /\ nb'[t] = kids[slot[t] - 1]
  BY DEF ChooseLeft, GoTo, IInv, TypeOK
<1>4. rooted => AtSlot(t)'
  BY <1>1, <1>2, <1>3
     DEF ChooseLeft, Crowded, CanBorrow, IsFull, AtSlot, In, key, Lower, bins, root
<1>5. QED
  BY <1>1, <1>4, NothingMoves

LEMMA LockLeftWaits ==
    ASSUME IInv, StructureInv, NEW t \in Thread, Keeps(t), RootStep(t), LockLeft(t)
    PROVE  StructureInv'
<1>1. UNCHANGED <<bins, root, local>>
  BY DEF LockLeft
<1>2. pc[t] = "wprev" /\ pc'[t] = "borrow"
  BY DEF LockLeft, GoTo, IInv, TypeOK
<1>3. rooted => AtSlot(t)
  BY <1>2 DEF StructureInv, AtRoot
<1>4. rooted => AtSlot(t)'
  BY <1>1, <1>2, <1>3 DEF AtSlot, In, key, Lower, bins, root, local
<1>5. QED
  BY <1>1, <1>4, NothingMoves

-----------------------------------------------------------------------------
(* What an insert with the root knows of its slot. *)

LEMMA KidKeys ==
    ASSUME IInv, NEW i \in 1 .. Len(kids)
    PROVE  kids[i] \in Bin /\ keys[kids[i]] \in Seq(Key)
<1>1. kids[i] \in live /\ live \subseteq Bin
  BY KidsAre DEF IInv, TypeOK
<1>2. QED
  BY <1>1 DEF IInv, TypeOK

\* In an ascending array the first key is the least and the last the greatest.
LEMMA Ends ==
    ASSUME NEW s \in Seq(Key), Ascending(s), s # <<>>
    PROVE  /\ Len(s) \in Nat \ {0} /\ Last(s) = s[Len(s)] /\ s[1] \in Int /\ Last(s) \in Int
           /\ \A i \in 1 .. Len(s) : s[i] \in Int /\ s[1] <= s[i] /\ s[i] <= Last(s)
<1>1. Len(s) \in Nat \ {0} /\ DOMAIN s = 1 .. Len(s) /\ Last(s) = s[Len(s)]
  BY DEF Last
<1>2. Key \subseteq Int
  BY KeyAssumption DEF KeyAssumption
<1>3. ASSUME NEW i \in 1 .. Len(s) PROVE s[i] \in Int
  <2>1. s[i] \in Key
    OBVIOUS
  <2>2. QED
    BY <1>2, <2>1
<1>4. ASSUME NEW i \in 1 .. Len(s) PROVE s[1] <= s[i]
  <2>1. i = 1 \/ s[1] < s[i]
    BY <1>1 DEF Ascending
  <2>2. s[1] \in Int /\ s[i] \in Int
    BY <1>1, <1>3
  <2>3. QED
    BY <2>1, <2>2
<1>5. ASSUME NEW i \in 1 .. Len(s) PROVE s[i] <= s[Len(s)]
  <2>1. i = Len(s) \/ s[i] < s[Len(s)]
    <3>1. Len(s) \in DOMAIN s /\ i \in DOMAIN s
      BY <1>1
    <3>2. i = Len(s) \/ i < Len(s)
      <4>1. Len(s) \in Nat
        BY <1>1
      <4>2. QED
        BY <4>1
    <3>3. QED
      BY <3>1, <3>2 DEF Ascending
  <2>2. s[Len(s)] \in Int /\ s[i] \in Int
    BY <1>1, <1>3
  <2>3. QED
    BY <2>1, <2>2
<1>6. s[1] \in Int /\ Last(s) \in Int
  BY <1>1, <1>3
<1>7. QED
  BY <1>1, <1>3, <1>4, <1>5, <1>6

\* The key belongs between the separators around the slot.  So it is never the
\* new last key of an array that has a separator after it.
LEMMA SlotKnows ==
    ASSUME IInv, Below, NEW t \in Thread, key(t) \in Key, slot[t] = Lower(rkeys, key(t)),
           child[t] = kids[slot[t]], HasRoot
    PROVE  LET n == slot[t]
               a == keys[child[t]]
           IN  /\ n \in 1 .. Len(kids) /\ Len(kids) = Len(rkeys) + 1 /\ child[t] \in Bin
               /\ a \in Seq(Key) /\ Ascending(a) /\ a # <<>>
               /\ n > 1 => rkeys[n - 1] < key(t) /\ rkeys[n - 1] < a[1]
               /\ n <= Len(rkeys) =>
                    /\ rkeys[n] = Last(a) /\ key(t) <= rkeys[n] /\ Slot(t) <= Len(a)
<1> DEFINE n == slot[t]
           a == keys[child[t]]
           k == key(t)
<1>1. rkeys \in Seq(Key) /\ Len(rkeys) \in Nat /\ Len(kids) = Len(rkeys) + 1
  BY DEF IInv, TypeOK
<1>2. n \in 1 .. Len(rkeys) + 1 /\ \A i \in 1 .. Len(rkeys) : rkeys[i] < k <=> i < n
  BY <1>1, LowerIs DEF Below
<1>3. n \in 1 .. Len(kids)
  BY <1>1, <1>2
<1> HIDE DEF k, n
<1>4. child[t] \in Bin /\ a \in Seq(Key) /\ Ascending(a) /\ a # <<>>
  BY <1>3, KidKeys DEF Below, n
<1>5. n > 1 => rkeys[n - 1] < k /\ rkeys[n - 1] < a[1]
  <2> HAVE n > 1
  <2>1. n - 1 \in 1 .. Len(rkeys) /\ n - 1 < n /\ n - 1 + 1 = n
    BY <1>1, <1>2
  <2>2. rkeys[n - 1] < k
    BY <1>2, <2>1
  <2>3. rkeys[n - 1] < keys[kids[n - 1 + 1]][1]
    BY <2>1 DEF Below
  <2>4. QED
    BY <2>1, <2>2, <2>3 DEF n
<1>6. ASSUME n <= Len(rkeys) PROVE rkeys[n] = Last(a) /\ k <= rkeys[n] /\ Slot(t) <= Len(a)
  <2>1. n \in 1 .. Len(rkeys) /\ ~(n < n)
    BY <1>1, <1>2, <1>6
  <2>2. rkeys[n] = Last(a)
    BY <2>1 DEF Below, n
  <2>3. rkeys[n] \in Int /\ k \in Int
    <3>1. rkeys[n] \in Key /\ k \in Key
      BY <1>1, <2>1 DEF k
    <3>2. QED
      BY <3>1, KeyAssumption DEF KeyAssumption
  <2>4. k <= rkeys[n]
    BY <1>2, <2>1, <2>3
  <2>5. /\ Slot(t) \in 1 .. Len(a) + 1
        /\ \A i \in 1 .. Len(a) : a[i] < k <=> i < Slot(t)
    BY <1>4, LowerIs DEF Slot, k
  <2>6. Len(a) \in 1 .. Len(a) /\ Last(a) = a[Len(a)]
    BY <1>4, Ends
  <2>7. ~(a[Len(a)] < k)
    BY <2>2, <2>3, <2>4, <2>6
  <2> HIDE DEF a
  <2>8. Slot(t) <= Len(a)
    BY <2>5, <2>6, <2>7
  <2>9. QED
    BY <2>2, <2>4, <2>8
<1>7. QED
  BY <1>1, <1>3, <1>4, <1>5, <1>6 DEF n, k

\* The array with the new key in it still fits between the separators.
LEMMA InsertedFits ==
    ASSUME IInv, Below, NEW t \in Thread, key(t) \in Key, slot[t] = Lower(rkeys, key(t)),
           child[t] = kids[slot[t]], HasRoot, ~In(child[t], key(t))
    PROVE  LET n == slot[t]
               a == keys[child[t]]
               r == Inserted(t)
           IN  /\ r \in Seq(Key) /\ Len(r) = Len(a) + 1 /\ Ascending(r) /\ r # <<>>
               /\ n > 1 => rkeys[n - 1] < r[1]
               /\ n <= Len(rkeys) => Last(r) = rkeys[n]
<1> DEFINE n == slot[t]
           a == keys[child[t]]
           k == key(t)
           r == Inserted(t)
<1>1. /\ n \in 1 .. Len(kids) /\ a \in Seq(Key) /\ Ascending(a) /\ a # <<>>
      /\ n > 1 => rkeys[n - 1] < k /\ rkeys[n - 1] < a[1]
      /\ n <= Len(rkeys) => rkeys[n] = Last(a) /\ Slot(t) <= Len(a)
  BY SlotKnows
<1>2. \A i \in 1 .. Len(a) : a[i] # k
  BY <1>1 DEF In
<1>3. /\ Slot(t) \in 1 .. Len(a) + 1 /\ r \in Seq(Key) /\ Len(r) = Len(a) + 1 /\ Ascending(r)
      /\ r[1] = (IF Slot(t) = 1 THEN k ELSE a[1])
      /\ Last(r) = (IF Slot(t) > Len(a) THEN k ELSE Last(a))
  BY <1>1, <1>2, InsertedAscends DEF Inserted, Slot
<1> HIDE DEF n, a, k, r
<1>4. Len(a) \in Nat /\ r # <<>>
  BY <1>1, <1>3
<1>5. n <= Len(rkeys) => ~(Slot(t) > Len(a))
  BY <1>1, <1>3, <1>4
<1>6. QED
  BY <1>1, <1>3, <1>4, <1>5 DEF n, a, k, r

\* A key appended that is greater than all.
LEMMA AppendAscends ==
    ASSUME NEW s \in Seq(Key), Ascending(s), s # <<>>, NEW e \in Key, Last(s) < e
    PROVE  LET r == Append(s, e)
           IN  /\ r \in Seq(Key) /\ Len(r) = Len(s) + 1 /\ Ascending(r) /\ r # <<>>
               /\ r[1] = s[1] /\ Last(r) = e
<1> DEFINE r == Append(s, e)
<1>1. /\ Len(s) \in Nat \ {0} /\ Last(s) = s[Len(s)]
      /\ \A i \in 1 .. Len(s) : s[i] \in Int /\ s[1] <= s[i] /\ s[i] <= Last(s)
  BY Ends
<1>2. r \in Seq(Key) /\ Len(r) = Len(s) + 1 /\ (\A i \in 1 .. Len(s) : r[i] = s[i]) /\ r[Len(s) + 1] = e
  OBVIOUS
<1>3. e \in Int /\ Last(s) \in Int
  BY KeyAssumption, Ends DEF KeyAssumption
<1> HIDE DEF r
<1>4. ASSUME NEW i \in 1 .. Len(s) + 1, NEW j \in 1 .. Len(s) + 1, i < j PROVE r[i] < r[j]
  <2>1. i \in 1 .. Len(s) /\ r[i] = s[i]
    BY <1>1, <1>2, <1>4
  <2>2. CASE j = Len(s) + 1
    BY <1>1, <1>2, <1>3, <2>1, <2>2
  <2>3. CASE j # Len(s) + 1
    <3>1. j \in 1 .. Len(s) /\ r[j] = s[j]
      BY <1>1, <1>2, <2>3
    <3>2. QED
      BY <1>4, <2>1, <3>1 DEF Ascending
  <2>4. QED
    BY <2>2, <2>3
<1>5. Ascending(r)
  BY <1>2, <1>4 DEF Ascending
<1>6. r # <<>> /\ r[1] = s[1] /\ Last(r) = e
  BY <1>1, <1>2 DEF Last
<1>7. QED
  BY <1>2, <1>5, <1>6 DEF r

\* What is left when the first key is taken away.
LEMMA TailAscends ==
    ASSUME NEW s \in Seq(Key), Ascending(s), Len(s) > 1
    PROVE  LET r == Tail(s)
           IN  /\ r \in Seq(Key) /\ Len(r) = Len(s) - 1 /\ Ascending(r) /\ r # <<>>
               /\ s[1] < r[1] /\ Last(r) = Last(s)
<1> DEFINE r == Tail(s)
<1>1. r \in Seq(Key) /\ Len(s) \in Nat /\ Len(r) = Len(s) - 1 /\ \A i \in 1 .. Len(s) - 1 : r[i] = s[i + 1]
  OBVIOUS
<1> HIDE DEF r
<1>2. \A x, y \in 1 .. Len(s) : x < y => s[x] < s[y]
  BY DEF Ascending
<1>3. ASSUME NEW i \in 1 .. Len(s) - 1, NEW j \in 1 .. Len(s) - 1, i < j PROVE r[i] < r[j]
  <2>1. i + 1 \in 1 .. Len(s) /\ j + 1 \in 1 .. Len(s) /\ i + 1 < j + 1
    BY <1>1, <1>3
  <2>2. QED
    BY <1>1, <1>2, <2>1
<1>4. Ascending(r)
  BY <1>1, <1>3 DEF Ascending
<1>5. r # <<>> /\ s[1] < r[1] /\ Last(r) = Last(s)
  <2>1. 1 \in 1 .. Len(s) /\ 2 \in 1 .. Len(s) /\ 1 < 2 /\ r[1] = s[2]
    BY <1>1
  <2>2. s[1] < r[1]
    BY <1>2, <2>1
  <2>3. r # <<>> /\ Last(r) = Last(s)
    BY <1>1 DEF Last
  <2>4. QED
    BY <2>2, <2>3
<1>6. QED
  BY <1>1, <1>4, <1>5 DEF r

\* A stretch of an array.
LEMMA SubAscends ==
    ASSUME NEW s \in Seq(Key), Ascending(s), NEW i \in 1 .. Len(s), NEW j \in i .. Len(s)
    PROVE  LET r == SubSeq(s, i, j)
           IN  /\ r \in Seq(Key) /\ Len(r) = j - i + 1 /\ Ascending(r) /\ r # <<>>
               /\ r[1] = s[i] /\ Last(r) = s[j]
               /\ \A x \in 1 .. j - i + 1 : r[x] = s[i + x - 1]
<1> DEFINE r == SubSeq(s, i, j)
<1>1. r \in Seq(Key) /\ Len(r) = j - i + 1 /\ \A x \in 1 .. j - i + 1 : r[x] = s[i + x - 1]
  BY SubSeqProperties
<1> HIDE DEF r
<1>2. ASSUME NEW x \in 1 .. j - i + 1, NEW y \in 1 .. j - i + 1, x < y PROVE r[x] < r[y]
  <2>1. /\ i + x - 1 \in DOMAIN s /\ i + y - 1 \in DOMAIN s /\ i + x - 1 < i + y - 1
        /\ r[x] = s[i + x - 1] /\ r[y] = s[i + y - 1]
    BY <1>1, <1>2
  <2>2. QED
    BY <2>1 DEF Ascending
<1>3. Ascending(r)
  BY <1>1, <1>2 DEF Ascending
<1>4. r # <<>> /\ r[1] = s[i] /\ Last(r) = s[j]
  <2>1. 1 \in 1 .. j - i + 1 /\ j - i + 1 \in 1 .. j - i + 1 /\ i + 1 - 1 = i /\ i + (j - i + 1) - 1 = j
    OBVIOUS
  <2>2. r[1] = s[i] /\ r[j - i + 1] = s[j]
    BY <1>1, <2>1
  <2>3. QED
    BY <1>1, <2>2 DEF Last
<1>5. QED
  BY <1>1, <1>3, <1>4 DEF r

\* A separator is moved between its neighbours.
LEMMA ReplacedAscends ==
    ASSUME NEW s \in Seq(Key), Ascending(s), NEW i \in 1 .. Len(s), NEW e \in Key,
           \A x \in 1 .. Len(s) : (x < i => s[x] < e) /\ (x > i => e < s[x])
    PROVE  LET r == [s EXCEPT ![i] = e]
           IN  r \in Seq(Key) /\ Len(r) = Len(s) /\ Ascending(r)
<1> DEFINE r == [s EXCEPT ![i] = e]
<1>1. r \in Seq(Key) /\ Len(r) = Len(s) /\ DOMAIN r = 1 .. Len(s)
  BY SetAt
<1>2. \A x \in 1 .. Len(s) : r[x] = IF x = i THEN e ELSE s[x]
  OBVIOUS
<1> HIDE DEF r
<1>3. ASSUME NEW x \in 1 .. Len(s), NEW y \in 1 .. Len(s), x < y PROVE r[x] < r[y]
  BY <1>2, <1>3 DEF Ascending
<1>4. QED
  BY <1>1, <1>3 DEF r, Ascending

-----------------------------------------------------------------------------
(* The steps that change arrays or the root. *)

\* What holds before each of them: the facts about the slot, the root in hand.
LEMMA AtTheSlot ==
    ASSUME IInv, StructureInv, NEW t \in Thread, RootStep(t), rooted, pc[t] \in AtRoot
    PROVE  /\ Below /\ AtSlot(t) /\ HasRoot /\ key(t) \in Key
           /\ slot[t] \in 1 .. Len(kids) /\ Len(kids) = Len(rkeys) + 1 /\ Len(rkeys) \in Nat
           /\ child[t] \in Bin
           /\ slot[t] = Lower(rkeys, key(t)) /\ child[t] = kids[slot[t]]
           /\ \A i \in 1 .. Len(kids) : kids[i] \in Bin /\ kids[i] \in live /\ keys[kids[i]] \in Seq(Key)
           /\ \A i, j \in 1 .. Len(kids) : kids[i] = kids[j] => i = j
           /\ \A i, j \in 1 .. Len(rkeys) : i < j => rkeys[i] < rkeys[j]
           /\ rkeys \in Seq(Key) /\ kids \in Seq(live)
           /\ keys \in [Bin -> Seq(Key)] /\ next \in [Bin -> live \cup {NoBin}]
<1>1. Below /\ AtSlot(t) /\ HasRoot
  BY DEF StructureInv, IInv, RootInv
<1>2. pc[t] \in Labels /\ pc[t] # "idle" /\ ThreadOK(t)
  BY DEF IInv, TypeOK, AtRoot
<1>3. key(t) \in Key /\ slot[t] \in 1 .. Len(kids)
  BY <1>2 DEF ThreadOK
<1>4. /\ rkeys \in Seq(Key) /\ kids \in Seq(live) /\ keys \in [Bin -> Seq(Key)]
      /\ next \in [Bin -> live \cup {NoBin}] /\ Len(kids) = Len(rkeys) + 1
  BY <1>1 DEF IInv, TypeOK
<1>5. slot[t] = Lower(rkeys, key(t)) /\ child[t] = kids[slot[t]]
  BY <1>1 DEF AtSlot
<1>6. \A i \in 1 .. Len(kids) : kids[i] \in Bin /\ kids[i] \in live /\ keys[kids[i]] \in Seq(Key)
  BY KidKeys, KidsAre
<1>7. \A i, j \in 1 .. Len(kids) : kids[i] = kids[j] => i = j
  <2>1. DOMAIN kids = 1 .. Len(kids) /\ IsInjective(kids)
    BY <1>1, <1>4 DEF Below
  <2>2. QED
    BY <2>1 DEF IsInjective
<1>8. \A i, j \in 1 .. Len(rkeys) : i < j => rkeys[i] < rkeys[j]
  <2>1. DOMAIN rkeys = 1 .. Len(rkeys) /\ Ascending(rkeys)
    BY <1>1, <1>4 DEF Below
  <2>2. QED
    BY <2>1 DEF Ascending
<1>9. Len(rkeys) \in Nat /\ child[t] \in Bin
  BY <1>3, <1>4, <1>5, <1>6
<1>10. QED
  BY <1>1, <1>3, <1>4, <1>5, <1>6, <1>7, <1>8, <1>9

\* A key put into an array is never the last one before a separator.
LEMMA SeparatorStays ==
    ASSUME IInv, StructureInv, NEW t \in Thread, RootStep(t), rooted, PutInChild(t)
    PROVE  rkeys' = rkeys
<1> DEFINE n == slot[t]
           a == keys[child[t]]
<1>1. pc[t] \in AtRoot
  BY DEF PutInChild, AtRoot
<1>2. /\ Below /\ HasRoot /\ key(t) \in Key /\ n = Lower(rkeys, key(t)) /\ child[t] = kids[n]
      /\ child[t] \in Bin /\ keys \in [Bin -> Seq(Key)] /\ rkeys \in Seq(Key)
  BY <1>1, AtTheSlot
<1>3. n <= Len(rkeys) => Slot(t) <= Len(a)
  BY <1>2, SlotKnows
<1>4. DOMAIN rkeys = 1 .. Len(rkeys) /\ Slot(t) \in Nat /\ Len(a) \in Nat
  BY <1>2, LowerBounds DEF Slot
<1>5. n \in DOMAIN rkeys => ~(Slot(t) > Len(a))
  BY <1>3, <1>4
<1>6. QED
  BY <1>5 DEF PutInChild, Separate

LEMMA PutInChildFits ==
    ASSUME IInv, StructureInv, NEW t \in Thread, Keeps(t), RootStep(t), PutInChild(t)
    PROVE  StructureInv'
<1> DEFINE n == slot[t]
           a == keys[child[t]]
           r == Inserted(t)
<1>1. pc[t] \in AtRoot /\ pc'[t] \notin AtRoot
  BY DEF PutInChild, Release, GoTo, AtRoot, IInv, TypeOK
<1>2. ASSUME rooted PROVE Below'
  <2>1. /\ Below /\ HasRoot /\ key(t) \in Key
        /\ n \in 1 .. Len(kids) /\ Len(kids) = Len(rkeys) + 1 /\ Len(rkeys) \in Nat /\ child[t] \in Bin
        /\ n = Lower(rkeys, key(t)) /\ child[t] = kids[n]
        /\ \A i \in 1 .. Len(kids) : kids[i] \in Bin
        /\ \A i, j \in 1 .. Len(kids) : kids[i] = kids[j] => i = j
        /\ keys \in [Bin -> Seq(Key)] /\ rkeys \in Seq(Key)
    BY <1>1, <1>2, AtTheSlot
  <2>2. ~In(child[t], key(t)) /\ Len(a) # ChildMax
    BY DEF PutInChild, IsFull
  <2>3. /\ r \in Seq(Key) /\ Len(r) = Len(a) + 1 /\ Ascending(r) /\ r # <<>>
        /\ n > 1 => rkeys[n - 1] < r[1]
        /\ n <= Len(rkeys) => Last(r) = rkeys[n]
    BY <2>1, <2>2, InsertedFits
  <2>5. rkeys' = rkeys
    BY <1>2, SeparatorStays
  <2>6. UNCHANGED <<next, head, tail, kids>> /\ keys' = [keys EXCEPT ![child[t]] = r]
    BY DEF PutInChild
  <2> HIDE DEF n, r
  <2>7. /\ \A b \in Bin : b # child[t] => keys'[b] = keys[b]
        /\ \A i \in 1 .. Len(kids) : keys'[kids[i]] = IF i = n THEN r ELSE keys[kids[i]]
    BY <2>1, <2>6
  <2>8. \A b \in Bin : Len(keys'[b]) <= ChildMax
    <3>1. Len(a) <= ChildMax /\ Len(a) \in Nat /\ ChildMax \in Nat
      BY <2>1, BoundAssumption DEF Below, BoundAssumption
    <3>2. Len(keys'[child[t]]) <= ChildMax
      BY <2>1, <2>2, <2>3, <2>7, <3>1
    <3>3. QED
      BY <2>1, <2>7, <3>2 DEF Below
  <2>9. \A i \in 1 .. Len(kids) : keys'[kids[i]] # <<>> /\ Ascending(keys'[kids[i]])
    BY <2>1, <2>3, <2>7 DEF Below
  <2>10. ASSUME NEW i \in 1 .. Len(rkeys)
         PROVE  rkeys[i] = Last(keys'[kids[i]]) /\ rkeys[i] < keys'[kids[i + 1]][1]
    <3>1. i \in 1 .. Len(kids) /\ i + 1 \in 1 .. Len(kids)
      BY <2>1
    <3>2. rkeys[i] = Last(keys[kids[i]]) /\ rkeys[i] < keys[kids[i + 1]][1]
      BY <2>1 DEF Below
    <3>3. rkeys[i] = Last(keys'[kids[i]])
      BY <2>3, <2>7, <3>1, <3>2
    <3>4. CASE i + 1 = n
      <4>1. n > 1 /\ n - 1 = i
        BY <3>4
      <4>2. QED
        BY <2>3, <2>7, <3>1, <3>3, <3>4, <4>1
    <3>5. CASE i + 1 # n
      BY <2>7, <3>1, <3>2, <3>3, <3>5
    <3>6. QED
      BY <3>4, <3>5
  <2>11. QED
    BY <2>1, <2>5, <2>6, <2>8, <2>9, <2>10 DEF Below, Ascending, IsInjective
<1>3. QED
  BY <1>1, <1>2, StructureKept

LEMMA BorrowFits ==
    ASSUME IInv, StructureInv, NEW t \in Thread, Keeps(t), RootStep(t), Borrow(t)
    PROVE  StructureInv'
<1> DEFINE n == slot[t]
           a == keys[child[t]]
           l == keys[nb[t]]
           r == Inserted(t)
<1>1. pc[t] = "borrow" /\ pc[t] \in AtRoot /\ pc'[t] \notin AtRoot
  BY DEF Borrow, Release, GoTo, AtRoot, IInv, TypeOK
<1>2. ASSUME rooted PROVE Below'
  <2>1. /\ Below /\ AtSlot(t) /\ HasRoot /\ key(t) \in Key
        /\ n \in 1 .. Len(kids) /\ Len(kids) = Len(rkeys) + 1 /\ Len(rkeys) \in Nat /\ child[t] \in Bin
        /\ n = Lower(rkeys, key(t)) /\ child[t] = kids[n]
        /\ \A i \in 1 .. Len(kids) : kids[i] \in Bin
        /\ \A i, j \in 1 .. Len(kids) : kids[i] = kids[j] => i = j
        /\ \A i, j \in 1 .. Len(rkeys) : i < j => rkeys[i] < rkeys[j]
        /\ keys \in [Bin -> Seq(Key)] /\ rkeys \in Seq(Key)
    BY <1>1, <1>2, AtTheSlot
  <2>2. /\ ~In(child[t], key(t)) /\ Len(a) = ChildMax
        /\ n > 1 /\ nb[t] = kids[n - 1] /\ Len(l) < ChildMax
    BY <1>1, <2>1 DEF AtSlot
  <2>3. /\ r \in Seq(Key) /\ Len(r) = Len(a) + 1 /\ Ascending(r) /\ r # <<>>
        /\ n > 1 => rkeys[n - 1] < r[1]
        /\ n <= Len(rkeys) => Last(r) = rkeys[n]
    BY <2>1, <2>2, InsertedFits
  <2>4. n <= Len(rkeys) => Slot(t) <= Len(a)
    BY <2>1, SlotKnows
  <2>5. rkeys' = [rkeys EXCEPT ![n - 1] = r[1]]
    <3>1. DOMAIN rkeys = 1 .. Len(rkeys) /\ Slot(t) \in Nat /\ Len(a) \in Nat /\ n - 1 \in DOMAIN rkeys
      <4>1. a \in Seq(Key) /\ Slot(t) \in 1 .. Len(a) + 1
        BY <2>1, LowerBounds DEF Slot
      <4>2. DOMAIN rkeys = 1 .. Len(rkeys) /\ n - 1 \in 1 .. Len(rkeys)
        BY <2>1, <2>2
      <4>3. QED
        BY <4>1, <4>2
    <3>2. ~(Slot(t) > Len(a) /\ n \in DOMAIN rkeys)
      BY <2>4, <3>1
    <3>3. QED
      BY <3>1, <3>2 DEF Borrow, Separate
  <2>6. /\ UNCHANGED <<next, head, tail, kids>>
        /\ keys' = [keys EXCEPT ![nb[t]] = Append(@, r[1]), ![child[t]] = Tail(r)]
    BY DEF Borrow
  <2>7. /\ n - 1 \in 1 .. Len(rkeys) /\ n - 1 \in 1 .. Len(kids) /\ n - 1 # n /\ n - 1 + 1 = n
        /\ l \in Seq(Key) /\ Ascending(l) /\ l # <<>> /\ Last(l) = rkeys[n - 1] /\ nb[t] \in Bin
    <3>1. n - 1 \in 1 .. Len(rkeys) /\ n - 1 \in 1 .. Len(kids) /\ n - 1 # n /\ n - 1 + 1 = n
      BY <2>1, <2>2
    <3>2. QED
      BY <2>1, <2>2, <3>1 DEF Below
  <2>8. Len(a) > 1 /\ Len(r) > 1 /\ r[1] \in Key /\ ChildMax \in Nat
    BY <2>1, <2>2, <2>3, BoundAssumption DEF BoundAssumption
  <2> DEFINE x == Append(l, r[1])
             y == Tail(r)
  <2>9. /\ x \in Seq(Key) /\ Len(x) = Len(l) + 1 /\ Ascending(x) /\ x # <<>> /\ x[1] = l[1] /\ Last(x) = r[1]
    BY <2>2, <2>3, <2>7, <2>8, AppendAscends
  <2>10. /\ y \in Seq(Key) /\ Len(y) = Len(r) - 1 /\ Ascending(y) /\ y # <<>>
         /\ r[1] < y[1] /\ Last(y) = Last(r)
    BY <2>3, <2>8, TailAscends
  <2> HIDE DEF n, r, x, y
  <2>11. /\ \A b \in Bin : b # child[t] /\ b # nb[t] => keys'[b] = keys[b]
         /\ \A i \in 1 .. Len(kids) :
                keys'[kids[i]] = IF i = n THEN y ELSE IF i = n - 1 THEN x ELSE keys[kids[i]]
         /\ keys'[child[t]] = y /\ keys'[nb[t]] = x
    <3>1. child[t] # nb[t]
      BY <2>1, <2>2, <2>7
    <3>2. keys'[child[t]] = y /\ keys'[nb[t]] = x
      BY <2>1, <2>6, <2>7, <3>1 DEF x, y
    <3>3. \A b \in Bin : b # child[t] /\ b # nb[t] => keys'[b] = keys[b]
      BY <2>1, <2>6, <2>7
    <3>4. QED
      BY <2>1, <2>2, <2>7, <3>1, <3>2, <3>3
  <2>12. \A b \in Bin : Len(keys'[b]) <= ChildMax
    <3>1. Len(x) <= ChildMax /\ Len(y) <= ChildMax
      BY <2>2, <2>3, <2>7, <2>8, <2>9, <2>10
    <3>2. QED
      BY <2>1, <2>11, <3>1 DEF Below
  <2>13. \A i \in 1 .. Len(kids) : keys'[kids[i]] # <<>> /\ Ascending(keys'[kids[i]])
    BY <2>1, <2>9, <2>10, <2>11 DEF Below
  <2>14. Ascending(rkeys') /\ Len(rkeys') = Len(rkeys)
    <3>1. ASSUME NEW i \in 1 .. Len(rkeys) PROVE (i < n - 1 => rkeys[i] < r[1]) /\ (i > n - 1 => r[1] < rkeys[i])
      <4>1. rkeys[i] \in Int /\ rkeys[n - 1] \in Int /\ r[1] \in Int
        <5>1. rkeys[i] \in Key /\ rkeys[n - 1] \in Key
          BY <2>1, <2>7
        <5>2. QED
          BY <2>8, <5>1, KeyAssumption DEF KeyAssumption
      <4>2. i < n - 1 => rkeys[i] < r[1]
        <5>1. i < n - 1 => rkeys[i] < rkeys[n - 1]
          BY <2>1, <2>7
        <5>2. rkeys[n - 1] < r[1]
          BY <2>2, <2>3
        <5>3. QED
          BY <4>1, <5>1, <5>2
      <4>3. ASSUME i > n - 1 PROVE r[1] < rkeys[i]
        <5>1. n <= Len(rkeys) /\ n \in 1 .. Len(rkeys) /\ (i = n \/ n < i)
          BY <2>1, <2>7, <4>3
        <5>2. rkeys[n] = Last(y) /\ y[1] <= Last(y) /\ y[1] \in Int /\ Last(y) \in Int
          <6>1. y[1] \in Int /\ Last(y) \in Int /\ 1 \in 1 .. Len(y) /\ y[1] <= Last(y)
            BY <2>10, Ends
          <6>2. QED
            BY <2>3, <2>10, <5>1, <6>1
        <5>3. i = n \/ rkeys[n] < rkeys[i]
          BY <2>1, <5>1
        <5>4. QED
          BY <2>10, <4>1, <5>2, <5>3
      <4>4. QED
        BY <4>2, <4>3
    <3>2. QED
      BY <2>1, <2>5, <2>7, <2>8, <3>1, ReplacedAscends DEF Below
  <2>15. ASSUME NEW i \in 1 .. Len(rkeys)
         PROVE  rkeys'[i] = Last(keys'[kids[i]]) /\ rkeys'[i] < keys'[kids[i + 1]][1]
    <3>1. i \in 1 .. Len(kids) /\ i + 1 \in 1 .. Len(kids)
      BY <2>1
    <3>2. rkeys[i] = Last(keys[kids[i]]) /\ rkeys[i] < keys[kids[i + 1]][1]
      BY <2>1 DEF Below
    <3>3. rkeys'[i] = IF i = n - 1 THEN r[1] ELSE rkeys[i]
      BY <2>1, <2>5
    <3>4. CASE i = n - 1
      BY <2>7, <2>9, <2>10, <2>11, <3>1, <3>3, <3>4
    <3>5. CASE i = n
      <4>1. rkeys'[i] = rkeys[i] /\ n <= Len(rkeys) /\ i + 1 # n - 1 /\ i + 1 # n
        BY <2>1, <2>7, <3>3, <3>5
      <4>2. keys'[kids[i]] = y /\ keys'[kids[i + 1]] = keys[kids[i + 1]]
        BY <2>11, <3>1, <3>5, <4>1
      <4>3. Last(y) = rkeys[i]
        BY <2>3, <2>10, <3>5, <4>1
      <4>4. QED
        BY <3>2, <4>1, <4>2, <4>3
    <3>6. CASE i + 1 = n - 1
      <4>1. i # n /\ i # n - 1 /\ i + 1 # n
        BY <3>6
      <4>2. keys'[kids[i]] = keys[kids[i]] /\ keys'[kids[i + 1]] = x
        BY <2>11, <3>1, <3>6, <4>1
      <4>3. x[1] = keys[kids[i + 1]][1]
        BY <2>2, <2>9, <3>6
      <4>4. QED
        BY <3>2, <3>3, <4>1, <4>2, <4>3
    <3>7. CASE i # n - 1 /\ i # n /\ i + 1 # n - 1
      <4>1. i + 1 # n
        BY <2>1, <3>7
      <4>2. QED
        BY <2>11, <3>1, <3>2, <3>3, <3>7, <4>1
    <3>8. QED
      BY <3>4, <3>5, <3>6, <3>7
  <2>16. QED
    BY <2>1, <2>6, <2>12, <2>13, <2>14, <2>15 DEF Below
<1>3. QED
  BY <1>1, <1>2, StructureKept

LEMMA NewChildFits ==
    ASSUME IInv, StructureInv, NEW t \in Thread, Keeps(t), RootStep(t), NewChild(t)
    PROVE  StructureInv'
<1> DEFINE n == slot[t]
           c == child[t]
           h == SubSeq(keys[c], Mid(c) + 1, Len(keys[c]))
<1>1. ASSUME rooted PROVE pc[t] = "put" /\ Crowded(t) /\ ~CanBorrow(t) /\ Len(rkeys) # RootMax /\ pc'[t] = "split"
  <2>1. HasRoot /\ pc \in [Thread -> Labels]
    BY <1>1 DEF IInv, TypeOK, RootInv
  <2>2. QED
    BY <2>1 DEF NewChild, Crowded, GoTo
<1>2. ASSUME rooted PROVE Below' /\ AtSlot(t)'
  <2>1. /\ Below /\ AtSlot(t) /\ HasRoot /\ key(t) \in Key
        /\ n \in 1 .. Len(kids) /\ Len(kids) = Len(rkeys) + 1 /\ Len(rkeys) \in Nat /\ c \in Bin
        /\ n = Lower(rkeys, key(t)) /\ c = kids[n]
        /\ \A i \in 1 .. Len(kids) : kids[i] \in Bin /\ kids[i] \in live /\ keys[kids[i]] \in Seq(Key)
        /\ keys \in [Bin -> Seq(Key)] /\ next \in [Bin -> live \cup {NoBin}]
    BY <1>1, <1>2, AtTheSlot DEF AtRoot
  <2>2. PICK b \in Bin \ live :
            /\ nb' = [nb EXCEPT ![t] = b] /\ keys' = [keys EXCEPT ![b] = h]
            /\ next' = [next EXCEPT ![b] = next[c]]
    BY DEF NewChild
  <2>3. /\ \A a \in live : keys'[a] = keys[a] /\ next'[a] = next[a]
        /\ \A a \in Bin : a # b => keys'[a] = keys[a]
        /\ b \in Bin /\ keys'[b] = h /\ next'[b] = next[c] /\ nb'[t] = b
    BY <2>1, <2>2 DEF IInv, TypeOK
  <2>4. UNCHANGED <<head, tail, rkeys, kids, slot, child, call>>
    BY DEF NewChild, root
  <2>5. Len(keys[c]) = ChildMax /\ ~In(c, key(t)) /\ Len(rkeys) < RootMax
    BY <1>1, <1>2, <2>1, BoundAssumption DEF Crowded, IsFull, Below, BoundAssumption
  <2>6. Len(h) <= ChildMax
    <3>1. Mid(c) \in 0 .. Len(keys[c]) /\ ChildMax \in Nat /\ Len(keys[c]) \in Nat
      BY <2>1, <2>5, BoundAssumption DEF BoundAssumption, Mid
    <3>2. keys[c] \in Seq(Key) /\ Len(h) = Len(keys[c]) - Mid(c)
      <4> DEFINE m == Mid(c) + 1
                 s == keys[c]
      <4>1. s \in Seq(Key) /\ m \in 1 .. Len(s) + 1 /\ Len(s) \in Nat /\ Len(s) - m + 1 = Len(s) - Mid(c)
        BY <2>1, <3>1
      <4> HIDE DEF m, s
      <4>2. Len(SubSeq(s, m, Len(s))) = IF m <= Len(s) THEN Len(s) - m + 1 ELSE 0
        <5>1. \A i \in m .. Len(s) : s[i] \in Key
          BY <4>1
        <5>2. m \in Int /\ Len(s) \in Int
          BY <4>1
        <5>3. QED
          BY <5>1, <5>2, SubSeqProperties
      <4>3. Len(SubSeq(s, m, Len(s))) = Len(s) - Mid(c)
        BY <3>1, <4>1, <4>2 DEF s
      <4>4. QED
        BY <4>1, <4>3 DEF m, s
    <3>3. QED
      BY <2>5, <3>1, <3>2
  <2> HIDE DEF h, n
  <2>7. tail = kids[Len(kids)] /\ tail \in live
    BY <2>1 DEF Below
  <2>8. Below'
    <3>1. \A a \in Bin : Len(keys'[a]) <= ChildMax
      BY <2>1, <2>3, <2>6 DEF Below
    <3>2. next'[tail'] = NoBin
      BY <2>1, <2>3, <2>4, <2>7 DEF Below
    <3>3. \A i \in 1 .. Len(kids) : keys'[kids[i]] = keys[kids[i]] /\ next'[kids[i]] = next[kids[i]]
      BY <2>1, <2>3
    <3>4. \A i \in 1 .. Len(rkeys) : i \in 1 .. Len(kids) /\ i + 1 \in 1 .. Len(kids)
      BY <2>1
    <3>5. QED
      BY <2>1, <2>4, <3>1, <3>2, <3>3, <3>4 DEF Below
  <2>9. AtSlot(t)'
    <3>1. keys'[c] = keys[c] /\ next'[c] = next[c] /\ c \in live
      BY <2>1, <2>3
    <3>2. Lower(rkeys, key(t))' = Lower(rkeys, key(t)) /\ key(t)' = key(t) /\ child'[t] = c /\ slot'[t] = n
      BY <2>4 DEF key, n
    <3>3. ~In(child[t], key(t))'
      BY <2>5, <3>1, <3>2 DEF In
    <3>4. Mid(child[t])' = Mid(c)
      BY <3>1, <3>2 DEF Mid
    <3>5. h = SubSeq(keys'[c], Mid(c) + 1, Len(keys'[c]))
      BY <3>1 DEF h
    <3>6. \A i \in 1 .. Len(kids) : kids[i] # b
      BY <2>1, <2>2
    <3>7. QED
      BY <1>1, <1>2, <2>1, <2>3, <2>4, <2>5, <3>1, <3>2, <3>3, <3>4, <3>5, <3>6 DEF AtSlot
  <2>10. QED
    BY <2>8, <2>9
<1>3. rooted => pc[t] \in AtRoot
  BY <1>1 DEF AtRoot
<1>4. CASE rooted
  BY <1>2, <1>3, <1>4, StructureKept
<1>5. CASE ~rooted
  BY <1>5 DEF RootStep, StructureInv
<1>6. QED
  BY <1>4, <1>5

\* Halves: two arrays that ascend in turn, with the new key in one of them, between
\* the separators around the slot.
LEMMA HalvesFit ==
    ASSUME IInv, StructureInv, NEW t \in Thread, RootStep(t), rooted, pc[t] = "split"
    PROVE  LET n == slot[t]
               lo == Halves(t)[1]
               hi == Halves(t)[2]
           IN  /\ lo \in Seq(Key) /\ Ascending(lo) /\ lo # <<>> /\ Len(lo) <= ChildMax
               /\ hi \in Seq(Key) /\ Ascending(hi) /\ hi # <<>> /\ Len(hi) <= ChildMax
               /\ Last(lo) < hi[1]
               /\ n > 1 => rkeys[n - 1] < lo[1]
               /\ n <= Len(rkeys) => Last(hi) = rkeys[n]
<1> DEFINE n == slot[t]
           a == keys[child[t]]
           k == key(t)
           m == Mid(child[t])
           lower == SubSeq(a, 1, m)
           upper == keys[nb[t]]
           lo == Halves(t)[1]
           hi == Halves(t)[2]
<1>1. /\ Below /\ AtSlot(t) /\ HasRoot /\ k \in Key
      /\ n \in 1 .. Len(kids) /\ child[t] \in Bin
      /\ n = Lower(rkeys, k) /\ child[t] = kids[n]
  BY AtTheSlot DEF AtRoot
<1>2. /\ ~In(child[t], k) /\ Len(a) = ChildMax
      /\ upper = SubSeq(a, m + 1, Len(a))
  BY <1>1 DEF AtSlot
<1>3. /\ a \in Seq(Key) /\ Ascending(a) /\ a # <<>>
      /\ n > 1 => rkeys[n - 1] < k /\ rkeys[n - 1] < a[1]
      /\ n <= Len(rkeys) => rkeys[n] = Last(a) /\ Slot(t) <= Len(a)
  BY <1>1, SlotKnows
<1>4. m \in 1 .. Len(a) - 1 /\ m \in 1 .. Len(a) /\ m + 1 \in 1 .. Len(a) /\ Len(a) \in Nat /\ ChildMax \in Nat
  BY <1>2, <1>3, BoundAssumption DEF BoundAssumption, Mid
<1>5. Halves(t) = IF Slot(t) <= m + 1
                  THEN <<InsertAt(lower, Lower(lower, k), k), upper>>
                  ELSE <<lower, InsertAt(upper, Lower(upper, k), k)>>
  BY DEF Halves
<1>6. /\ Slot(t) \in 1 .. Len(a) + 1
      /\ \A i \in 1 .. Len(a) : a[i] \in Int /\ a[i] # k /\ (a[i] < k <=> i < Slot(t))
  <2>1. Slot(t) \in 1 .. Len(a) + 1 /\ \A i \in 1 .. Len(a) : a[i] < k <=> i < Slot(t)
    BY <1>1, <1>3, LowerIs DEF Slot
  <2>2. \A i \in 1 .. Len(a) : a[i] \in Int
    BY <1>3, Ends
  <2>3. \A i \in 1 .. Len(a) : a[i] # k
    BY <1>2, <1>3 DEF In
  <2>4. QED
    BY <2>1, <2>2, <2>3
<1> HIDE DEF k, m, lo, hi, n
<1>7. /\ lower \in Seq(Key) /\ Len(lower) = m /\ Ascending(lower) /\ lower # <<>>
      /\ lower[1] = a[1] /\ Last(lower) = a[m]
      /\ \A x \in 1 .. m : lower[x] = a[x]
  <2>1. m \in 1 .. Len(a) /\ 1 \in 1 .. Len(a) /\ m - 1 + 1 = m /\ \A x \in 1 .. m : 1 + x - 1 = x
    BY <1>4
  <2>2. QED
    BY <1>3, <2>1, SubAscends
<1>8. /\ upper \in Seq(Key) /\ Len(upper) = Len(a) - m /\ Ascending(upper) /\ upper # <<>>
      /\ upper[1] = a[m + 1] /\ Last(upper) = a[Len(a)]
      /\ \A x \in 1 .. Len(a) - m : upper[x] = a[m + x]
  <2> DEFINE i == m + 1
  <2>1. i \in 1 .. Len(a) /\ Len(a) \in i .. Len(a) /\ Len(a) - i + 1 = Len(a) - m
    BY <1>4
  <2>2. \A x \in 1 .. Len(a) - m : i + x - 1 = m + x
    BY <1>4
  <2>3. upper = SubSeq(a, i, Len(a))
    BY <1>2
  <2> HIDE DEF i, upper
  <2>4. /\ upper \in Seq(Key) /\ Len(upper) = Len(a) - i + 1 /\ Ascending(upper) /\ upper # <<>>
        /\ upper[1] = a[i] /\ Last(upper) = a[Len(a)]
        /\ \A x \in 1 .. Len(a) - i + 1 : upper[x] = a[i + x - 1]
    BY ZenonT(60), <1>3, <2>1, <2>3, SubAscends
  <2>5. QED
    BY <2>1, <2>2, <2>4 DEF i, upper
<1>9. a[m] < a[m + 1] /\ Last(a) = a[Len(a)] /\ k \in Int /\ a[1] \in Int
  <2>1. a[m] < a[m + 1]
    <3>1. m \in DOMAIN a /\ m + 1 \in DOMAIN a /\ m < m + 1
      BY <1>3, <1>4
    <3>2. QED
      BY <1>3, <3>1 DEF Ascending
  <2>2. Last(a) = a[Len(a)] /\ a[1] \in Int
    BY <1>3, Ends
  <2>3. k \in Int
    BY <1>1, KeyAssumption DEF KeyAssumption
  <2>4. QED
    BY <2>1, <2>2, <2>3
<1> HIDE DEF a, lower, upper
<1>10. CASE Slot(t) <= m + 1
  <2>1. lo = InsertAt(lower, Lower(lower, k), k) /\ hi = upper
    BY <1>5, <1>10 DEF lo, hi
  <2>2. k < a[m + 1]
    BY <1>4, <1>6, <1>9, <1>10
  <2>3. \A i \in 1 .. Len(lower) : lower[i] # k
    BY <1>4, <1>6, <1>7
  <2>4. /\ lo \in Seq(Key) /\ Len(lo) = Len(lower) + 1 /\ Ascending(lo)
        /\ lo[1] \in {k, lower[1]} /\ Last(lo) \in {k, Last(lower)}
    BY <1>1, <1>7, <2>1, <2>3, InsertedAscends
  <2>5. Last(lo) < hi[1]
    BY <1>7, <1>8, <1>9, <2>1, <2>2, <2>4
  <2>6. n > 1 => rkeys[n - 1] < lo[1]
    BY <1>3, <1>7, <2>4
  <2>7. n <= Len(rkeys) => Last(hi) = rkeys[n]
    BY <1>3, <1>8, <1>9, <2>1
  <2>8. Len(lo) <= ChildMax /\ Len(hi) <= ChildMax /\ lo # <<>>
    BY <1>2, <1>4, <1>7, <1>8, <2>1, <2>4
  <2>9. QED
    BY <1>8, <2>1, <2>4, <2>5, <2>6, <2>7, <2>8 DEF lo, hi, n
<1>11. CASE ~(Slot(t) <= m + 1)
  <2>1. lo = lower /\ hi = InsertAt(upper, Lower(upper, k), k)
    BY <1>5, <1>11 DEF lo, hi
  <2>2. a[m] < k
    BY <1>4, <1>6, <1>11
  <2>3. \A i \in 1 .. Len(upper) : upper[i] # k
    <3>1. \A i \in 1 .. Len(upper) : m + i \in 1 .. Len(a) /\ upper[i] = a[m + i]
      BY <1>4, <1>8
    <3>2. QED
      BY <1>6, <3>1
  <2>4. /\ hi \in Seq(Key) /\ Len(hi) = Len(upper) + 1 /\ Ascending(hi)
        /\ hi[1] \in {k, upper[1]}
        /\ Last(hi) = (IF Lower(upper, k) > Len(upper) THEN k ELSE Last(upper))
    BY <1>1, <1>8, <2>1, <2>3, InsertedAscends
  <2>5. Last(lo) < hi[1]
    BY <1>7, <1>8, <1>9, <2>1, <2>2, <2>4
  <2>6. n > 1 => rkeys[n - 1] < lo[1]
    BY <1>3, <1>7, <2>1
  <2>7. n <= Len(rkeys) => Last(hi) = rkeys[n]
    <3> HAVE n <= Len(rkeys)
    <3>1. Slot(t) <= Len(a) /\ rkeys[n] = Last(a)
      BY <1>3
    <3>2. ~(a[Len(a)] < k)
      BY <1>4, <1>6, <3>1
    <3>3. /\ Lower(upper, k) \in 1 .. Len(upper) + 1
          /\ \A i \in 1 .. Len(upper) : upper[i] < k <=> i < Lower(upper, k)
      BY <1>1, <1>8, LowerIs
    <3>4. Len(upper) \in 1 .. Len(upper) /\ upper[Len(upper)] = a[Len(a)]
      BY <1>8, Ends
    <3>5. ~(Lower(upper, k) > Len(upper))
      BY <3>2, <3>3, <3>4
    <3>6. QED
      BY <1>8, <1>9, <2>4, <3>1, <3>5
  <2>8. Len(lo) <= ChildMax /\ Len(hi) <= ChildMax /\ hi # <<>>
    BY <1>2, <1>4, <1>7, <1>8, <2>1, <2>4
  <2>9. QED
    BY <1>7, <2>1, <2>4, <2>5, <2>6, <2>7, <2>8 DEF lo, hi, n
<1>12. QED
  BY <1>10, <1>11

\* Root and arrays after a split: the new array follows the one it halves, and the
\* separator between them is new.
LEMMA SplitShape ==
    ASSUME IInv, StructureInv, NEW t \in Thread, RootStep(t), rooted, Split(t)
    PROVE  LET n == slot[t]
               c == child[t]
               b == nb[t]
               lo == Halves(t)[1]
               hi == Halves(t)[2]
               m == Len(rkeys)
           IN  /\ kids' \in Seq(live) /\ Len(kids') = m + 2
               /\ \A i \in 1 .. m + 2 :
                    kids'[i] = IF i < n + 1 THEN kids[i] ELSE IF i = n + 1 THEN b ELSE kids[i - 1]
               /\ rkeys' \in Seq(Key) /\ Len(rkeys') = m + 1
               /\ \A i \in 1 .. m + 1 :
                    rkeys'[i] = IF i < n THEN rkeys[i] ELSE IF i = n THEN Last(lo) ELSE rkeys[i - 1]
               /\ keys'[c] = lo /\ keys'[b] = hi /\ (\A a \in Bin : a # c /\ a # b => keys'[a] = keys[a])
               /\ next'[c] = b /\ \A a \in Bin : a # c => next'[a] = next[a]
<1> DEFINE n == slot[t]
           c == child[t]
           b == nb[t]
           lo == Halves(t)[1]
           hi == Halves(t)[2]
           e == Last(lo)
           m == Len(rkeys)
<1>1. pc[t] = "split" /\ pc[t] \in AtRoot
  BY DEF Split, AtRoot
<1>2. /\ n \in 1 .. m + 1 /\ Len(kids) = m + 1 /\ m \in Nat /\ c \in Bin
      /\ rkeys \in Seq(Key) /\ kids \in Seq(live)
      /\ keys \in [Bin -> Seq(Key)] /\ next \in [Bin -> live \cup {NoBin}]
  BY <1>1, AtTheSlot
<1>3. b \in Bin /\ b \in live /\ b # c
  BY <1>1, Knows DEF IInv, TypeOK
<1>4. lo \in Seq(Key) /\ lo # <<>>
  BY <1>1, HalvesFit
<1>5. /\ next' = [next EXCEPT ![c] = b] /\ keys' = [keys EXCEPT ![c] = lo, ![b] = hi]
      /\ rkeys' = InsertAt(rkeys, n, e) /\ kids' = InsertAt(kids, n + 1, b)
  BY DEF Split, Link
<1> HIDE DEF n, c, b, lo, hi, e, m
<1>6. /\ kids' \in Seq(live) /\ Len(kids') = m + 2
      /\ \A i \in 1 .. m + 2 :
            kids'[i] = IF i < n + 1 THEN kids[i] ELSE IF i = n + 1 THEN b ELSE kids[i - 1]
  <2> DEFINE p == n + 1
  <2>1. p \in 1 .. Len(kids) + 1 /\ Len(kids) + 1 = m + 2
    BY <1>2
  <2> HIDE DEF p
  <2>2. kids \in Seq(live) /\ b \in live
    BY <1>2, <1>3
  <2>3. /\ InsertAt(kids, p, b) \in Seq(live) /\ Len(InsertAt(kids, p, b)) = Len(kids) + 1
        /\ \A i \in 1 .. Len(kids) + 1 :
              InsertAt(kids, p, b)[i] = IF i < p THEN kids[i] ELSE IF i = p THEN b ELSE kids[i - 1]
    BY <2>1, <2>2, InsertAtIs
  <2>4. kids' = InsertAt(kids, p, b)
    BY <1>5 DEF p
  <2>5. QED
    BY <2>1, <2>3, <2>4 DEF p
<1>7. /\ rkeys' \in Seq(Key) /\ Len(rkeys') = m + 1
      /\ \A i \in 1 .. m + 1 : rkeys'[i] = IF i < n THEN rkeys[i] ELSE IF i = n THEN e ELSE rkeys[i - 1]
  <2>1. n \in 1 .. Len(rkeys) + 1 /\ e \in Key
    BY <1>2, <1>4 DEF m, e, Last
  <2>2. /\ InsertAt(rkeys, n, e) \in Seq(Key) /\ Len(InsertAt(rkeys, n, e)) = Len(rkeys) + 1
        /\ \A i \in 1 .. Len(rkeys) + 1 :
            InsertAt(rkeys, n, e)[i] = IF i < n THEN rkeys[i] ELSE IF i = n THEN e ELSE rkeys[i - 1]
    BY <1>2, <2>1, InsertAtIs
  <2>3. QED
    BY <1>5, <2>2 DEF m
<1>8. /\ keys'[c] = lo /\ keys'[b] = hi /\ (\A a \in Bin : a # c /\ a # b => keys'[a] = keys[a])
      /\ next'[c] = b /\ \A a \in Bin : a # c => next'[a] = next[a]
  BY <1>2, <1>3, <1>5
<1>9. QED
  BY <1>6, <1>7, <1>8 DEF n, c, b, lo, hi, e, m

LEMMA SplitFits ==
    ASSUME IInv, StructureInv, NEW t \in Thread, Keeps(t), RootStep(t), Split(t)
    PROVE  StructureInv'
<1> DEFINE n == slot[t]
           c == child[t]
           b == nb[t]
           lo == Halves(t)[1]
           hi == Halves(t)[2]
           e == Last(lo)
           m == Len(rkeys)
<1>1. pc[t] = "split" /\ pc[t] \in AtRoot /\ pc'[t] \notin AtRoot
  BY DEF Split, Release, GoTo, AtRoot, IInv, TypeOK
<1>2. ASSUME rooted PROVE Below'
  <2>1. /\ Below /\ AtSlot(t) /\ HasRoot
        /\ n \in 1 .. m + 1 /\ Len(kids) = m + 1 /\ m \in Nat /\ c \in Bin /\ c = kids[n]
        /\ \A i \in 1 .. m + 1 : kids[i] \in Bin /\ kids[i] \in live
        /\ \A i, j \in 1 .. m + 1 : kids[i] = kids[j] => i = j
        /\ \A i, j \in 1 .. m : i < j => rkeys[i] < rkeys[j]
        /\ rkeys \in Seq(Key) /\ kids \in Seq(live)
        /\ keys \in [Bin -> Seq(Key)] /\ next \in [Bin -> live \cup {NoBin}]
    BY <1>1, <1>2, AtTheSlot
  <2>2. m < RootMax /\ next[b] = next[c] /\ \A i \in 1 .. m + 1 : kids[i] # b
    BY <1>1, <2>1 DEF AtSlot
  <2>3. b \in Bin /\ b \in live /\ b # c /\ NoBin \notin live
    BY <1>1, Knows, NameAssumption DEF NameAssumption, IInv, TypeOK
  <2>4. /\ lo \in Seq(Key) /\ Ascending(lo) /\ lo # <<>> /\ Len(lo) <= ChildMax
        /\ hi \in Seq(Key) /\ Ascending(hi) /\ hi # <<>> /\ Len(hi) <= ChildMax
        /\ e < hi[1]
        /\ n > 1 => rkeys[n - 1] < lo[1]
        /\ n <= m => Last(hi) = rkeys[n]
    BY <1>1, <1>2, HalvesFit
  <2>5. /\ next' = [next EXCEPT ![c] = b] /\ tail' = (IF next[b] = NoBin THEN b ELSE tail)
        /\ keys' = [keys EXCEPT ![c] = lo, ![b] = hi]
        /\ rkeys' = InsertAt(rkeys, n, e) /\ kids' = InsertAt(kids, n + 1, b) /\ head' = head
    BY DEF Split, Link
  <2> HIDE DEF n, c, b, lo, hi, e, m
  <2>6. /\ kids' \in Seq(live) /\ Len(kids') = m + 2
        /\ \A i \in 1 .. m + 2 :
              kids'[i] = IF i < n + 1 THEN kids[i] ELSE IF i = n + 1 THEN b ELSE kids[i - 1]
    BY <1>2, SplitShape DEF n, b, m
  <2>7. e \in Key /\ e \in Int /\ lo[1] <= e /\ hi[1] <= Last(hi) /\ {lo[1], hi[1], Last(hi)} \subseteq Int
    <3>1. e \in Key
      BY <2>4 DEF Last, e
    <3>2. Len(lo) \in 1 .. Len(lo) /\ e = lo[Len(lo)] /\ e \in Int /\ lo[1] \in Int /\ lo[1] <= e
      BY <2>4, Ends DEF e
    <3>3. 1 \in 1 .. Len(hi) /\ hi[1] \in Int /\ Last(hi) \in Int /\ hi[1] <= Last(hi)
      BY <2>4, Ends
    <3>4. QED
      BY <3>1, <3>2, <3>3
  <2>8. \A i \in 1 .. m : rkeys[i] \in Int /\ (i < n => rkeys[i] < e) /\ (i >= n => e < rkeys[i])
    <3> SUFFICES ASSUME NEW i \in 1 .. m
                 PROVE  rkeys[i] \in Int /\ (i < n => rkeys[i] < e) /\ (i >= n => e < rkeys[i])
      OBVIOUS
    <3>1. \A j \in 1 .. m : rkeys[j] \in Int
      <4>1. \A j \in 1 .. m : rkeys[j] \in Key
        BY <2>1 DEF m
      <4>2. QED
        BY <4>1, KeyAssumption DEF KeyAssumption
    <3>2. ASSUME i < n PROVE rkeys[i] < e
      <4>1. n > 1 /\ n - 1 \in 1 .. m /\ (i = n - 1 \/ i < n - 1)
        BY <2>1, <3>2
      <4>2. i = n - 1 \/ rkeys[i] < rkeys[n - 1]
        BY <2>1, <4>1
      <4>3. rkeys[i] \in Int /\ rkeys[n - 1] \in Int
        BY <3>1, <4>1
      <4>4. QED
        BY <2>4, <2>7, <4>1, <4>2, <4>3
    <3>3. ASSUME i >= n PROVE e < rkeys[i]
      <4>1. n \in 1 .. m /\ n <= m /\ (i = n \/ n < i)
        BY <2>1, <3>3
      <4>2. i = n \/ rkeys[n] < rkeys[i]
        BY <2>1, <4>1
      <4>3. rkeys[i] \in Int /\ rkeys[n] \in Int
        BY <3>1, <4>1
      <4>4. QED
        BY <2>4, <2>7, <4>1, <4>2, <4>3
    <3>4. QED
      BY <3>1, <3>2, <3>3
  <2>9. /\ rkeys' \in Seq(Key) /\ Len(rkeys') = m + 1 /\ Ascending(rkeys')
        /\ \A i \in 1 .. m + 1 : rkeys'[i] = IF i < n THEN rkeys[i] ELSE IF i = n THEN e ELSE rkeys[i - 1]
    <3>1. n \in 1 .. Len(rkeys) + 1
      BY <2>1 DEF m
    <3>2. Ascending(rkeys)
      BY <2>1 DEF Below
    <3>3. \A i \in 1 .. Len(rkeys) : (i < n => rkeys[i] < e) /\ (i >= n => e < rkeys[i])
      BY <2>8 DEF m
    <3>4. Ascending(rkeys')
      BY <2>1, <2>5, <2>7, <3>1, <3>2, <3>3, InsertBetween
    <3>5. /\ rkeys' \in Seq(Key) /\ Len(rkeys') = m + 1
          /\ \A i \in 1 .. m + 1 :
                rkeys'[i] = IF i < n THEN rkeys[i] ELSE IF i = n THEN e ELSE rkeys[i - 1]
      BY <1>2, SplitShape DEF n, m, e, lo
    <3>6. QED
      BY <3>4, <3>5
  <2>10. /\ keys'[c] = lo /\ keys'[b] = hi /\ (\A a \in Bin : a # c /\ a # b => keys'[a] = keys[a])
         /\ next'[c] = b /\ \A a \in Bin : a # c => next'[a] = next[a]
    BY <1>2, SplitShape DEF c, b, lo, hi
  <2>11. \A i \in 1 .. m + 1 : i # n =>
            keys'[kids[i]] = keys[kids[i]] /\ next'[kids[i]] = next[kids[i]]
    BY <2>1, <2>2, <2>10
  <2>12. \A a \in Bin : Len(keys'[a]) <= ChildMax
    BY <2>1, <2>4, <2>10 DEF Below
  <2>13. /\ \A i \in 1 .. m + 1 : keys[kids[i]] # <<>> /\ Ascending(keys[kids[i]])
         /\ \A i \in 1 .. m : /\ next[kids[i]] = kids[i + 1]
                              /\ rkeys[i] = Last(keys[kids[i]]) /\ rkeys[i] < keys[kids[i + 1]][1]
    BY <2>1 DEF Below, m
  <2>14. ASSUME NEW i \in 1 .. m + 2
         PROVE  keys'[kids'[i]] # <<>> /\ Ascending(keys'[kids'[i]])
    <3>1. CASE i < n
      <4>1. i \in 1 .. m + 1 /\ i # n /\ kids'[i] = kids[i]
        BY <2>1, <2>6, <3>1
      <4>2. QED
        BY <2>11, <2>13, <4>1
    <3>2. CASE i = n \/ i = n + 1
      BY <2>1, <2>4, <2>6, <2>10, <3>2
    <3>3. CASE i > n + 1
      <4>1. i - 1 \in 1 .. m + 1 /\ i - 1 # n /\ kids'[i] = kids[i - 1]
        BY <2>1, <2>6, <3>3
      <4>2. QED
        BY <2>11, <2>13, <4>1
    <3>4. QED
      BY <2>1, <3>1, <3>2, <3>3
  <2>15. ASSUME NEW i \in 1 .. m + 1
         PROVE  /\ next'[kids'[i]] = kids'[i + 1]
                /\ rkeys'[i] = Last(keys'[kids'[i]]) /\ rkeys'[i] < keys'[kids'[i + 1]][1]
    <3>1. CASE i < n
      <4>1. /\ i \in 1 .. m /\ i # n /\ i + 1 \in 1 .. m + 1 /\ kids'[i] = kids[i] /\ kids'[i + 1] = kids[i + 1]
            /\ rkeys'[i] = rkeys[i]
        BY <2>1, <2>6, <2>9, <3>1
      <4>2. next'[kids'[i]] = kids'[i + 1] /\ rkeys'[i] = Last(keys'[kids'[i]])
        BY <2>11, <2>13, <4>1
      <4>3. CASE i + 1 = n
        <5>1. n > 1 /\ n - 1 = i /\ keys'[kids'[i + 1]] = lo
          BY <2>1, <2>10, <4>1, <4>3
        <5>2. QED
          BY <2>4, <4>1, <4>2, <5>1
      <4>4. CASE i + 1 # n
        BY <2>11, <2>13, <4>1, <4>2, <4>4
      <4>5. QED
        BY <4>3, <4>4
    <3>2. CASE i = n
      <4>1. kids'[i] = c /\ kids'[i + 1] = b /\ rkeys'[i] = e
        BY <2>1, <2>6, <2>9, <3>2
      <4>2. QED
        BY <2>4, <2>10, <4>1 DEF e
    <3>3. CASE i = n + 1
      <4>1. /\ n \in 1 .. m /\ n + 1 \in 1 .. m + 1 /\ n + 1 # n /\ kids'[i] = b /\ kids'[i + 1] = kids[n + 1]
            /\ rkeys'[i] = rkeys[n]
        <5>1. n \in 1 .. m /\ n + 1 \in 1 .. m + 1 /\ n + 1 # n
          BY <2>1, <3>3
        <5> DEFINE l == i + 1
        <5>2. /\ l \in 1 .. m + 2 /\ ~(l < n + 1) /\ l # n + 1 /\ l - 1 = n + 1
              /\ i \in 1 .. m + 2 /\ ~(i < n + 1) /\ ~(i < n) /\ i # n /\ i - 1 = n
          BY <2>1, <3>3
        <5> HIDE DEF l
        <5>3. kids'[l] = kids[l - 1] /\ kids'[i] = b
          BY <2>6, <3>3, <5>2
        <5>4. rkeys'[i] = rkeys[i - 1]
          BY <2>9, <5>2
        <5>5. QED
          BY <5>1, <5>2, <5>3, <5>4 DEF l
      <4>2. next'[b] = kids[n + 1]
        BY <2>1, <2>2, <2>3, <2>10, <2>13, <4>1
      <4>3. rkeys[n] = Last(hi) /\ rkeys[n] < keys'[kids[n + 1]][1]
        BY <2>4, <2>11, <2>13, <4>1
      <4>4. QED
        BY <2>10, <4>1, <4>2, <4>3
    <3>4. CASE i > n + 1
      <4> DEFINE j == i - 1
      <4>1. /\ j \in 1 .. m /\ j # n /\ j + 1 \in 1 .. m + 1 /\ j + 1 # n
            /\ kids'[i] = kids[j] /\ kids'[i + 1] = kids[j + 1] /\ rkeys'[i] = rkeys[j]
        BY <2>1, <2>6, <2>9, <3>4
      <4> HIDE DEF j
      <4>2. j \in 1 .. m + 1
        BY <2>1, <4>1
      <4>3. keys'[kids[j]] = keys[kids[j]] /\ next'[kids[j]] = next[kids[j]]
        BY <2>11, <4>1, <4>2
      <4>4. keys'[kids[j + 1]] = keys[kids[j + 1]]
        BY <2>11, <4>1
      <4>5. next[kids[j]] = kids[j + 1] /\ rkeys[j] = Last(keys[kids[j]]) /\ rkeys[j] < keys[kids[j + 1]][1]
        BY <2>13, <4>1
      <4>6. QED
        BY <4>1, <4>3, <4>4, <4>5
    <3>5. QED
      BY <2>1, <3>1, <3>2, <3>3, <3>4
  <2>16. head' = kids'[1]
    BY <2>1, <2>5, <2>6 DEF Below
  <2>17. tail' = kids'[m + 2] /\ next'[tail'] = NoBin
    <3>1. tail = kids[m + 1] /\ next[tail] = NoBin
      BY <2>1 DEF Below
    <3>2. CASE n = m + 1
      <4>1. tail' = b /\ kids'[m + 2] = b
        BY <2>1, <2>2, <2>5, <2>6, <3>1, <3>2
      <4>2. QED
        BY <2>1, <2>2, <2>3, <2>10, <3>1, <3>2, <4>1
    <3>3. CASE n # m + 1
      <4>1. n \in 1 .. m /\ n + 1 \in 1 .. m + 1 /\ m + 1 # n /\ kids'[m + 2] = kids[m + 1]
        <5>1. n \in 1 .. m /\ n + 1 \in 1 .. m + 1 /\ m + 1 # n
          BY <2>1, <3>3
        <5> DEFINE l == m + 2
        <5>2. l \in 1 .. m + 2 /\ ~(l < n + 1) /\ l # n + 1 /\ l - 1 = m + 1
          BY <2>1, <5>1
        <5> HIDE DEF l
        <5>3. kids'[l] = kids[l - 1]
          BY <2>6, <5>2
        <5>4. QED
          BY <5>1, <5>2, <5>3 DEF l
      <4>2. next[b] = kids[n + 1] /\ next[b] # NoBin
        BY <2>1, <2>2, <2>3, <2>13, <4>1
      <4>3. QED
        BY <2>1, <2>5, <2>11, <3>1, <4>1, <4>2
    <3>4. QED
      BY <3>2, <3>3
  <2>18. IsInjective(kids')
    <3>1. ASSUME NEW i \in 1 .. m + 2, NEW j \in 1 .. m + 2, i < j PROVE kids'[i] # kids'[j]
      <4>1. kids'[i] = IF i < n + 1 THEN kids[i] ELSE IF i = n + 1 THEN b ELSE kids[i - 1]
        BY <2>6
      <4>2. kids'[j] = IF j < n + 1 THEN kids[j] ELSE IF j = n + 1 THEN b ELSE kids[j - 1]
        BY <2>6
      <4>3. (i < n + 1 => i \in 1 .. m + 1) /\ (i > n + 1 => i - 1 \in 1 .. m + 1)
        BY <2>1
      <4>4. (j < n + 1 => j \in 1 .. m + 1) /\ (j > n + 1 => j - 1 \in 1 .. m + 1)
        BY <2>1
      <4>5. QED
        BY <2>1, <2>2, <3>1, <4>1, <4>2, <4>3, <4>4
    <3>2. \A i, j \in 1 .. m + 2 : i # j => kids'[i] # kids'[j]
      <4>1. \A i, j \in 1 .. m + 2 : i # j => i < j \/ j < i
        BY <2>1
      <4>2. QED
        BY <3>1, <4>1
    <3>3. QED
      BY <2>6, <3>2 DEF IsInjective
  <2>19. m + 1 <= RootMax
    BY <2>1, <2>2, BoundAssumption DEF BoundAssumption
  <2>20. QED
    BY <2>6, <2>9, <2>12, <2>14, <2>15, <2>16, <2>17, <2>18, <2>19 DEF Below
<1>3. QED
  BY <1>1, <1>2, StructureKept

-----------------------------------------------------------------------------
(* The invariant. *)

\* Below a root what an insert has checked still holds when it acts on it: the
\* others wait for the root.
LEMMA NothingStale ==
    ASSUME IInv, StructureInv, rooted, NEW t \in Thread
    PROVE  ~Stale(t)
<1>1. pc[t] # "raise"
  BY DEF IInv, RootInv, Alone
<1>2. CASE pc[t] = "borrow"
  <2>1. Len(keys[nb[t]]) < ChildMax
    BY <1>2 DEF StructureInv, AtSlot, AtRoot
  <2>2. QED
    BY <1>2, <2>1 DEF Stale, StillRoom
<1>3. CASE pc[t] = "split"
  <2>1. Len(rkeys) < RootMax
    BY <1>3 DEF StructureInv, AtSlot, AtRoot
  <2>2. Len(rkeys) # RootMax
    BY <2>1, BoundAssumption DEF BoundAssumption
  <2>3. QED
    BY <1>3, <2>2 DEF Stale
<1>4. QED
  BY <1>1, <1>2, <1>3 DEF Stale

LEMMA OverrunHasNoRoot ==
    ASSUME IInv, StructureInv, NEW t \in Thread, RootStep(t), Overrun(t)
    PROVE  StructureInv'
<1>1. ~rooted
  BY NothingStale DEF Overrun
<1>2. QED
  BY <1>1 DEF StructureInv, RootStep

LEMMA NextStructure ==
    ASSUME IInv, StructureInv, [Next]_vars
    PROVE  StructureInv'
<1>1. ASSUME NEW t \in Thread, Call(t) \/ Step(t) PROVE StructureInv'
  <2>1. Keeps(t) /\ RootStep(t)
    BY <1>1, AnyStep
  <2>2. QED
    BY <1>1, <2>1, QuietSteps, AloneSteps, LockRootFinds, LockChildWaits, ChooseLeftKnows, LockLeftWaits,
       PutInChildFits, BorrowFits, NewChildFits, SplitFits, OverrunHasNoRoot, LookAgainIs
       DEF Step
<1>2. CASE UNCHANGED vars
  <2>1. UNCHANGED <<keys, next, head, tail, rkeys, kids, pc, call, child, nb, slot, rooted>>
    BY <1>2 DEF vars, shared, bins, root, local, history
  <2>2. \A t \in Thread : Lower(rkeys, key(t))' = Lower(rkeys, key(t)) /\ key(t)' = key(t)
    BY <2>1 DEF key
  <2>3. \A t \in Thread : AtSlot(t) => AtSlot(t)'
    BY <2>1, <2>2 DEF AtSlot, In, Mid
  <2>4. QED
    BY <2>1, <2>3 DEF StructureInv, Below
<1>3. QED
  BY <1>1, <1>2 DEF Next

\* Keys that ascend from each array to the next ascend over all of them.
LEMMA StartAscends ==
    ASSUME NEW start \in Starts, Len(start) > 1
    PROVE  \A i, j \in 1 .. Len(start) : i < j => Last(start[i]) < start[j][1]
<1> DEFINE n == Len(start)
<1>1. /\ start \in Seq(Seq(Key)) /\ n \in Nat
      /\ \A i \in 1 .. n : start[i] \in Seq(Key) /\ start[i] # <<>> /\ Ascending(start[i])
      /\ \A i \in 1 .. n - 1 : Last(start[i]) < start[i + 1][1]
  BY StartAssumption DEF StartAssumption
<1>2. \A i \in 1 .. n : start[i][1] \in Int /\ Last(start[i]) \in Int /\ start[i][1] <= Last(start[i])
  <2> SUFFICES ASSUME NEW i \in 1 .. n
               PROVE  start[i][1] \in Int /\ Last(start[i]) \in Int /\ start[i][1] <= Last(start[i])
    OBVIOUS
  <2>1. start[i] \in Seq(Key) /\ start[i] # <<>> /\ Ascending(start[i])
    BY <1>1
  <2> DEFINE s == start[i]
  <2> HIDE DEF s
  <2>2. s[1] \in Int /\ Last(s) \in Int /\ 1 \in 1 .. Len(s) /\ s[1] <= Last(s)
    BY <2>1, Ends DEF s
  <2>3. QED
    BY <2>2 DEF s
<1> HIDE DEF n
<1> SUFFICES ASSUME NEW i \in 1 .. n PROVE \A j \in 1 .. n : i < j => Last(start[i]) < start[j][1]
  BY DEF n
<1> DEFINE S == {j \in 1 .. n : i < j => Last(start[i]) < start[j][1]}
<1>3. ASSUME NEW j \in 1 .. n, \A x \in 1 .. j - 1 : x \in S PROVE j \in S
  <2> SUFFICES ASSUME i < j PROVE Last(start[i]) < start[j][1]
    OBVIOUS
  <2> DEFINE x == j - 1
  <2>1. x \in 1 .. n /\ x \in 1 .. j - 1 /\ x \in 1 .. n - 1 /\ x + 1 = j /\ (i = x \/ i < x)
    BY <1>1
  <2> HIDE DEF x
  <2>2. Last(start[x]) < start[j][1]
    BY <1>1, <2>1
  <2>3. i < x => Last(start[i]) < start[x][1]
    BY <1>3, <2>1
  <2>4. QED
    BY <1>2, <2>1, <2>2, <2>3
<1>4. S = 1 .. n
  <2> HIDE DEF S
  <2>1. S \in SUBSET (1 .. n)
    BY DEF S
  <2>2. QED
    BY <1>1, <1>3, <2>1, OneByOne
<1>5. QED
  BY <1>4

LEMMA InitStructure ==
    ASSUME Init
    PROVE  StructureInv
<1> SUFFICES ASSUME rooted PROVE Below
  BY DEF StructureInv, Init, AtRoot
<1>1. PICK start \in Starts, place \in [1 .. Cardinality(Bin) -> Bin] :
        LET n == Len(start)
            At(b) == {i \in 1 .. n : place[i] = b}
        IN
        /\ IsInjective(place)
        /\ keys = [b \in Bin |-> IF At(b) = {} THEN <<>> ELSE start[CHOOSE i \in At(b) : TRUE]]
        /\ next = [b \in Bin |-> IF \E i \in At(b) : i < n
                                 THEN place[1 + CHOOSE i \in At(b) : TRUE] ELSE NoBin]
        /\ head = IF n = 0 THEN NoBin ELSE place[1]
        /\ tail = IF n = 0 THEN NoBin ELSE place[n]
        /\ rkeys = IF n < 2 THEN <<>> ELSE [i \in 1 .. n - 1 |-> Last(start[i])]
        /\ kids = IF n < 2 THEN <<>> ELSE [i \in 1 .. n |-> place[i]]
        /\ rooted = (n > 1)
  BY DEF Init
<1> DEFINE n == Len(start)
           At(b) == {i \in 1 .. n : place[i] = b}
<1>2. n > 1
  <2>1. rooted = (n > 1)
    BY <1>1
  <2> HIDE DEF n
  <2>2. QED
    BY <2>1, Zenon
<1>3. /\ start \in Seq(Seq(Key)) /\ n \in Nat /\ n <= Cardinality(Bin) /\ n <= RootMax + 1
      /\ \A i \in 1 .. n : start[i] \in Seq(Key) /\ Len(start[i]) <= ChildMax
      /\ \A i \in 1 .. n : start[i] # <<>> /\ Ascending(start[i])
  BY <1>2, StartAssumption DEF StartAssumption
<1>4. Cardinality(Bin) \in Nat
  BY NameAssumption, FS_CardinalityType DEF NameAssumption
<1>5. /\ \A i \in 1 .. n : place[i] \in Bin
      /\ \A i, j \in 1 .. n : place[i] = place[j] => i = j
  <2>1. 1 .. n \subseteq 1 .. Cardinality(Bin)
    BY <1>3, <1>4
  <2>2. QED
    BY <1>1, <2>1 DEF IsInjective
<1>6. \A i, j \in 1 .. n : i < j => Last(start[i]) < start[j][1]
  BY <1>2, StartAscends
<1>7. /\ keys = [b \in Bin |-> IF At(b) = {} THEN <<>> ELSE start[CHOOSE i \in At(b) : TRUE]]
      /\ next = [b \in Bin |-> IF \E i \in At(b) : i < n
                               THEN place[1 + CHOOSE i \in At(b) : TRUE] ELSE NoBin]
      /\ head = place[1] /\ tail = place[n]
      /\ rkeys = [i \in 1 .. n - 1 |-> Last(start[i])] /\ kids = [i \in 1 .. n |-> place[i]]
  <2>1. ~(n = 0) /\ ~(n < 2)
    BY <1>2, <1>3
  <2>2. QED
    BY <1>1, <2>1
<1> HIDE DEF n
<1>8. ASSUME NEW i \in 1 .. n
      PROVE  /\ keys[place[i]] = start[i]
             /\ next[place[i]] = IF i < n THEN place[i + 1] ELSE NoBin
  <2>1. At(place[i]) = {i} /\ place[i] \in Bin
    BY <1>5
  <2>2. (CHOOSE x \in {i} : TRUE) = i
    OBVIOUS
  <2> HIDE DEF At
  <2>3. QED
    BY <1>7, <2>1, <2>2
<1>9. ASSUME NEW b \in Bin PROVE Len(keys[b]) <= ChildMax
  <2>1. CASE At(b) = {}
    <3>1. keys[b] = <<>>
      BY <1>7, <2>1
    <3>2. QED
      BY <3>1, BoundAssumption DEF BoundAssumption
  <2>2. CASE At(b) # {}
    <3>1. PICK i \in 1 .. n : place[i] = b
      BY <2>2
    <3>2. QED
      BY <1>3, <1>8, <3>1
  <2>3. QED
    BY <2>1, <2>2
<1>10. /\ Len(kids) = n /\ Len(rkeys) = n - 1 /\ n - 1 \in Nat
       /\ \A i \in 1 .. n : kids[i] = place[i]
       /\ \A i \in 1 .. n - 1 : rkeys[i] = Last(start[i])
       /\ DOMAIN kids = 1 .. n /\ DOMAIN rkeys = 1 .. n - 1
  BY <1>2, <1>3, <1>7
<1>11. Ascending(rkeys)
  <2> SUFFICES ASSUME NEW i \in 1 .. n - 1, NEW j \in 1 .. n - 1, i < j PROVE rkeys[i] < rkeys[j]
    BY <1>10 DEF Ascending
  <2>1. i \in 1 .. n /\ j \in 1 .. n /\ rkeys[i] = Last(start[i]) /\ rkeys[j] = Last(start[j])
    BY <1>10
  <2>2. start[i] \in Seq(Key) /\ start[i] # <<>> /\ Ascending(start[i])
    BY <1>3, <2>1
  <2>3. start[j] \in Seq(Key) /\ start[j] # <<>> /\ Ascending(start[j])
    BY <1>3, <2>1
  <2> DEFINE a == start[i]
             b == start[j]
  <2> HIDE DEF a, b
  <2>4. Last(a) \in Int
    BY <2>2, Ends DEF a
  <2>5. b[1] \in Int /\ Last(b) \in Int /\ Len(b) \in 1 .. Len(b) /\ b[1] <= Last(b)
    BY <2>3, Ends DEF b
  <2>6. Last(a) < b[1]
    BY <1>6, <2>1 DEF a, b
  <2>7. QED
    BY <2>1, <2>4, <2>5, <2>6 DEF a, b
<1>12. head = kids[1] /\ tail = kids[n] /\ next[tail] = NoBin
  <2>1. 1 \in 1 .. n /\ n \in 1 .. n /\ ~(n < n)
    BY <1>2, <1>3
  <2>2. QED
    BY ZenonT(60), <1>7, <1>8, <1>10, <2>1
<1>13. ASSUME NEW i \in 1 .. n - 1
       PROVE  /\ next[kids[i]] = kids[i + 1]
              /\ rkeys[i] = Last(keys[kids[i]]) /\ rkeys[i] < keys[kids[i + 1]][1]
  <2>1. i \in 1 .. n /\ i + 1 \in 1 .. n /\ i < n /\ i < i + 1
    BY <1>3
  <2>2. QED
    BY <1>6, <1>8, <1>10, <2>1
<1>14. \A i \in 1 .. n : keys[kids[i]] # <<>> /\ Ascending(keys[kids[i]])
  BY <1>3, <1>8, <1>10
<1>15. IsInjective(kids) /\ n - 1 <= RootMax
  <2>1. IsInjective(kids)
    BY <1>5, <1>10 DEF IsInjective
  <2>2. RootMax \in Nat
    BY BoundAssumption DEF BoundAssumption
  <2>3. QED
    BY <1>3, <2>1, <2>2
<1>16. QED
  BY <1>9, <1>10, <1>11, <1>12, <1>13, <1>14, <1>15 DEF Below

\* The invariant holds in every state of every run.
THEOREM StructureInvariance == Spec => []StructureInv
<1>1. Init => StructureInv
  BY InitStructure
<1>2. IInv /\ StructureInv /\ [Next]_vars => StructureInv'
  BY NextStructure
<1>3. QED
  BY <1>1, <1>2, Invariance, PTL DEF Spec

\* No other step leads there.
LEMMA OnlyOverrun ==
    ASSUME IInv, NEW t \in Thread, Call(t) \/ Step(t), ~Stale(t), pc[t] # "overrun"
    PROVE  pc'[t] # "overrun"
<1>1. pc \in [Thread -> Labels]
  BY DEF IInv, TypeOK
<1>2. CASE Call(t) \/ Return(t) \/ Unlock(t) \/ FindStart(t) \/ ReadRootVersion(t) \/ ReadRootSlot(t)
           \/ CheckRoot(t) \/ ReadChild(t) \/ ReadChildVersion(t) \/ ReadKeys(t) \/ CheckChild(t)
  BY <1>1, <1>2
     DEF Call, Return, Unlock, FindStart, ReadRootVersion, ReadRootSlot, CheckRoot, ReadChild,
         ReadChildVersion, ReadKeys, CheckChild, Finish, GoTo
<1>3. CASE Hop(t) \/ InsertStart(t) \/ LockRoot(t) \/ LockChild(t) \/ Duplicate(t) \/ PutInChild(t)
           \/ ChooseLeft(t) \/ LockLeft(t) \/ Borrow(t) \/ NeedRetrain(t) \/ NewChild(t) \/ Split(t)
  BY <1>1, <1>3
     DEF Hop, InsertStart, LockRoot, LockChild, Duplicate, PutInChild, ChooseLeft, LockLeft, Borrow,
         NeedRetrain, NewChild, Split, Finish, Release, GoTo
<1>4. CASE NewHead(t) \/ PublishHead(t) \/ ReadVersion(t) \/ CheckVersion(t) \/ PutAlone(t)
           \/ SkipSeparator(t) \/ WantSeparator(t) \/ SetSeparator(t) \/ GiveUp(t) \/ GiveBack(t)
           \/ SeeNoRoot(t) \/ StoreRoot(t) \/ SplitAlone(t)
  BY <1>1, <1>4
     DEF NewHead, PublishHead, ReadVersion, CheckVersion, PutAlone, SkipSeparator, WantSeparator,
         SetSeparator, GiveUp, GiveBack, SeeNoRoot, StoreRoot, SplitAlone, Finish, Release, GoTo
<1>5. ~Overrun(t)
  BY DEF Overrun
<1>6. QED
  BY <1>2, <1>3, <1>4, <1>5, LookAgainIs DEF Step

NoOverrun == rooted => Defined

LEMMA NextDefined ==
    ASSUME IInv, StructureInv, NoOverrun, [Next]_vars
    PROVE  NoOverrun'
<1>1. ASSUME NEW t \in Thread, Call(t) \/ Step(t), rooted' PROVE Defined'
  <2>1. rooted /\ Keeps(t)
    BY <1>1, AnyStep DEF RootStep
  <2>2. pc'[t] # "overrun"
    BY <1>1, <2>1, NothingStale, OnlyOverrun DEF NoOverrun, Defined
  <2>3. QED
    BY <2>1, <2>2 DEF Keeps, OthersStay, NoOverrun, Defined
<1>2. CASE UNCHANGED vars
  <2>1. UNCHANGED <<pc, rooted>>
    BY <1>2 DEF vars, history
  <2>2. QED
    BY <2>1 DEF NoOverrun, Defined
<1>3. QED
  BY <1>1, <1>2 DEF Next, NoOverrun

\* Root, arrays and chain of a bin that starts with a root are one ascending
\* sequence after every step of every insert, whatever the capacities and the
\* number of threads: the separators of self_check (lines 366-391) are right, no
\* array holds more than it has room for or is written behind its end though the
\* room is looked at before the lock is taken (line 753), and find_lower leads to
\* the only array a key can be in.  With a root and without, nothing leads to an
\* array that was given back (FreedIsGone).
THEOREM BinKeepsItsStructure == Spec => []Structure
<1>0. Spec => []NoOverrun
  <2>1. Init => NoOverrun
    BY DEF Init, NoOverrun, Defined
  <2>2. IInv /\ StructureInv /\ NoOverrun /\ [Next]_vars => NoOverrun'
    BY NextDefined
  <2>3. QED
    BY <2>1, <2>2, Invariance, StructureInvariance, PTL DEF Spec
<1>1. IInv /\ StructureInv /\ NoOverrun /\ NothingDangles => Structure
  <2> SUFFICES ASSUME IInv, StructureInv, NoOverrun, NothingDangles PROVE Structure
    OBVIOUS
  <2>1. CASE rooted
    <3>1. Below /\ TypeOK /\ HasRoot /\ Defined
      BY <2>1 DEF StructureInv, IInv, RootInv, NoOverrun
    <3>2. /\ kids \in Seq(live) /\ rkeys \in Seq(Key) /\ Len(kids) = Len(rkeys) + 1
          /\ DOMAIN kids = 1 .. Len(kids) /\ DOMAIN rkeys = 1 .. Len(rkeys)
      BY <3>1 DEF TypeOK
    <3>3. Last(kids) = kids[Len(kids)]
      BY DEF Last
    <3>4. QED
      BY <3>1, <3>2, <3>3 DEF Below, Structure
  <2>2. CASE ~rooted
    BY <2>2 DEF IInv, Structure
  <2>3. QED
    BY <2>1, <2>2
<1>2. QED
  BY <1>0, <1>1, Invariance, StructureInvariance, FreedIsGone, PTL

-----------------------------------------------------------------------------
(* Answers. *)

\* A key that an array below the root holds.
Held(k) == \E i \in 1 .. Len(kids) : In(kids[i], k)

\* An array the key is in or to the right of.
Right(b, k) == \E i \in 1 .. Len(kids) : b = kids[i] /\ (i > 1 => rkeys[i - 1] < k)

\* The labels of a find, and those after its check of the root.
FindLabels == {"find", "rver", "rslot", "rcheck", "rchild", "cver", "ckeys", "ccheck", "renew", "hop"}
AtArray    == {"ckeys", "ccheck", "renew", "hop"}

OpOf(t) ==
    /\ pc[t] \in FindLabels => call[t].op = "find"
    /\ pc[t] \notin FindLabels \cup {"idle", "return"} => call[t].op = "insert"

\* A true find and an insert's ok, or failed, tell of a key that is there.
AnswerKnown(t) ==
    /\ pc[t] = "idle" => res[t] = "none"
    /\ res[t] = "ok" \/ (call[t].op # "find" /\ res[t] = "failed") => Held(key(t))

AtKid(t) == pc[t] \in {"cver"} \cup AtArray => \E i \in 1 .. Len(kids) : child[t] = kids[i]

\* What a find knows that was called with its key stored, while nothing has
\* moved behind its back.  A version tells whether what was read still holds.
FindKnows(t) ==
    /\ Held(key(t))
    /\ pc[t] \in {"rslot", "rcheck"} => known[t] <= ver[Root]
    /\ pc[t] = "rcheck" /\ known[t] = ver[Root] => slot[t] = Lower(rkeys, key(t))
    /\ pc[t] = "rchild" => slot[t] = Lower(rkeys, key(t))
    /\ pc[t] = "cver" => In(child[t], key(t))
    /\ pc[t] \in AtArray => Right(child[t], key(t))
    /\ pc[t] \in {"ckeys", "ccheck", "hop"} => known[t] <= ver[child[t]]
    /\ pc[t] = "ckeys" /\ known[t] = ver[child[t]] => In(child[t], key(t))
    /\ pc[t] = "ccheck" /\ known[t] = ver[child[t]] => res[t] = "ok"
    /\ pc[t] = "return" => res[t] = "ok"

Finding(t) == call[t].op = "find" /\ pc[t] # "idle" /\ before[t] /\ ~moved[t]
Answers(t) == OpOf(t) /\ AnswerKnown(t) /\ AtKid(t) /\ (Finding(t) => FindKnows(t))
AnswersInv == rooted => \A t \in Thread : Answers(t)

-----------------------------------------------------------------------------
(* What is stored, and where. *)

LEMMA InIs ==
    ASSUME NEW b, NEW k
    PROVE  In(b, k) <=> k \in ToSet(keys[b])
  BY DEF In, ToSet

\* Below a root, as a list: the facts every proof about positions starts from.
LEMMA BelowIs ==
    ASSUME IInv, Below, HasRoot
    PROVE  /\ rkeys \in Seq(Key) /\ kids \in Seq(live) /\ Len(rkeys) \in Nat /\ Len(kids) = Len(rkeys) + 1
           /\ Ascending(rkeys) /\ Key \subseteq Int
           /\ \A i \in 1 .. Len(kids) :
                /\ kids[i] \in Bin /\ kids[i] \in live /\ keys[kids[i]] \in Seq(Key)
                /\ keys[kids[i]] # <<>> /\ Ascending(keys[kids[i]])
           /\ \A i, j \in 1 .. Len(kids) : kids[i] = kids[j] => i = j
           /\ \A i \in 1 .. Len(rkeys) :
                /\ i \in 1 .. Len(kids) /\ i + 1 \in 1 .. Len(kids)
                /\ next[kids[i]] = kids[i + 1]
                /\ rkeys[i] = Last(keys[kids[i]]) /\ rkeys[i] < keys[kids[i + 1]][1]
                /\ rkeys[i] \in Int
<1>1. rkeys \in Seq(Key) /\ kids \in Seq(live) /\ Len(rkeys) \in Nat /\ Len(kids) = Len(rkeys) + 1
  BY DEF IInv, TypeOK
<1>2. Key \subseteq Int
  BY KeyAssumption DEF KeyAssumption
<1>3. \A i \in 1 .. Len(kids) : kids[i] \in Bin /\ kids[i] \in live /\ keys[kids[i]] \in Seq(Key)
  BY KidKeys, KidsAre
<1>4. \A i, j \in 1 .. Len(kids) : kids[i] = kids[j] => i = j
  <2>1. DOMAIN kids = 1 .. Len(kids) /\ IsInjective(kids)
    BY <1>1 DEF Below
  <2>2. QED
    BY <2>1 DEF IsInjective
<1>5. \A i \in 1 .. Len(rkeys) : i \in 1 .. Len(kids) /\ i + 1 \in 1 .. Len(kids) /\ rkeys[i] \in Int
  <2>1. \A i \in 1 .. Len(rkeys) : i \in 1 .. Len(kids) /\ i + 1 \in 1 .. Len(kids)
    BY <1>1
  <2>2. \A i \in 1 .. Len(rkeys) : rkeys[i] \in Key
    BY <1>1
  <2>3. QED
    BY <1>2, <2>1, <2>2
<1>6. QED
  BY <1>1, <1>2, <1>3, <1>4, <1>5 DEF Below

\* A key is in one array only, and find_lower says which.
LEMMA WhereItIs ==
    ASSUME IInv, Below, HasRoot, NEW i \in 1 .. Len(kids), NEW k \in Key, In(kids[i], k)
    PROVE  i = Lower(rkeys, k)
<1> DEFINE a == keys[kids[i]]
           m == Len(rkeys)
<1>1. m \in Nat /\ i \in 1 .. m + 1 /\ k \in Int
  BY BelowIs
<1>2. a \in Seq(Key) /\ a # <<>> /\ Ascending(a) /\ \E x \in 1 .. Len(a) : a[x] = k
  BY BelowIs DEF In
<1>3. /\ Lower(rkeys, k) \in 1 .. m + 1
      /\ \A x \in 1 .. m : rkeys[x] < k <=> x < Lower(rkeys, k)
  BY BelowIs, LowerIs
<1>4. a[1] <= k /\ k <= Last(a) /\ a[1] \in Int /\ Last(a) \in Int
  BY <1>2, Ends
<1>5. ASSUME i > 1 PROVE i - 1 < Lower(rkeys, k)
  <2>1. i - 1 \in 1 .. m /\ i - 1 + 1 = i
    BY <1>1, <1>5
  <2>2. rkeys[i - 1] < a[1] /\ rkeys[i - 1] \in Int
    BY <2>1, BelowIs
  <2>3. rkeys[i - 1] < k
    BY <1>1, <1>4, <2>2
  <2>4. QED
    BY <1>3, <2>1, <2>3
<1>6. ASSUME i <= m PROVE ~(i < Lower(rkeys, k))
  <2>1. i \in 1 .. m
    BY <1>1, <1>6
  <2>2. rkeys[i] = Last(a)
    BY <2>1, BelowIs
  <2>3. ~(rkeys[i] < k)
    BY <1>1, <1>4, <2>2
  <2>4. QED
    BY <1>3, <2>1, <2>3
<1> HIDE DEF m
<1>7. QED
  BY <1>1, <1>3, <1>5, <1>6

\* So a search for a stored key is sent to the array that holds it.
LEMMA LowerLeads ==
    ASSUME IInv, Below, HasRoot, NEW k \in Key, Held(k)
    PROVE  Lower(rkeys, k) \in 1 .. Len(kids) /\ In(kids[Lower(rkeys, k)], k)
<1>1. PICK i \in 1 .. Len(kids) : In(kids[i], k)
  BY DEF Held
<1>2. i = Lower(rkeys, k)
  BY <1>1, WhereItIs
<1>3. QED
  BY <1>1, <1>2

\* An array that holds the key is not to the right of it.
LEMMA InIsRight ==
    ASSUME IInv, Below, HasRoot, NEW b, NEW k \in Key, In(b, k), \E i \in 1 .. Len(kids) : b = kids[i]
    PROVE  Right(b, k)
<1>1. PICK i \in 1 .. Len(kids) : b = kids[i]
  OBVIOUS
<1>2. i = Lower(rkeys, k)
  BY <1>1, WhereItIs
<1>3. /\ Len(rkeys) \in Nat /\ Len(kids) = Len(rkeys) + 1
      /\ \A x \in 1 .. Len(rkeys) : rkeys[x] < k <=> x < Lower(rkeys, k)
  BY BelowIs, LowerIs
<1>4. i > 1 => i - 1 \in 1 .. Len(rkeys) /\ i - 1 < Lower(rkeys, k)
  BY <1>2, <1>3
<1>5. i > 1 => rkeys[i - 1] < k
  BY <1>3, <1>4
<1>6. QED
  BY <1>1, <1>5 DEF Right

-----------------------------------------------------------------------------
(* The chain from head is the children of the root, so Stored is what they hold. *)

\* There are no more children than arrays.
LEMMA FewKids ==
    ASSUME IInv, Below, HasRoot
    PROVE  Len(kids) <= Cardinality(Bin) /\ Cardinality(Bin) \in Nat
<1>1. Len(kids) \in Nat /\ DOMAIN kids = 1 .. Len(kids)
  BY BelowIs
<1>2. kids \in Injection(1 .. Len(kids), Bin)
  <2>1. kids \in [1 .. Len(kids) -> Bin]
    BY BelowIs, <1>1
  <2>2. \A i, j \in 1 .. Len(kids) : kids[i] = kids[j] => i = j
    BY BelowIs
  <2>3. QED
    BY <2>1, <2>2 DEF Injection, IsInjective
<1>3. IsFiniteSet(Bin) /\ Cardinality(Bin) \in Nat
  BY NameAssumption, FS_CardinalityType DEF NameAssumption
<1>4. Cardinality(1 .. Len(kids)) <= Cardinality(Bin)
  BY <1>2, <1>3, FS_Injection
<1>5. Cardinality(1 .. Len(kids)) = Len(kids)
  <2>1. Len(kids) \in Int /\ 1 \in Int
    BY <1>1
  <2>2. Cardinality(1 .. Len(kids)) = IF 1 > Len(kids) THEN 0 ELSE Len(kids) - 1 + 1
    BY <2>1, FS_Interval
  <2>3. QED
    BY <1>1, <2>2
<1>6. QED
  BY <1>3, <1>4, <1>5

\* One step further along the chain: the next child, if there is one.
LEMMA OneFurther ==
    ASSUME IInv, Below, HasRoot, NEW n \in Nat \ {0}
    PROVE  LET First(x) == {kids[i] : i \in {j \in 1 .. Len(kids) : j <= x + 1}}
           IN  First(n) = First(n - 1) \cup ({next[b] : b \in First(n - 1)} \cap Bin)
<1> DEFINE First(x) == {kids[i] : i \in {j \in 1 .. Len(kids) : j <= x + 1}}
           m == Len(rkeys)
<1>1. m \in Nat /\ Len(kids) = m + 1 /\ \A i \in 1 .. m + 1 : kids[i] \in Bin
  BY BelowIs
<1>2. \A i \in 1 .. m : next[kids[i]] = kids[i + 1]
  BY BelowIs
<1>3. next[kids[m + 1]] = NoBin /\ NoBin \notin Bin
  BY <1>1, NameAssumption DEF Below, NameAssumption
<1> HIDE DEF m
<1>4. \A b : b \in First(n) <=> \E i \in 1 .. m + 1 : i <= n + 1 /\ b = kids[i]
  BY <1>1
<1>5. \A b : b \in First(n - 1) <=> \E i \in 1 .. m + 1 : i <= n /\ b = kids[i]
  BY <1>1
<1> HIDE DEF First
<1>6. ASSUME NEW b \in First(n) PROVE b \in First(n - 1) \cup ({next[a] : a \in First(n - 1)} \cap Bin)
  <2>1. PICK i \in 1 .. m + 1 : i <= n + 1 /\ b = kids[i]
    BY <1>4
  <2>2. CASE i <= n
    BY <1>5, <2>1, <2>2
  <2>3. CASE ~(i <= n)
    <3>1. i = n + 1 /\ n \in 1 .. m /\ n \in 1 .. m + 1 /\ n <= n
      BY <1>1, <2>1, <2>3
    <3>2. kids[n] \in First(n - 1) /\ next[kids[n]] = b /\ b \in Bin
      BY <1>1, <1>2, <1>5, <2>1, <3>1
    <3>3. QED
      BY <3>2
  <2>4. QED
    BY <2>2, <2>3
<1>7. First(n - 1) \subseteq First(n)
  <2>1. \A i \in 1 .. m + 1 : i <= n => i <= n + 1
    BY <1>1
  <2>2. QED
    BY <1>4, <1>5, <2>1
<1>8. ASSUME NEW a \in First(n - 1), next[a] \in Bin PROVE next[a] \in First(n)
  <2>1. PICK i \in 1 .. m + 1 : i <= n /\ a = kids[i]
    BY <1>5
  <2>2. i # m + 1
    BY <1>3, <1>8, <2>1
  <2>3. i \in 1 .. m /\ i + 1 \in 1 .. m + 1 /\ i + 1 <= n + 1
    BY <1>1, <2>1, <2>2
  <2>4. next[a] = kids[i + 1]
    BY <1>2, <2>1, <2>3
  <2>5. QED
    BY <1>4, <2>3, <2>4
<1>9. First(n) = First(n - 1) \cup ({next[b] : b \in First(n - 1)} \cap Bin)
  BY <1>6, <1>7, <1>8
<1>10. QED
  BY <1>9 DEF First

\* The recursive function Reach is the function of the first children.
LEMMA ReachIs ==
    ASSUME IInv, Below, HasRoot
    PROVE  Chain = {kids[i] : i \in 1 .. Len(kids)}
<1> DEFINE c == Cardinality(Bin)
           First(x) == {kids[i] : i \in {j \in 1 .. Len(kids) : j <= x + 1}}
           Next1(f) == [n \in 0 .. c |->
                            IF n = 0 THEN {head} \cap Bin
                            ELSE f[n - 1] \cup ({next[b] : b \in f[n - 1]} \cap Bin)]
           g == [n \in 0 .. c |-> First(n)]
<1>1. c \in Nat /\ Len(kids) <= c
  BY FewKids
<1>2. Len(kids) \in Nat \ {0} /\ kids[1] \in Bin /\ head = kids[1]
  <2>1. Len(kids) \in Nat \ {0}
    BY BelowIs
  <2>2. 1 \in 1 .. Len(kids)
    BY <2>1
  <2>3. QED
    BY <2>1, <2>2, BelowIs DEF Below
<1>3. First(0) = {head} \cap Bin
  <2>1. {j \in 1 .. Len(kids) : j <= 0 + 1} = {1}
    BY <1>2
  <2>2. QED
    BY <1>2, <2>1
<1>4. ASSUME NEW n \in Nat \ {0} PROVE First(n) = First(n - 1) \cup ({next[b] : b \in First(n - 1)} \cap Bin)
  BY OneFurther
<1>5. First(c) = {kids[i] : i \in 1 .. Len(kids)}
  <2>1. {j \in 1 .. Len(kids) : j <= c + 1} = 1 .. Len(kids)
    BY <1>1, <1>2
  <2>2. QED
    BY <2>1
<1>6. Reach = CHOOSE f : f = Next1(f)
  BY DEF Reach
<1> HIDE DEF c, First
<1>7. g = Next1(g)
  <2>1. ASSUME NEW n \in 0 .. c, n # 0 PROVE n - 1 \in 0 .. c /\ n \in Nat \ {0}
    BY <1>1, <2>1
  <2>2. \A n \in 0 .. c : g[n] = First(n)
    OBVIOUS
  <2>3. ASSUME NEW n \in 0 .. c PROVE g[n] = Next1(g)[n]
    <3>1. CASE n = 0
      BY <1>3, <3>1
    <3>2. CASE n # 0
      BY <1>4, <2>1, <2>2, <3>2
    <3>3. QED
      BY <3>1, <3>2
  <2> HIDE DEF First
  <2>4. g = [n \in 0 .. c |-> g[n]] /\ Next1(g) = [n \in 0 .. c |-> Next1(g)[n]]
    OBVIOUS
  <2>5. QED
    BY <2>3
<1> HIDE DEF g
<1>8. Reach = Next1(Reach)
  BY <1>6, <1>7
<1>9. /\ Reach[0] = {head} \cap Bin
      /\ \A n \in 1 .. c : Reach[n] = Reach[n - 1] \cup ({next[b] : b \in Reach[n - 1]} \cap Bin)
  <2>1. 0 \in 0 .. c /\ \A n \in 1 .. c : n \in 0 .. c /\ n # 0
    BY <1>1
  <2>2. \A n \in 0 .. c : Reach[n] = Next1(Reach)[n]
    BY <1>8
  <2>3. QED
    BY <2>1, <2>2
<1> DEFINE S == {n \in 1 .. c : Reach[n] = First(n)}
<1>10. S = 1 .. c
  <2>1. ASSUME NEW n \in 1 .. c, \A j \in 1 .. n - 1 : j \in S PROVE n \in S
    <3>1. n \in Nat \ {0} /\ (n = 1 \/ n - 1 \in 1 .. n - 1) /\ 1 - 1 = 0
      BY <1>1
    <3>2. Reach[n - 1] = First(n - 1)
      BY <1>3, <1>9, <2>1, <3>1
    <3>3. QED
      BY <1>4, <1>9, <3>1, <3>2
  <2>2. S \in SUBSET (1 .. c)
    OBVIOUS
  <2> HIDE DEF S
  <2>3. QED
    BY <1>1, <2>1, <2>2, OneByOne
<1>11. c \in 1 .. c
  BY <1>1, <1>2
<1>12. Reach[c] = First(c)
  BY <1>10, <1>11
<1>13. QED
  BY <1>5, <1>12 DEF Chain, c

LEMMA StoredIs ==
    ASSUME IInv, Below, HasRoot, NEW k
    PROVE  k \in Stored <=> Held(k)
<1>1. Stored = UNION {ToSet(keys[b]) : b \in {kids[i] : i \in 1 .. Len(kids)}}
  BY ReachIs DEF Stored
<1>2. k \in Stored <=> \E i \in 1 .. Len(kids) : k \in ToSet(keys[kids[i]])
  BY <1>1
<1>3. QED
  BY <1>2, InIs DEF Held

-----------------------------------------------------------------------------
(* What a step of one thread leaves of what another knows. *)

Effects(t) ==
    /\ \A k \in Key : Held(k) => Held(k)'
    /\ \A a \in Bin \cup {Root} : ver[a] <= ver'[a]
    /\ ver'[Root] = ver[Root] => UNCHANGED rkeys
    /\ \A b \in Bin : (\E i \in 1 .. Len(kids) : b = kids[i]) =>
        /\ \E i \in 1 .. Len(kids') : b = kids'[i]
        /\ ver'[b] = ver[b] => \A k \in Key : In(b, k) => In(b, k)'
    /\ \A s \in Thread \ {t} :
        /\ UNCHANGED <<before[s], known[s], res[s]>> /\ (moved[s] => moved'[s])
        /\ ~moved'[s] =>
            /\ pc[s] = "rchild" => UNCHANGED rkeys
            /\ pc[s] = "cver" =>
                \A b \in Bin, k \in Key :
                    b = child[s] /\ (\E i \in 1 .. Len(kids) : b = kids[i]) /\ In(b, k) => In(b, k)'
            /\ pc[s] \in AtArray => \A b \in Bin, k \in Key : Right(b, k) => Right(b, k)'

LEMMA OthersAnswer ==
    ASSUME IInv, TypeOK', NEW t \in Thread, Keeps(t), Effects(t), NEW s \in Thread \ {t}, Answers(s)
    PROVE  Answers(s)'
<1>1. /\ pc'[s] = pc[s] /\ call'[s] = call[s] /\ child'[s] = child[s] /\ slot'[s] = slot[s]
      /\ key(s)' = key(s)
  BY DEF Keeps, OthersStay, key
<1>2. /\ before'[s] = before[s] /\ known'[s] = known[s] /\ res'[s] = res[s] /\ (moved[s] => moved'[s])
      /\ known[s] \in Nat /\ moved[s] \in BOOLEAN
  BY DEF Effects, IInv, TypeOK
<1>3. pc[s] # "idle" => key(s) \in Key
  BY DEF IInv, ThreadOK
<1>4. pc[s] \in {"cver"} \cup AtArray => child[s] \in Bin
  BY DEF AtArray, IInv, TypeOK, ThreadOK, AtChild
<1>5. OpOf(s)'
  BY <1>1 DEF Answers, OpOf
<1>6. \A k \in Key : Held(k) => \E i \in 1 .. Len(kids') : \E j \in DOMAIN keys'[kids'[i]] : keys'[kids'[i]][j] = k
  BY DEF Effects, Held, In
<1>7. Held(key(s))' <=> \E i \in 1 .. Len(kids') : \E j \in DOMAIN keys'[kids'[i]] : keys'[kids'[i]][j] = key(s)
  BY <1>1 DEF Held, In
<1>8. pc[s] # "idle" /\ Held(key(s)) => Held(key(s))'
  BY <1>3, <1>6, <1>7
<1>9. AnswerKnown(s)'
  <2>1. pc[s] = "idle" => res[s] = "none"
    BY DEF Answers, AnswerKnown
  <2>2. res[s] = "ok" \/ (call[s].op # "find" /\ res[s] = "failed") => Held(key(s))
    BY DEF Answers, AnswerKnown
  <2>3. res'[s] = "ok" \/ (call'[s].op # "find" /\ res'[s] = "failed") => Held(key(s))'
    BY <1>1, <1>2, <1>8, <2>1, <2>2
  <2>4. QED
    BY <1>1, <1>2, <2>1, <2>3 DEF AnswerKnown
<1>10. AtKid(s)'
  <2>1. pc[s] \in {"cver"} \cup AtArray => \E i \in 1 .. Len(kids') : child[s] = kids'[i]
    BY <1>4 DEF Answers, AtKid, Effects
  <2>2. QED
    BY <1>1, <2>1 DEF AtKid
<1>11. ASSUME Finding(s)' PROVE FindKnows(s)'
  <2>1. Finding(s) /\ FindKnows(s) /\ ~moved'[s] /\ ~moved[s]
    BY <1>1, <1>2, <1>11 DEF Finding, Answers
  <2>2. key(s) \in Key /\ Held(key(s))'
    BY <1>3, <1>8, <2>1 DEF Finding, FindKnows
  <2>3. /\ ver[Root] <= ver'[Root] /\ ver[Root] \in Nat /\ ver'[Root] \in Nat
        /\ (ver'[Root] = ver[Root] => UNCHANGED rkeys)
    BY DEF Effects, IInv, TypeOK
  <2>4. rkeys' = rkeys => Lower(rkeys, key(s))' = Lower(rkeys, key(s))
    BY <1>1
  <2>5. pc[s] \in {"rslot", "rcheck"} => known[s] <= ver'[Root]
    BY <1>2, <2>1, <2>3 DEF FindKnows
  <2>6. pc[s] = "rcheck" /\ known[s] = ver'[Root] => slot[s] = Lower(rkeys, key(s))'
    BY <1>2, <2>1, <2>3, <2>4 DEF FindKnows
  <2>7. pc[s] = "rchild" => slot[s] = Lower(rkeys, key(s))'
    BY <2>1, <2>4 DEF FindKnows, Effects
  <2>8. pc[s] = "cver" => In(child[s], key(s))'
    <3> HAVE pc[s] = "cver"
    <3>1. /\ In(child[s], key(s)) /\ child[s] \in Bin
          /\ \E i \in 1 .. Len(kids) : child[s] = kids[i]
      BY <1>4, <2>1 DEF FindKnows, Answers, AtKid
    <3>2. \A b \in Bin, k \in Key :
            b = child[s] /\ (\E i \in 1 .. Len(kids) : b = kids[i]) /\ In(b, k) =>
                \E j \in DOMAIN keys'[b] : keys'[b][j] = k
      BY <2>1 DEF Effects, In
    <3>3. \E j \in DOMAIN keys'[child[s]] : keys'[child[s]][j] = key(s)
      BY <2>2, <3>1, <3>2
    <3>4. QED
      BY <1>1, <3>3 DEF In
  <2>9. pc[s] \in AtArray => Right(child[s], key(s))'
    <3> HAVE pc[s] \in AtArray
    <3>1. Right(child[s], key(s)) /\ child[s] \in Bin
      BY <1>4, <2>1 DEF FindKnows
    <3>2. \A b \in Bin, k \in Key : Right(b, k) =>
            \E i \in 1 .. Len(kids') : b = kids'[i] /\ (i > 1 => rkeys'[i - 1] < k)
      BY <2>1 DEF Effects, Right
    <3>3. \E i \in 1 .. Len(kids') : child[s] = kids'[i] /\ (i > 1 => rkeys'[i - 1] < key(s))
      BY <2>2, <3>1, <3>2
    <3>4. QED
      BY <1>1, <3>3 DEF Right
  <2>10. ASSUME pc[s] \in AtArray
         PROVE  /\ known[s] <= ver[child[s]] => known[s] <= ver'[child[s]]
                /\ known[s] <= ver[child[s]] /\ known[s] = ver'[child[s]] => known[s] = ver[child[s]]
                /\ ver'[child[s]] = ver[child[s]] /\ In(child[s], key(s)) => In(child[s], key(s))'
    <3>1. child[s] \in Bin /\ \E i \in 1 .. Len(kids) : child[s] = kids[i]
      BY <1>4, <2>10 DEF Answers, AtKid
    <3>2. ver[child[s]] <= ver'[child[s]] /\ ver[child[s]] \in Nat /\ ver'[child[s]] \in Nat
      BY <3>1 DEF Effects, IInv, TypeOK
    <3>3. \A b \in Bin : (\E i \in 1 .. Len(kids) : b = kids[i]) /\ ver'[b] = ver[b] =>
            \A k \in Key : In(b, k) => \E j \in DOMAIN keys'[b] : keys'[b][j] = k
      BY DEF Effects, In
    <3>4. ver'[child[s]] = ver[child[s]] /\ In(child[s], key(s)) =>
            \E j \in DOMAIN keys'[child[s]] : keys'[child[s]][j] = key(s)
      BY <2>2, <3>1, <3>3
    <3>5. ver'[child[s]] = ver[child[s]] /\ In(child[s], key(s)) => In(child[s], key(s))'
      BY <1>1, <3>4 DEF In
    <3>6. QED
      BY <1>2, <3>2, <3>5
  <2>11. pc[s] \in {"ckeys", "ccheck", "hop"} => known[s] <= ver[child[s]]
    BY <2>1 DEF FindKnows
  <2>12. pc[s] \in {"ckeys", "ccheck", "hop"} => pc[s] \in AtArray
    BY DEF AtArray
  <2>13. pc[s] \in {"ckeys", "ccheck", "hop"} => known[s] <= ver'[child[s]]
    BY <2>10, <2>11, <2>12
  <2>14. pc[s] = "ckeys" /\ known[s] = ver'[child[s]] => In(child[s], key(s))'
    <3> HAVE pc[s] = "ckeys" /\ known[s] = ver'[child[s]]
    <3>1. known[s] = ver[child[s]]
      BY <2>10, <2>11, <2>12
    <3>2. In(child[s], key(s))
      BY <2>1, <3>1 DEF FindKnows
    <3>3. QED
      BY <2>10, <2>12, <3>1, <3>2
  <2>15. pc[s] = "ccheck" /\ known[s] = ver'[child[s]] => res[s] = "ok"
    <3> HAVE pc[s] = "ccheck" /\ known[s] = ver'[child[s]]
    <3>1. known[s] = ver[child[s]]
      BY <2>10, <2>11, <2>12
    <3>2. QED
      BY <2>1, <3>1 DEF FindKnows
  <2>16. pc[s] = "return" => res[s] = "ok"
    BY <2>1 DEF FindKnows
  <2>17. QED
    BY <1>1, <1>2, <2>2, <2>5, <2>6, <2>7, <2>8, <2>9, <2>13, <2>14, <2>15, <2>16 DEF FindKnows
<1>12. QED
  BY <1>5, <1>9, <1>10, <1>11 DEF Answers

-----------------------------------------------------------------------------
(* Steps that change no array. *)

HistoryStays(t) ==
    \A s \in Thread \ {t} : UNCHANGED <<before[s], known[s], res[s]>> /\ (moved[s] => moved'[s])

\* All but four: an insert puts a key, borrows, splits, or fills a new array.
Quiet(t) ==
    \/ Call(t) \/ Return(t) \/ Unlock(t)
    \/ FindStart(t) \/ ReadRootVersion(t) \/ ReadRootSlot(t) \/ CheckRoot(t)
    \/ ReadChild(t) \/ ReadChildVersion(t) \/ ReadKeys(t) \/ CheckChild(t) \/ Hop(t)
    \/ InsertStart(t) \/ LockRoot(t) \/ LockChild(t) \/ Duplicate(t)
    \/ ChooseLeft(t) \/ LockLeft(t) \/ NeedRetrain(t)

LEMMA HistoryKept ==
    ASSUME IInv, NEW t \in Thread, Quiet(t) \/ PutInChild(t) \/ Borrow(t) \/ NewChild(t) \/ Split(t)
    PROVE  HistoryStays(t)
<1>1. /\ before \in [Thread -> BOOLEAN] /\ moved \in [Thread -> BOOLEAN] /\ known \in [Thread -> Nat]
      /\ res \in [Thread -> {"none", "ok", "failed", "retry", "retrain"}]
  BY DEF IInv, TypeOK
<1>2. CASE Call(t) \/ Return(t) \/ Unlock(t) \/ FindStart(t) \/ ReadRootVersion(t) \/ ReadRootSlot(t)
           \/ CheckRoot(t) \/ ReadChild(t) \/ ReadChildVersion(t)
  BY <1>1, <1>2
     DEF HistoryStays, Call, Return, Unlock, FindStart, ReadRootVersion, ReadRootSlot, CheckRoot, ReadChild,
         ReadChildVersion, Finish, local, history
<1>3. CASE ReadKeys(t) \/ CheckChild(t) \/ Hop(t) \/ InsertStart(t) \/ LockRoot(t) \/ LockChild(t)
           \/ Duplicate(t) \/ ChooseLeft(t) \/ LockLeft(t) \/ NeedRetrain(t)
  BY <1>1, <1>3
     DEF HistoryStays, ReadKeys, CheckChild, Hop, InsertStart, LockRoot, LockChild, Duplicate, ChooseLeft,
         LockLeft, NeedRetrain, Finish, Release, local, history
<1>4. CASE PutInChild(t) \/ Borrow(t) \/ NewChild(t) \/ Split(t)
  BY <1>1, <1>4
     DEF HistoryStays, PutInChild, Borrow, NewChild, Split, MovedLeft, Shifted, Release, history
<1>5. QED
  BY <1>2, <1>3, <1>4 DEF Quiet

LEMMA QuietEffects ==
    ASSUME IInv, NEW t \in Thread, UNCHANGED <<keys, rkeys, kids, ver>>, HistoryStays(t)
    PROVE  Effects(t)
<1>1. \A b, k : In(b, k)' <=> In(b, k)
  BY DEF In
<1>2. \A k : Held(k)' <=> Held(k)
  BY <1>1 DEF Held
<1>3. \A b, k : Right(b, k)' <=> Right(b, k)
  BY DEF Right
<1>4. \A a \in Bin \cup {Root} : ver[a] \in Nat
  BY DEF IInv, TypeOK
<1>5. \A a \in Bin \cup {Root} : ver[a] <= ver'[a]
  BY <1>4
<1>6. QED
  BY <1>1, <1>2, <1>3, <1>5 DEF Effects, HistoryStays

LEMMA QuietChangesNothing ==
    ASSUME NEW t \in Thread, Quiet(t)
    PROVE  UNCHANGED <<keys, rkeys, kids, ver>>
  BY DEF Quiet, Call, Return, Unlock, FindStart, ReadRootVersion, ReadRootSlot, CheckRoot, ReadChild,
         ReadChildVersion, ReadKeys, CheckChild, Hop, InsertStart, LockRoot, LockChild, Duplicate,
         ChooseLeft, LockLeft, NeedRetrain, shared, bins, root

\* The thread's own next step: what it answers, when it was not about a find.
LEMMA InsertAnswers ==
    ASSUME IInv, NEW t \in Thread, call[t].op = "insert", UNCHANGED call,
           pc'[t] \notin FindLabels \cup {"idle"},
           res'[t] \in {"ok", "failed"} => Held(key(t))'
    PROVE  Answers(t)'
<1>1. ~(pc'[t] \in {"cver"} \cup AtArray) /\ pc'[t] # "idle"
  BY DEF FindLabels, AtArray
<1>2. call'[t].op = "insert" /\ "insert" # "find"
  OBVIOUS
<1>3. OpOf(t)'
  BY <1>2 DEF OpOf
<1>4. AnswerKnown(t)'
  BY <1>1, <1>2 DEF AnswerKnown
<1>5. AtKid(t)' /\ ~Finding(t)'
  BY <1>1, <1>2 DEF AtKid, Finding
<1>6. QED
  BY <1>3, <1>4, <1>5 DEF Answers

LEMMA CallAnswers ==
    ASSUME IInv, Below, HasRoot, NEW t \in Thread, Answers(t), Call(t)
    PROVE  Answers(t)'
<1>1. PICK op \in {"find", "insert"}, k \in Key :
        /\ call' = [call EXCEPT ![t] = [op |-> op, key |-> k]]
        /\ before' = [before EXCEPT ![t] = k \in Stored]
        /\ GoTo(t, op)
  BY DEF Call
<1>2. /\ call'[t].op = op /\ call'[t].key = k /\ pc'[t] = op /\ (before'[t] => Held(k))
      /\ res'[t] = "none" /\ UNCHANGED <<keys, kids>>
  <2>1. call'[t] = [op |-> op, key |-> k] /\ pc'[t] = op /\ before'[t] = (k \in Stored)
    BY <1>1 DEF GoTo, IInv, TypeOK
  <2>2. res'[t] = "none"
    BY DEF Call, Answers, AnswerKnown
  <2>3. UNCHANGED <<keys, kids>>
    BY DEF Call, shared, bins, root
  <2>4. k \in Stored <=> Held(k)
    BY StoredIs
  <2>5. before'[t] => Held(k)
    BY <2>1, <2>4, Zenon
  <2>6. call'[t].op = op /\ call'[t].key = k
    BY <2>1
  <2>7. QED
    BY <2>1, <2>2, <2>3, <2>5, <2>6
<1>3. Held(key(t))' <=> Held(k)
  BY <1>2 DEF Held, In, key
<1>4. OpOf(t)' /\ AnswerKnown(t)' /\ AtKid(t)'
  BY <1>2 DEF OpOf, AnswerKnown, AtKid, FindLabels, AtArray
<1>5. Finding(t)' => FindKnows(t)'
  BY <1>2, <1>3 DEF Finding, FindKnows, AtArray
<1>6. QED
  BY <1>4, <1>5 DEF Answers

LEMMA ReturnAnswers ==
    ASSUME IInv, NEW t \in Thread, Answers(t), Return(t)
    PROVE  Answers(t)'
<1>1. pc'[t] = "idle" /\ res'[t] = "none"
  BY DEF Return, GoTo, IInv, TypeOK
<1>2. QED
  BY <1>1 DEF Answers, OpOf, AnswerKnown, AtKid, Finding, FindLabels, AtArray

LEMMA InsertWaits ==
    ASSUME IInv, StructureInv, rooted, NEW t \in Thread, Answers(t), RootStep(t),
           Unlock(t) \/ InsertStart(t) \/ LockRoot(t) \/ LockChild(t) \/ Duplicate(t)
           \/ ChooseLeft(t) \/ LockLeft(t) \/ NeedRetrain(t) \/ NewChild(t)
    PROVE  Answers(t)'
<1> USE DEF Unlock, InsertStart, LockRoot, LockChild, Duplicate, ChooseLeft, LockLeft, NeedRetrain, NewChild,
            Crowded
<1>1. call[t].op = "insert" /\ call[t].op # "find"
  <2>1. pc[t] \notin FindLabels \cup {"idle", "return"}
    BY DEF FindLabels
  <2>2. QED
    BY <2>1 DEF Answers, OpOf
<1>2. UNCHANGED call
  BY DEF local
<1>3. pc'[t] \notin FindLabels \cup {"idle"}
  <2>1. pc \in [Thread -> Labels]
    BY DEF IInv, TypeOK
  <2>2. CASE Unlock(t) \/ InsertStart(t) \/ LockRoot(t) \/ Duplicate(t)
    BY <2>1, <2>2 DEF FindLabels, GoTo, Release, Finish
  <2>3. CASE LockChild(t) \/ ChooseLeft(t) \/ LockLeft(t) \/ NeedRetrain(t) \/ NewChild(t)
    BY <2>1, <2>3 DEF FindLabels, GoTo, Release
  <2>4. QED
    BY <2>2, <2>3
<1>4. \A k : Held(k) => Held(k)'
  <2>1. UNCHANGED kids /\ \A i \in 1 .. Len(kids) : keys'[kids[i]] = keys[kids[i]]
    <3>1. ~NewChild(t) => UNCHANGED <<keys, kids>>
      BY DEF shared, bins, root
    <3>2. NewChild(t) => UNCHANGED kids /\ \A b \in live : keys'[b] = keys[b]
      <4> HAVE NewChild(t)
      <4>1. UNCHANGED kids
        BY DEF root
      <4>2. PICK b \in Bin \ live :
                keys' = [keys EXCEPT ![b] = SubSeq(keys[child[t]], Mid(child[t]) + 1, Len(keys[child[t]]))]
        OBVIOUS
      <4>3. \A a \in live : keys'[a] = keys[a]
        BY <4>2 DEF IInv, TypeOK
      <4>4. QED
        BY <4>1, <4>3
    <3>3. \A i \in 1 .. Len(kids) : kids[i] \in live
      BY KidsAre
    <3>4. QED
      BY <3>1, <3>2, <3>3
  <2>2. QED
    BY <2>1 DEF Held, In
<1>5. res'[t] \in {"ok", "failed"} => Held(key(t))
  <2>1. CASE Duplicate(t)
    <3>1. In(child[t], key(t))
      BY <2>1
    <3>2. \E i \in 1 .. Len(kids) : child[t] = kids[i]
      <4>1. pc[t] \in AtRoot
        <5>1. pc[t] # "sput"
          BY DEF IInv, RootInv, Alone
        <5>2. QED
          BY <2>1, <5>1 DEF AtRoot
      <4>2. QED
        BY <4>1, AtTheSlot
    <3>3. QED
      BY <3>1, <3>2 DEF Held
  <2>2. CASE ~Duplicate(t)
    <3>1. res'[t] \in {res[t], "retry", "retrain"}
      BY <2>2 DEF local, Release, Finish, IInv, TypeOK
    <3>2. res[t] \in {"ok", "failed"} => Held(key(t))
      BY <1>1 DEF Answers, AnswerKnown
    <3>3. QED
      BY <3>1, <3>2
  <2>3. QED
    BY <2>1, <2>2
<1>6. res'[t] \in {"ok", "failed"} => Held(key(t))'
  <2>1. Held(key(t)) => \E i \in 1 .. Len(kids') : \E j \in DOMAIN keys'[kids'[i]] : keys'[kids'[i]][j] = key(t)
    BY <1>4 DEF Held, In
  <2>2. Held(key(t)) => Held(key(t))'
    BY <1>2, <2>1 DEF Held, In, key
  <2>3. QED
    BY <1>5, <2>2
<1>7. QED
  BY <1>1, <1>2, <1>3, <1>6, InsertAnswers

-----------------------------------------------------------------------------
(* The steps of a find. *)

\* What it must know next, of arrays and versions that stay.
WillKnow(t) ==
    /\ pc'[t] \in {"rslot", "rcheck"} => known'[t] <= ver[Root]
    /\ pc'[t] = "rcheck" /\ known'[t] = ver[Root] => slot'[t] = Lower(rkeys, key(t))
    /\ pc'[t] = "rchild" => slot'[t] = Lower(rkeys, key(t))
    /\ pc'[t] = "cver" => In(child'[t], key(t))
    /\ pc'[t] \in AtArray => Right(child'[t], key(t))
    /\ pc'[t] \in {"ckeys", "ccheck", "hop"} => known'[t] <= ver[child'[t]]
    /\ pc'[t] = "ckeys" /\ known'[t] = ver[child'[t]] => In(child'[t], key(t))
    /\ pc'[t] = "ccheck" /\ known'[t] = ver[child'[t]] => res'[t] = "ok"
    /\ pc'[t] = "return" => res'[t] = "ok"

LEMMA FindAnswers ==
    ASSUME IInv, NEW t \in Thread, Answers(t), pc[t] \in FindLabels,
           UNCHANGED <<keys, rkeys, kids, ver, call, before, moved>>,
           pc'[t] \in FindLabels \cup {"return"},
           res'[t] = "ok" => Held(key(t)),
           pc'[t] \in {"cver"} \cup AtArray => \E i \in 1 .. Len(kids) : child'[t] = kids[i],
           FindKnows(t) => WillKnow(t)
    PROVE  Answers(t)'
<1>1. call[t].op = "find" /\ pc[t] # "idle" /\ pc'[t] # "idle"
  BY DEF Answers, OpOf, FindLabels
<1>2. /\ Held(key(t))' <=> Held(key(t))
      /\ Lower(rkeys, key(t))' = Lower(rkeys, key(t))
      /\ In(child[t], key(t))' <=> In(child'[t], key(t))
      /\ Right(child[t], key(t))' <=> Right(child'[t], key(t))
  BY DEF Held, In, Right, key
<1>3. OpOf(t)'
  BY <1>1 DEF OpOf
<1>4. AnswerKnown(t)'
  BY <1>1, <1>2 DEF AnswerKnown
<1>5. AtKid(t)'
  BY DEF AtKid
<1>6. ASSUME Finding(t)' PROVE FindKnows(t)'
  <2>1. FindKnows(t) /\ WillKnow(t)
    BY <1>1, <1>6 DEF Finding, Answers
  <2>2. Held(key(t))
    BY <2>1 DEF FindKnows
  <2>3. QED
    BY <1>2, <2>1, <2>2 DEF FindKnows, WillKnow
<1>7. QED
  BY <1>3, <1>4, <1>5, <1>6 DEF Answers

\* What stays in every step of a find.
LEMMA FindLeaves ==
    ASSUME IInv, Below, HasRoot, NEW t \in Thread, Answers(t),
           \/ FindStart(t) \/ ReadRootVersion(t) \/ ReadRootSlot(t) \/ CheckRoot(t)
           \/ ReadChild(t) \/ ReadChildVersion(t) \/ ReadKeys(t) \/ CheckChild(t) \/ (Hop(t) /\ pc[t] = "hop")
    PROVE  /\ UNCHANGED <<keys, rkeys, kids, ver, call, before, moved>>
           /\ pc[t] \in FindLabels /\ key(t) \in Key /\ call[t].op = "find"
           /\ res[t] = "ok" => Held(key(t))
           /\ pc[t] \in {"cver"} \cup AtArray => \E i \in 1 .. Len(kids) : child[t] = kids[i]
           /\ pc \in [Thread -> Labels] /\ known \in [Thread -> Nat] /\ slot \in [Thread -> Nat]
           /\ child \in [Thread -> Bin \cup {NoBin}]
           /\ res \in [Thread -> {"none", "ok", "failed", "retry", "retrain"}]
           /\ ver[Root] \in Nat /\ \A b \in Bin : ver[b] \in Nat
<1>1. UNCHANGED <<keys, rkeys, kids, ver, call, before, moved>>
  BY DEF FindStart, ReadRootVersion, ReadRootSlot, CheckRoot, ReadChild, ReadChildVersion, ReadKeys, CheckChild,
         Hop, shared, bins, root, local, history
<1>2. pc[t] \in FindLabels /\ pc[t] # "idle"
  BY DEF FindStart, ReadRootVersion, ReadRootSlot, CheckRoot, ReadChild, ReadChildVersion, ReadKeys, CheckChild,
         FindLabels
<1>3. /\ pc \in [Thread -> Labels] /\ known \in [Thread -> Nat] /\ slot \in [Thread -> Nat]
      /\ child \in [Thread -> Bin \cup {NoBin}]
      /\ res \in [Thread -> {"none", "ok", "failed", "retry", "retrain"}]
      /\ ver[Root] \in Nat /\ \A b \in Bin : ver[b] \in Nat
  BY DEF IInv, TypeOK
<1>4. key(t) \in Key
  BY <1>2 DEF IInv, ThreadOK
<1>5. QED
  BY <1>1, <1>2, <1>3, <1>4 DEF Answers, OpOf, AnswerKnown, AtKid

LEMMA RootSteps ==
    ASSUME IInv, Below, HasRoot, NEW t \in Thread, Answers(t),
           FindStart(t) \/ ReadRootVersion(t) \/ ReadRootSlot(t) \/ CheckRoot(t)
    PROVE  Answers(t)'
<1>1. /\ UNCHANGED <<keys, rkeys, kids, ver, call, before, moved, child, res>>
      /\ pc[t] \in FindLabels /\ (res[t] = "ok" => Held(key(t)))
      /\ pc \in [Thread -> Labels] /\ known \in [Thread -> Nat] /\ slot \in [Thread -> Nat]
      /\ ver[Root] \in Nat
  BY FindLeaves DEF FindStart, ReadRootVersion, ReadRootSlot, CheckRoot, local
<1>2. pc'[t] \in {"find", "rver", "rslot", "rcheck", "rchild"}
  BY <1>1 DEF FindStart, ReadRootVersion, ReadRootSlot, CheckRoot, GoTo
<1>3. FindKnows(t) => WillKnow(t)
  <2> HAVE FindKnows(t)
  <2>1. CASE FindStart(t)
    BY <1>1, <2>1 DEF FindStart, GoTo, WillKnow, AtArray
  <2>2. CASE ReadRootVersion(t)
    BY <1>1, <2>2 DEF ReadRootVersion, GoTo, WillKnow, AtArray
  <2>3. CASE ReadRootSlot(t)
    <3>1. pc[t] = "rslot" /\ pc'[t] = "rcheck" /\ known'[t] = known[t] /\ slot'[t] = Lower(rkeys, key(t))
      BY <1>1, <2>3 DEF ReadRootSlot, GoTo
    <3>2. QED
      BY <3>1 DEF FindKnows, WillKnow, AtArray
  <2>4. CASE CheckRoot(t)
    <3>1. /\ pc[t] = "rcheck" /\ slot'[t] = slot[t]
          /\ pc'[t] = "find" \/ (pc'[t] = "rchild" /\ known[t] = ver[Root])
      BY <1>1, <2>4 DEF CheckRoot, GoTo, local
    <3>2. QED
      BY <3>1 DEF FindKnows, WillKnow, AtArray
  <2>5. QED
    BY <2>1, <2>2, <2>3, <2>4
<1>4. pc'[t] \in FindLabels /\ ~(pc'[t] \in {"cver"} \cup AtArray)
  BY <1>2 DEF FindLabels, AtArray
<1>5. QED
  BY <1>1, <1>3, <1>4, FindAnswers

LEMMA ReadChildAnswers ==
    ASSUME IInv, Below, HasRoot, NEW t \in Thread, Answers(t), ReadChild(t)
    PROVE  Answers(t)'
<1>1. /\ UNCHANGED <<keys, rkeys, kids, ver, call, before, moved, res>>
      /\ pc[t] \in FindLabels /\ key(t) \in Key /\ (res[t] = "ok" => Held(key(t)))
      /\ pc[t] = "rchild" /\ pc'[t] = "cver" /\ child'[t] = kids[slot[t]]
  <2>1. /\ UNCHANGED <<keys, rkeys, kids, ver, call, before, moved>>
        /\ pc[t] \in FindLabels /\ key(t) \in Key /\ (res[t] = "ok" => Held(key(t)))
        /\ pc \in [Thread -> Labels] /\ child \in [Thread -> Bin \cup {NoBin}]
    BY FindLeaves
  <2>2. QED
    BY <2>1 DEF ReadChild, GoTo
<1>2. slot[t] \in 1 .. Len(kids)
  BY <1>1 DEF IInv, ThreadOK
<1>3. FindKnows(t) => WillKnow(t)
  <2> HAVE FindKnows(t)
  <2>1. slot[t] = Lower(rkeys, key(t)) /\ Held(key(t))
    BY <1>1 DEF FindKnows
  <2>2. In(child'[t], key(t))
    BY <1>1, <2>1, LowerLeads
  <2>3. QED
    BY <1>1, <2>2 DEF WillKnow, AtArray
<1>4. pc'[t] \in FindLabels
  BY <1>1 DEF FindLabels
<1>5. QED
  BY <1>1, <1>2, <1>3, <1>4, FindAnswers

LEMMA ReadChildVersionAnswers ==
    ASSUME IInv, Below, HasRoot, NEW t \in Thread, Answers(t), ReadChildVersion(t)
    PROVE  Answers(t)'
<1>1. /\ UNCHANGED <<keys, rkeys, kids, ver, call, before, moved>>
      /\ pc[t] \in FindLabels /\ key(t) \in Key /\ (res[t] = "ok" => Held(key(t)))
      /\ pc[t] \in {"cver"} \cup AtArray => \E i \in 1 .. Len(kids) : child[t] = kids[i]
      /\ pc \in [Thread -> Labels] /\ known \in [Thread -> Nat]
      /\ \A b \in Bin : ver[b] \in Nat
  BY FindLeaves
<1>2. /\ UNCHANGED <<res, child>>
      /\ (pc[t] = "cver" /\ pc'[t] = "ckeys") \/ (pc[t] = "renew" /\ pc'[t] = "hop")
      /\ known'[t] = ver[child[t]]
  <2>1. UNCHANGED <<res, child>> /\ known'[t] = ver[child[t]]
    BY <1>1 DEF ReadChildVersion
  <2>2. (pc[t] = "cver" /\ pc'[t] = "ckeys") \/ (pc[t] = "renew" /\ pc'[t] = "hop")
    <3>1. (pc[t] = "cver" /\ GoTo(t, "ckeys")) \/ (pc[t] = "renew" /\ GoTo(t, "hop"))
      BY DEF ReadChildVersion
    <3>2. \A l : GoTo(t, l) => pc'[t] = l
      BY <1>1 DEF GoTo
    <3>3. QED
      BY <3>1, <3>2
  <2>3. QED
    BY <2>1, <2>2
<1>3. (\E i \in 1 .. Len(kids) : child[t] = kids[i]) /\ child[t] \in Bin
  <2>1. \E i \in 1 .. Len(kids) : child[t] = kids[i]
    BY <1>1, <1>2 DEF AtArray
  <2>2. QED
    BY <2>1, BelowIs
<1>4. FindKnows(t) => WillKnow(t)
  <2> HAVE FindKnows(t)
  <2>1. CASE pc[t] = "cver"
    <3>1. In(child[t], key(t))
      BY <2>1 DEF FindKnows
    <3>2. Right(child[t], key(t))
      BY <1>1, <1>3, <3>1, InIsRight
    <3>3. QED
      BY <1>1, <1>2, <1>3, <2>1, <3>1, <3>2 DEF WillKnow
  <2>2. CASE pc[t] = "renew"
    BY <1>1, <1>2, <1>3, <2>2 DEF FindKnows, WillKnow, AtArray
  <2>3. QED
    BY <1>2, <2>1, <2>2
<1>5. pc'[t] \in FindLabels
  BY <1>2 DEF FindLabels
<1>6. QED
  BY <1>1, <1>2, <1>3, <1>4, <1>5, FindAnswers

LEMMA ReadKeysAnswers ==
    ASSUME IInv, Below, HasRoot, NEW t \in Thread, Answers(t), ReadKeys(t)
    PROVE  Answers(t)'
<1>1. /\ UNCHANGED <<keys, rkeys, kids, ver, call, before, moved>>
      /\ pc[t] \in FindLabels /\ key(t) \in Key
      /\ pc[t] \in {"cver"} \cup AtArray => \E i \in 1 .. Len(kids) : child[t] = kids[i]
      /\ pc \in [Thread -> Labels]
      /\ res \in [Thread -> {"none", "ok", "failed", "retry", "retrain"}]
  BY FindLeaves
<1>2. /\ UNCHANGED <<known, child>> /\ pc[t] = "ckeys" /\ pc'[t] = "ccheck"
      /\ res'[t] = IF In(child[t], key(t)) THEN "ok" ELSE "failed"
  BY <1>1 DEF ReadKeys, GoTo
<1>3. \E i \in 1 .. Len(kids) : child[t] = kids[i]
  BY <1>1, <1>2 DEF AtArray
<1>4. res'[t] = "ok" => Held(key(t))
  BY <1>2, <1>3 DEF Held
<1>5. FindKnows(t) => WillKnow(t)
  BY <1>2 DEF FindKnows, WillKnow, AtArray
<1>6. pc'[t] \in FindLabels
  BY <1>2 DEF FindLabels
<1>7. QED
  BY <1>1, <1>2, <1>3, <1>4, <1>5, <1>6, FindAnswers

LEMMA CheckChildAnswers ==
    ASSUME IInv, Below, HasRoot, NEW t \in Thread, Answers(t), CheckChild(t)
    PROVE  Answers(t)'
<1>1. /\ UNCHANGED <<keys, rkeys, kids, ver, call, before, moved>>
      /\ pc[t] \in FindLabels /\ key(t) \in Key /\ (res[t] = "ok" => Held(key(t)))
      /\ pc[t] \in {"cver"} \cup AtArray => \E i \in 1 .. Len(kids) : child[t] = kids[i]
      /\ pc \in [Thread -> Labels]
  BY FindLeaves
<1>2. /\ UNCHANGED <<known, child, res>> /\ pc[t] = "ccheck"
      /\ pc'[t] = "renew" \/ (pc'[t] = "return" /\ known[t] = ver[child[t]])
  BY <1>1 DEF CheckChild, GoTo, local
<1>3. \E i \in 1 .. Len(kids) : child[t] = kids[i]
  BY <1>1, <1>2 DEF AtArray
<1>4. FindKnows(t) => WillKnow(t)
  BY <1>2 DEF FindKnows, WillKnow, AtArray
<1>5. pc'[t] \in FindLabels \cup {"return"}
  BY <1>2 DEF FindLabels
<1>6. QED
  BY <1>1, <1>2, <1>3, <1>4, <1>5, FindAnswers

\* A find goes on to the right only while the key is there, and stops only where
\* it is.
LEMMA HopAnswers ==
    ASSUME IInv, Below, HasRoot, NEW t \in Thread, Answers(t), Hop(t), pc[t] = "hop"
    PROVE  Answers(t)'
<1> DEFINE m == Len(rkeys)
           k == key(t)
<1>1. /\ UNCHANGED <<keys, rkeys, kids, ver, call, before, moved>>
      /\ pc[t] \in FindLabels /\ k \in Key /\ (res[t] = "ok" => Held(k))
      /\ \E i \in 1 .. Len(kids) : child[t] = kids[i]
      /\ pc \in [Thread -> Labels] /\ known \in [Thread -> Nat]
      /\ child \in [Thread -> Bin \cup {NoBin}] /\ \A b \in Bin : ver[b] \in Nat
  BY FindLeaves DEF AtArray
<1>2. /\ m \in Nat /\ Len(kids) = m + 1 /\ k \in Int
      /\ \A i \in 1 .. m + 1 : kids[i] \in Bin /\ keys[kids[i]] \in Seq(Key)
                               /\ keys[kids[i]] # <<>> /\ Ascending(keys[kids[i]])
      /\ \A i \in 1 .. m : /\ next[kids[i]] = kids[i + 1] /\ i + 1 \in 1 .. m + 1 /\ i \in 1 .. m + 1
                           /\ rkeys[i] = Last(keys[kids[i]]) /\ rkeys[i] < keys[kids[i + 1]][1]
                           /\ rkeys[i] \in Int
  BY <1>1, BelowIs
<1>3. next[kids[m + 1]] = NoBin /\ NoBin \notin Bin
  BY <1>2, NameAssumption DEF Below, NameAssumption
<1>4. UNCHANGED res
  BY DEF Hop
<1>5. CASE Beyond(t)
  <2> DEFINE b == next[child[t]]
  <2>1. pc'[t] = "hop" /\ child'[t] = b /\ known'[t] = ver[b]
    BY <1>1, <1>5 DEF Hop
  <2>2. b # NoBin /\ keys[b][1] <= k
    BY <1>5 DEF Beyond
  <2>3. PICK i \in 1 .. m + 1 : child[t] = kids[i]
    BY <1>1, <1>2
  <2>4. i \in 1 .. m /\ b = kids[i + 1] /\ i + 1 \in 1 .. m + 1 /\ b \in Bin
    <3>1. i # m + 1
      BY <1>3, <2>2, <2>3
    <3>2. i \in 1 .. m
      BY <1>2, <3>1
    <3>3. QED
      BY <1>2, <2>3, <3>2
  <2> HIDE DEF b, m, k
  <2>5. rkeys[i] < k
    <3>1. rkeys[i] < keys[b][1] /\ rkeys[i] \in Int
      BY <1>2, <2>4
    <3>2. keys[b][1] \in Int
      BY <1>2, <2>4, Ends
    <3>3. QED
      BY <1>2, <2>2, <3>1, <3>2
  <2>6. Right(b, k)
    <3> DEFINE j == i + 1
    <3>1. j \in 1 .. m + 1 /\ j - 1 = i /\ b = kids[j]
      BY <1>2, <2>4
    <3> HIDE DEF j
    <3>2. j \in 1 .. Len(kids) /\ rkeys[j - 1] < k
      BY <1>2, <2>5, <3>1
    <3>3. QED
      BY <3>1, <3>2 DEF Right
  <2>7. WillKnow(t)
    <3>1. known'[t] <= ver[child'[t]]
      BY <1>1, <2>1, <2>4
    <3>2. Right(child'[t], key(t))
      BY <2>1, <2>6 DEF k
    <3>3. QED
      BY <2>1, <3>1, <3>2 DEF WillKnow
  <2>8. \E x \in 1 .. Len(kids) : child'[t] = kids[x]
    BY <1>2, <2>1, <2>4
  <2>9. pc'[t] \in FindLabels
    BY <2>1 DEF FindLabels
  <2>10. QED
    BY <1>1, <1>4, <2>7, <2>8, <2>9, FindAnswers DEF k
<1>6. CASE ~Beyond(t)
  <2>1. pc'[t] = "ckeys" /\ UNCHANGED <<child, known>>
    BY <1>1, <1>6 DEF Hop, GoTo
  <2>2. ASSUME FindKnows(t) PROVE In(child[t], k)
    <3>1. Held(k) /\ Right(child[t], k)
      BY <2>2 DEF FindKnows, AtArray
    <3>2. PICK i \in 1 .. m + 1 : child[t] = kids[i] /\ (i > 1 => rkeys[i - 1] < k)
      BY <1>2, <3>1 DEF Right
    <3> DEFINE j == Lower(rkeys, k)
    <3>3. j \in 1 .. m + 1 /\ In(kids[j], k) /\ \A x \in 1 .. m : rkeys[x] < k <=> x < j
      BY <1>1, <1>2, <3>1, LowerLeads, LowerIs, BelowIs
    <3> HIDE DEF j, m, k
    <3>4. ~(j < i)
      <4> SUFFICES ASSUME j < i PROVE FALSE
        OBVIOUS
      <4>1. i > 1 /\ i - 1 \in 1 .. m /\ ~(i - 1 < j)
        BY <1>2, <3>3
      <4>2. QED
        BY <3>2, <3>3, <4>1
    <3>5. ~(i < j)
      <4> SUFFICES ASSUME i < j PROVE FALSE
        OBVIOUS
      <4>1. i \in 1 .. m /\ i + 1 \in 1 .. m + 1 /\ (j = i + 1 \/ (i + 1 \in 1 .. m /\ i + 1 < j))
        BY <1>2, <3>3
      <4> DEFINE b == kids[i + 1]
      <4>2. next[child[t]] = b /\ b \in Bin /\ keys[b] \in Seq(Key) /\ keys[b] # <<>> /\ Ascending(keys[b])
        BY <1>2, <3>2, <4>1
      <4>3. ~(keys[b][1] <= k)
        BY <1>3, <1>6, <4>2 DEF Beyond, k
      <4>4. /\ keys[b][1] \in Int /\ Last(keys[b]) \in Int
            /\ \A x \in 1 .. Len(keys[b]) : keys[b][1] <= keys[b][x] /\ keys[b][x] <= Last(keys[b])
            /\ Len(keys[b]) \in 1 .. Len(keys[b])
        BY <4>2, Ends
      <4>5. CASE j = i + 1
        <5>1. \E x \in 1 .. Len(keys[b]) : keys[b][x] = k
          BY <3>3, <4>2, <4>5 DEF In
        <5>2. QED
          BY <4>3, <4>4, <5>1
      <4>6. CASE i + 1 \in 1 .. m /\ i + 1 < j
        <5>1. rkeys[i + 1] < k /\ rkeys[i + 1] = Last(keys[b])
          BY <1>2, <3>3, <4>6
        <5>2. keys[b][1] <= Last(keys[b])
          BY <4>2, Ends
        <5>3. QED
          BY <1>2, <4>3, <4>4, <5>1, <5>2
      <4>7. QED
        BY <4>1, <4>5, <4>6
    <3>6. i = j
      BY <1>2, <3>3, <3>4, <3>5
    <3>7. QED
      BY <3>2, <3>3, <3>6
  <2>3. FindKnows(t) => WillKnow(t)
    <3> HAVE FindKnows(t)
    <3>1. In(child[t], key(t))
      BY <2>2
    <3>2. Right(child[t], key(t)) /\ known[t] <= ver[child[t]]
      BY DEF FindKnows, AtArray
    <3>3. QED
      BY <2>1, <3>1, <3>2 DEF WillKnow
  <2>4. pc'[t] \in FindLabels
    BY <2>1 DEF FindLabels
  <2>5. \E x \in 1 .. Len(kids) : child'[t] = kids[x]
    BY <1>1, <2>1
  <2>6. QED
    BY <1>1, <1>4, <2>3, <2>4, <2>5, FindAnswers
<1>7. QED
  BY <1>5, <1>6

-----------------------------------------------------------------------------
(* What arrays hold after a step. *)

LEMMA InsertAtHolds ==
    ASSUME NEW s \in Seq(Key), NEW e \in Key, NEW n \in 1 .. Len(s) + 1
    PROVE  ToSet(s) \cup {e} \subseteq ToSet(InsertAt(s, n, e))
<1> DEFINE r == InsertAt(s, n, e)
<1>1. /\ r \in Seq(Key) /\ Len(r) = Len(s) + 1
      /\ \A j \in 1 .. Len(s) + 1 : r[j] = IF j < n THEN s[j] ELSE IF j = n THEN e ELSE s[j - 1]
  BY InsertAtIs
<1>2. Len(s) \in Nat /\ DOMAIN s = 1 .. Len(s)
  OBVIOUS
<1>3. DOMAIN r = 1 .. Len(s) + 1
  BY <1>1
<1> HIDE DEF r
<1>4. e \in ToSet(r)
  BY <1>1, <1>3 DEF ToSet
<1>5. ASSUME NEW i \in 1 .. Len(s) PROVE s[i] \in ToSet(r)
  <2>1. CASE i < n
    <3>1. i \in 1 .. Len(s) + 1 /\ r[i] = s[i]
      BY <1>1, <1>2, <2>1
    <3>2. QED
      BY <1>3, <3>1 DEF ToSet
  <2>2. CASE ~(i < n)
    <3> DEFINE j == i + 1
    <3>1. j \in 1 .. Len(s) + 1 /\ ~(j < n) /\ j # n /\ j - 1 = i
      BY <1>2, <2>2
    <3> HIDE DEF j
    <3>2. r[j] = s[i]
      BY <1>1, <3>1
    <3>3. QED
      BY <1>3, <3>1, <3>2 DEF ToSet
  <2>3. QED
    BY <2>1, <2>2
<1>6. ToSet(s) \subseteq ToSet(r)
  BY <1>2, <1>5 DEF ToSet
<1>7. QED
  BY <1>4, <1>6 DEF r

LEMMA AppendHolds ==
    ASSUME NEW s \in Seq(Key), NEW e \in Key
    PROVE  ToSet(s) \cup {e} \subseteq ToSet(Append(s, e))
<1> DEFINE r == Append(s, e)
<1>1. /\ Len(s) \in Nat /\ DOMAIN s = 1 .. Len(s) /\ DOMAIN r = 1 .. Len(s) + 1
      /\ (\A i \in 1 .. Len(s) : r[i] = s[i]) /\ r[Len(s) + 1] = e
  OBVIOUS
<1> HIDE DEF r
<1>2. Len(s) + 1 \in DOMAIN r /\ \A i \in DOMAIN s : i \in DOMAIN r
  BY <1>1
<1>3. QED
  BY <1>1, <1>2 DEF r, ToSet

LEMMA TailHolds ==
    ASSUME NEW s \in Seq(Key), s # <<>>
    PROVE  ToSet(s) \subseteq ToSet(Tail(s)) \cup {s[1]}
<1> DEFINE r == Tail(s)
<1>1. /\ Len(s) \in Nat \ {0} /\ DOMAIN s = 1 .. Len(s) /\ DOMAIN r = 1 .. Len(s) - 1
      /\ \A i \in 1 .. Len(s) - 1 : r[i] = s[i + 1]
  OBVIOUS
<1> HIDE DEF r
<1>2. ASSUME NEW i \in 1 .. Len(s), i # 1 PROVE s[i] \in ToSet(r)
  <2> DEFINE j == i - 1
  <2>1. j \in 1 .. Len(s) - 1 /\ j + 1 = i
    BY <1>1, <1>2
  <2> HIDE DEF j
  <2>2. r[j] = s[i]
    BY <1>1, <2>1
  <2>3. QED
    BY <1>1, <2>1, <2>2 DEF ToSet
<1>3. QED
  BY <1>1, <1>2 DEF r, ToSet

\* Nothing is lost when an array is cut in two.
LEMMA CutHolds ==
    ASSUME NEW s \in Seq(Key), NEW m \in 1 .. Len(s) - 1
    PROVE  /\ SubSeq(s, 1, m) \in Seq(Key) /\ SubSeq(s, m + 1, Len(s)) \in Seq(Key)
           /\ ToSet(s) \subseteq ToSet(SubSeq(s, 1, m)) \cup ToSet(SubSeq(s, m + 1, Len(s)))
<1> DEFINE lower == SubSeq(s, 1, m)
           n == m + 1
           upper == SubSeq(s, n, Len(s))
<1>1. Len(s) \in Nat /\ m \in Nat /\ m <= Len(s) /\ n \in Nat /\ n <= Len(s) /\ 1 <= n
  OBVIOUS
<1>2. lower \in Seq(Key) /\ Len(lower) = m /\ \A i \in 1 .. m : lower[i] = s[i]
  <2>1. \A i \in 1 .. m : s[i] \in Key
    BY <1>1
  <2>2. /\ lower \in Seq(Key) /\ Len(lower) = (IF 1 <= m THEN m - 1 + 1 ELSE 0)
        /\ \A i \in 1 .. m - 1 + 1 : lower[i] = s[1 + i - 1]
    BY <1>1, <2>1, SubSeqProperties
  <2>3. m - 1 + 1 = m /\ 1 <= m /\ \A i \in 1 .. m : 1 + i - 1 = i
    BY <1>1
  <2>4. QED
    BY <2>2, <2>3
<1> HIDE DEF n
<1>3. /\ upper \in Seq(Key) /\ Len(upper) = Len(s) - n + 1
      /\ \A i \in 1 .. Len(s) - n + 1 : upper[i] = s[n + i - 1]
  <2>1. \A i \in n .. Len(s) : s[i] \in Key
    BY <1>1
  <2>2. QED
    BY <1>1, <2>1, SubSeqProperties
<1> HIDE DEF lower, upper
<1>4. ASSUME NEW i \in 1 .. Len(s) PROVE s[i] \in ToSet(lower) \cup ToSet(upper)
  <2>1. CASE i <= m
    <3>1. i \in DOMAIN lower /\ lower[i] = s[i]
      BY <1>1, <1>2, <2>1
    <3>2. QED
      BY <3>1 DEF ToSet
  <2>2. CASE ~(i <= m)
    <3> DEFINE j == i - m
    <3>1. j \in 1 .. Len(s) - n + 1 /\ n + j - 1 = i
      BY <1>1, <2>2 DEF n
    <3> HIDE DEF j
    <3>2. j \in DOMAIN upper /\ upper[j] = s[i]
      BY <1>3, <3>1
    <3>3. QED
      BY <3>2 DEF ToSet
  <2>3. QED
    BY <2>1, <2>2
<1>5. ToSet(s) \subseteq ToSet(lower) \cup ToSet(upper)
  BY <1>4 DEF ToSet
<1>6. QED
  BY <1>2, <1>3, <1>5 DEF lower, upper, n

\* The halves hold what the array held, and the new key.
LEMMA HalvesHold ==
    ASSUME IInv, StructureInv, NEW t \in Thread, RootStep(t), rooted, pc[t] = "split"
    PROVE  ToSet(keys[child[t]]) \cup {key(t)} \subseteq ToSet(Halves(t)[1]) \cup ToSet(Halves(t)[2])
<1> DEFINE a == keys[child[t]]
           k == key(t)
           m == Mid(child[t])
           lower == SubSeq(a, 1, m)
           upper == SubSeq(a, m + 1, Len(a))
<1>1. AtSlot(t) /\ k \in Key /\ child[t] \in Bin /\ a \in Seq(Key)
  BY AtTheSlot DEF AtRoot
<1>2. Len(a) = ChildMax /\ keys[nb[t]] = upper
  BY <1>1 DEF AtSlot
<1>3. m \in 1 .. Len(a) - 1
  BY <1>1, <1>2, BoundAssumption DEF BoundAssumption, Mid
<1>4. Halves(t) = IF Slot(t) <= m + 1
                  THEN <<InsertAt(lower, Lower(lower, k), k), upper>>
                  ELSE <<lower, InsertAt(upper, Lower(upper, k), k)>>
  BY <1>2 DEF Halves
<1> HIDE DEF a, k, m
<1>5. lower \in Seq(Key) /\ upper \in Seq(Key) /\ ToSet(a) \subseteq ToSet(lower) \cup ToSet(upper)
  BY <1>1, <1>3, CutHolds
<1> HIDE DEF lower, upper
<1>6. ToSet(lower) \cup {k} \subseteq ToSet(InsertAt(lower, Lower(lower, k), k))
  BY <1>1, <1>5, LowerBounds, InsertAtHolds
<1>7. ToSet(upper) \cup {k} \subseteq ToSet(InsertAt(upper, Lower(upper, k), k))
  BY <1>1, <1>5, LowerBounds, InsertAtHolds
<1>8. ToSet(a) \cup {k} \subseteq ToSet(Halves(t)[1]) \cup ToSet(Halves(t)[2])
  BY <1>4, <1>5, <1>6, <1>7
<1>9. QED
  BY <1>8 DEF a, k

-----------------------------------------------------------------------------
(* The steps that change an array. *)

LEMMA NewChildEffects ==
    ASSUME IInv, NEW t \in Thread, NewChild(t)
    PROVE  Effects(t)
<1>1. UNCHANGED <<kids, rkeys, ver>> /\ \A b \in live : keys'[b] = keys[b]
  <2>1. UNCHANGED <<kids, rkeys, ver>>
    BY DEF NewChild, root
  <2>2. PICK b \in Bin \ live :
            keys' = [keys EXCEPT ![b] = SubSeq(keys[child[t]], Mid(child[t]) + 1, Len(keys[child[t]]))]
    BY DEF NewChild
  <2>3. \A a \in live : keys'[a] = keys[a]
    BY <2>2 DEF IInv, TypeOK
  <2>4. QED
    BY <2>1, <2>3
<1>2. \A i \in 1 .. Len(kids) : kids[i] \in live
  BY KidsAre
<1>3. \A b \in live : \A k : In(b, k)' <=> In(b, k)
  BY <1>1 DEF In
<1>4. \A k : Held(k) => Held(k)'
  BY <1>1, <1>2, <1>3 DEF Held
<1>5. \A b, k : Right(b, k)' <=> Right(b, k)
  BY <1>1 DEF Right
<1>6. \A a \in Bin \cup {Root} : ver[a] <= ver'[a]
  BY <1>1 DEF IInv, TypeOK
<1>7. HistoryStays(t)
  BY HistoryKept
<1>8. \A b \in Bin : (\E i \in 1 .. Len(kids) : b = kids[i]) => b \in live
  BY <1>2
<1>9. QED
  BY <1>1, <1>3, <1>4, <1>5, <1>6, <1>7, <1>8 DEF Effects, HistoryStays

\* A version only grows.
LEMMA BumpGrows ==
    ASSUME IInv, NEW S, Bump(S)
    PROVE  /\ \A a \in Bin \cup {Root} : ver[a] <= ver'[a] /\ (a \in S => ver'[a] # ver[a])
<1>1. \A a \in Bin \cup {Root} : ver[a] \in Nat /\ ver'[a] = IF a \in S THEN ver[a] + 1 ELSE ver[a]
  BY DEF Bump, IInv, TypeOK
<1>2. QED
  BY <1>1

LEMMA PutInChildEffects ==
    ASSUME IInv, StructureInv, NEW t \in Thread, RootStep(t), rooted, PutInChild(t)
    PROVE  /\ Effects(t) /\ \E i \in 1 .. Len(kids') : key(t) \in ToSet(keys'[kids'[i]])
<1> DEFINE c == child[t]
<1>1. pc[t] \in AtRoot
  BY DEF PutInChild, AtRoot
<1>2. /\ key(t) \in Key /\ c \in Bin /\ slot[t] \in 1 .. Len(kids) /\ c = kids[slot[t]]
      /\ keys \in [Bin -> Seq(Key)]
      /\ \A i \in 1 .. Len(kids) : kids[i] \in Bin
  BY <1>1, AtTheSlot
<1>3. rkeys' = rkeys /\ UNCHANGED kids /\ keys' = [keys EXCEPT ![c] = Inserted(t)] /\ Bump({Root, c})
  BY SeparatorStays DEF PutInChild
<1>4. ToSet(keys[c]) \cup {key(t)} \subseteq ToSet(Inserted(t))
  BY <1>2, LowerBounds, InsertAtHolds DEF Inserted, Slot
<1> HIDE DEF c
<1>5. keys'[c] = Inserted(t) /\ \A b \in Bin : b # c => keys'[b] = keys[b]
  BY <1>2, <1>3
<1>6. \A b \in Bin : ToSet(keys[b]) \subseteq ToSet(keys'[b])
  BY <1>4, <1>5
<1>7. \A b \in Bin : \A k : In(b, k) => In(b, k)'
  <2>1. \A b, k : In(b, k)' <=> k \in ToSet(keys'[b])
    BY DEF In, ToSet
  <2>2. QED
    BY <1>6, <2>1, InIs
<1>8. \A k : Held(k) => Held(k)'
  BY <1>2, <1>3, <1>7 DEF Held
<1>9. \A b, k : Right(b, k)' <=> Right(b, k)
  BY <1>3 DEF Right
<1>10. \A a \in Bin \cup {Root} : ver[a] <= ver'[a]
  BY <1>3, BumpGrows
<1>11. HistoryStays(t)
  BY HistoryKept
<1>12. Effects(t)
  BY <1>3, <1>7, <1>8, <1>9, <1>10, <1>11 DEF Effects, HistoryStays
<1>13. QED
  BY <1>2, <1>3, <1>4, <1>5, <1>12

LEMMA BorrowEffects ==
    ASSUME IInv, StructureInv, NEW t \in Thread, RootStep(t), rooted, Borrow(t)
    PROVE  /\ Effects(t) /\ \E i \in 1 .. Len(kids') : key(t) \in ToSet(keys'[kids'[i]])
<1> DEFINE n == slot[t]
           c == child[t]
           l == nb[t]
           r == Inserted(t)
<1>1. pc[t] = "borrow" /\ pc[t] \in AtRoot
  BY DEF Borrow, AtRoot
<1>2. /\ AtSlot(t) /\ key(t) \in Key /\ c \in Bin /\ n \in 1 .. Len(kids) /\ c = kids[n]
      /\ keys \in [Bin -> Seq(Key)]
      /\ \A i \in 1 .. Len(kids) : kids[i] \in Bin
      /\ \A i, j \in 1 .. Len(kids) : kids[i] = kids[j] => i = j
      /\ Len(kids) = Len(rkeys) + 1 /\ Len(rkeys) \in Nat
  BY <1>1, AtTheSlot
<1>3. ~In(c, key(t)) /\ n > 1 /\ l = kids[n - 1]
  BY <1>1, <1>2 DEF AtSlot
<1>4. n - 1 \in 1 .. Len(kids) /\ l \in Bin /\ l # c
  <2>1. n - 1 \in 1 .. Len(kids) /\ n - 1 # n
    BY <1>2, <1>3
  <2>2. QED
    BY <1>2, <1>3, <2>1
<1>5. /\ UNCHANGED kids /\ keys' = [keys EXCEPT ![l] = Append(@, r[1]), ![c] = Tail(r)]
      /\ Bump(IF r[1] = key(t) THEN {Root, l} ELSE {Root, c, l})
      /\ \A s \in Thread : Searching(s) => moved'[s]
  BY DEF Borrow, MovedLeft
<1>6. /\ ToSet(keys[c]) \cup {key(t)} \subseteq ToSet(r)
      /\ r \in Seq(Key) /\ r # <<>> /\ r[1] \in Key
  <2>1. keys[c] \in Seq(Key) /\ Slot(t) \in 1 .. Len(keys[c]) + 1
    BY <1>2, LowerBounds DEF Slot
  <2>2. r \in Seq(Key) /\ Len(r) = Len(keys[c]) + 1 /\ ToSet(keys[c]) \cup {key(t)} \subseteq ToSet(r)
    BY <1>2, <2>1, InsertAtIs, InsertAtHolds DEF Inserted
  <2> HIDE DEF r
  <2>3. r # <<>> /\ 1 \in 1 .. Len(r)
    BY <2>1, <2>2
  <2>4. QED
    BY <2>2, <2>3
<1> HIDE DEF n, c, l, r
<1>7. /\ keys'[c] = Tail(r) /\ keys'[l] = Append(keys[l], r[1])
      /\ \A b \in Bin : b # c /\ b # l => keys'[b] = keys[b]
  BY <1>2, <1>4, <1>5
<1>8. ToSet(keys[l]) \cup {r[1]} \subseteq ToSet(keys'[l])
  BY <1>2, <1>4, <1>6, <1>7, AppendHolds
<1>9. ToSet(r) \subseteq ToSet(keys'[c]) \cup {r[1]}
  BY <1>6, <1>7, TailHolds
<1>10. \A b, k : (In(b, k) <=> k \in ToSet(keys[b])) /\ (In(b, k)' <=> k \in ToSet(keys'[b]))
  BY DEF In, ToSet
<1>11. ToSet(keys[c]) \subseteq ToSet(keys'[c]) \cup ToSet(keys'[l])
  BY <1>6, <1>8, <1>9
<1>12. \A b \in Bin : b # c => ToSet(keys[b]) \subseteq ToSet(keys'[b])
  BY <1>7, <1>8
<1>13. \A k : Held(k) => Held(k)'
  <2> SUFFICES ASSUME NEW k, Held(k) PROVE Held(k)'
    OBVIOUS
  <2>1. PICK i \in 1 .. Len(kids) : k \in ToSet(keys[kids[i]])
    BY InIs DEF Held
  <2>2. \E j \in 1 .. Len(kids) : k \in ToSet(keys'[kids[j]])
    <3>1. CASE kids[i] = c
      BY <1>2, <1>3, <1>4, <1>11, <2>1, <3>1
    <3>2. CASE kids[i] # c
      BY <1>2, <1>12, <2>1, <3>2
    <3>3. QED
      BY <3>1, <3>2
  <2>3. QED
    BY <1>5, <2>2 DEF Held, In, ToSet
<1>14. \A a \in Bin \cup {Root} : ver[a] <= ver'[a]
  BY <1>5, BumpGrows
<1>15. ver'[Root] # ver[Root]
  <2> DEFINE S == IF r[1] = key(t) THEN {Root, l} ELSE {Root, c, l}
  <2>1. Bump(S) /\ Root \in S
    BY <1>5
  <2> HIDE DEF S
  <2>2. QED
    BY <2>1, BumpGrows
<1>16. ASSUME ver'[c] = ver[c] PROVE ToSet(keys[c]) \subseteq ToSet(keys'[c])
  <2>1. r[1] = key(t)
    <3> SUFFICES ASSUME r[1] # key(t) PROVE FALSE
      OBVIOUS
    <3> DEFINE S == {Root, c, l}
    <3>1. Bump(S) /\ c \in S
      BY <1>5
    <3> HIDE DEF S
    <3>2. QED
      BY <1>2, <1>16, <3>1, BumpGrows
  <2>2. QED
    BY <1>3, <1>6, <1>9, <1>10, <2>1
<1>17. HistoryStays(t)
  BY HistoryKept
<1>18. Effects(t)
  <2>1. \A s \in Thread : ~moved'[s] => pc[s] # "rchild" /\ pc[s] # "cver" /\ pc[s] \notin AtArray
    BY <1>5 DEF Searching, AtArray
  <2>2. \A b \in Bin : ver'[b] = ver[b] => \A k : In(b, k) => In(b, k)'
    BY <1>10, <1>12, <1>16
  <2>3. QED
    BY <1>5, <1>13, <1>14, <1>15, <1>17, <2>1, <2>2 DEF Effects, HistoryStays
<1>19. key(t) \in ToSet(keys'[c]) \cup ToSet(keys'[l])
  BY <1>6, <1>8, <1>9
<1>20. QED
  BY <1>2, <1>3, <1>4, <1>5, <1>18, <1>19

LEMMA SplitEffects ==
    ASSUME IInv, StructureInv, NEW t \in Thread, RootStep(t), rooted, Split(t)
    PROVE  /\ Effects(t) /\ \E i \in 1 .. Len(kids') : key(t) \in ToSet(keys'[kids'[i]])
<1> DEFINE n == slot[t]
           c == child[t]
           b == nb[t]
           lo == Halves(t)[1]
           hi == Halves(t)[2]
           m == Len(rkeys)
<1>1. pc[t] = "split" /\ pc[t] \in AtRoot
  BY DEF Split, AtRoot
<1>2. /\ AtSlot(t) /\ key(t) \in Key /\ c \in Bin /\ n \in 1 .. m + 1 /\ c = kids[n]
      /\ \A i \in 1 .. m + 1 : kids[i] \in Bin
      /\ Len(kids) = m + 1 /\ m \in Nat
  BY <1>1, AtTheSlot
<1>3. \A i \in 1 .. m + 1 : kids[i] # b
  BY <1>1, <1>2 DEF AtSlot
<1>4. /\ Bump({Root, c, b})
      /\ \A s \in Thread : pc[s] = "rchild" \/ (pc[s] = "cver" /\ child[s] = c) => moved'[s]
  BY DEF Split, Shifted
<1>5. ToSet(keys[c]) \cup {key(t)} \subseteq ToSet(lo) \cup ToSet(hi)
  BY <1>1, HalvesHold
<1>6. /\ Len(kids') = m + 2
      /\ \A i \in 1 .. m + 2 :
            kids'[i] = IF i < n + 1 THEN kids[i] ELSE IF i = n + 1 THEN b ELSE kids[i - 1]
  BY SplitShape
<1>7. \A i \in 1 .. m + 1 :
        rkeys'[i] = IF i < n THEN rkeys[i] ELSE IF i = n THEN Last(lo) ELSE rkeys[i - 1]
  BY SplitShape
<1>8. keys'[c] = lo /\ keys'[b] = hi /\ (\A a \in Bin : a # c /\ a # b => keys'[a] = keys[a])
  BY SplitShape
<1> HIDE DEF n, c, b, lo, hi, m
<1>9. \A a, k : (In(a, k) <=> k \in ToSet(keys[a])) /\ (In(a, k)' <=> k \in ToSet(keys'[a]))
  BY DEF In, ToSet
<1>10. ToSet(keys[c]) \subseteq ToSet(keys'[c]) \cup ToSet(keys'[b])
  BY <1>5, <1>8
<1>11. \A a \in Bin : a # c /\ a # b => ToSet(keys[a]) \subseteq ToSet(keys'[a])
  BY <1>8
<1>12. /\ n \in 1 .. m + 2 /\ n + 1 \in 1 .. m + 2 /\ kids'[n] = c /\ kids'[n + 1] = b
  <2>1. n \in 1 .. m + 2 /\ n < n + 1 /\ n + 1 \in 1 .. m + 2 /\ ~(n + 1 < n + 1)
    BY <1>2
  <2>2. QED
    BY <1>2, <1>6, <2>1
\* An array keeps its place, or moves one up together with its separator.
<1>13. ASSUME NEW i \in 1 .. m + 1
       PROVE  \E j \in 1 .. m + 2 :
                /\ kids'[j] = kids[i]
                /\ j > 1 => i > 1 /\ rkeys'[j - 1] = rkeys[i - 1]
  <2>1. CASE i <= n
    <3>1. i \in 1 .. m + 2 /\ i < n + 1
      BY <1>2, <2>1
    <3>2. kids'[i] = kids[i]
      BY <1>6, <3>1
    <3>3. i > 1 => i - 1 \in 1 .. m + 1 /\ i - 1 < n
      BY <1>2, <2>1
    <3>4. i > 1 => rkeys'[i - 1] = rkeys[i - 1]
      BY <1>7, <3>3
    <3>5. QED
      BY <3>1, <3>2, <3>4
  <2>2. CASE ~(i <= n)
    <3> DEFINE j == i + 1
    <3>1. /\ j \in 1 .. m + 2 /\ ~(j < n + 1) /\ j # n + 1 /\ j - 1 = i
          /\ i > 1 /\ ~(i < n) /\ i # n
      BY <1>2, <2>2
    <3> HIDE DEF j
    <3>2. kids'[j] = kids[i]
      BY <1>6, <3>1
    <3>3. rkeys'[j - 1] = rkeys[i - 1]
      BY <1>7, <3>1
    <3>4. QED
      BY <3>1, <3>2, <3>3
  <2>3. QED
    BY <2>1, <2>2
<1>14. \A k : Held(k) => Held(k)'
  <2> SUFFICES ASSUME NEW k, Held(k) PROVE Held(k)'
    OBVIOUS
  <2>1. PICK i \in 1 .. m + 1 : k \in ToSet(keys[kids[i]])
    BY <1>2, InIs DEF Held
  <2>2. PICK j \in 1 .. m + 2 : kids'[j] = kids[i]
    BY <1>13
  <2>3. \E x \in 1 .. m + 2 : k \in ToSet(keys'[kids'[x]])
    <3>1. CASE kids[i] = c
      BY <1>10, <1>12, <2>1, <3>1
    <3>2. CASE kids[i] # c
      BY <1>2, <1>3, <1>11, <2>1, <2>2, <3>2
    <3>3. QED
      BY <3>1, <3>2
  <2>4. QED
    BY <1>6, <2>3 DEF Held, In, ToSet
<1>15. \A a \in Bin, k \in Key : Right(a, k) => Right(a, k)'
  <2> SUFFICES ASSUME NEW a \in Bin, NEW k \in Key, Right(a, k) PROVE Right(a, k)'
    OBVIOUS
  <2>1. PICK i \in 1 .. m + 1 : a = kids[i] /\ (i > 1 => rkeys[i - 1] < k)
    BY <1>2 DEF Right
  <2>2. \E j \in 1 .. m + 2 : a = kids'[j] /\ (j > 1 => rkeys'[j - 1] < k)
    BY <1>13, <2>1
  <2>3. QED
    BY <1>6, <2>2 DEF Right
<1>16. \A x \in Bin \cup {Root} : ver[x] <= ver'[x] /\ (x \in {Root, c, b} => ver'[x] # ver[x])
  BY <1>4, BumpGrows
<1>17. HistoryStays(t)
  BY HistoryKept
<1>18. Effects(t)
  <2>1. \A a \in Bin : (\E i \in 1 .. Len(kids) : a = kids[i]) =>
            /\ \E i \in 1 .. Len(kids') : a = kids'[i]
            /\ ver'[a] = ver[a] => \A k : In(a, k) => In(a, k)'
    <3> SUFFICES ASSUME NEW a \in Bin, NEW i \in 1 .. m + 1, a = kids[i]
                 PROVE  /\ \E j \in 1 .. Len(kids') : a = kids'[j]
                        /\ ver'[a] = ver[a] => \A k : In(a, k) => In(a, k)'
      BY <1>2
    <3>1. \E j \in 1 .. Len(kids') : a = kids'[j]
      BY <1>6, <1>13
    <3>2. ver'[a] = ver[a] => a # c /\ a # b
      BY <1>16
    <3>3. QED
      BY <1>9, <1>11, <3>1, <3>2
  <2>2. \A s \in Thread, a \in Bin : ~moved'[s] /\ pc[s] = "cver" /\ a = child[s]
            /\ (\E i \in 1 .. Len(kids) : a = kids[i]) => \A k : In(a, k) => In(a, k)'
    BY <1>2, <1>3, <1>4, <1>9, <1>11
  <2>3. ver'[Root] # ver[Root] /\ \A x \in Bin \cup {Root} : ver[x] <= ver'[x]
    BY <1>16
  <2>4. \A s \in Thread : ~moved'[s] => pc[s] # "rchild"
    BY <1>4
  <2>5. QED
    BY <1>14, <1>15, <1>17, <2>1, <2>2, <2>3, <2>4 DEF Effects, HistoryStays
<1>19. key(t) \in ToSet(keys'[c]) \cup ToSet(keys'[b])
  BY <1>5, <1>8
<1>20. QED
  BY <1>6, <1>12, <1>18, <1>19

LEMMA PutAnswers ==
    ASSUME IInv, StructureInv, rooted, NEW t \in Thread, Answers(t), RootStep(t),
           PutInChild(t) \/ Borrow(t) \/ Split(t)
    PROVE  Answers(t)'
<1>1. call[t].op = "insert"
  <2>1. pc[t] \notin FindLabels \cup {"idle", "return"}
    BY DEF PutInChild, Borrow, Split, FindLabels
  <2>2. QED
    BY <2>1 DEF Answers, OpOf
<1>2. UNCHANGED call
  BY DEF PutInChild, Borrow, Split
<1>3. pc'[t] = "unlock"
  BY DEF PutInChild, Borrow, Split, Release, GoTo, IInv, TypeOK
<1>4. \E i \in 1 .. Len(kids') : key(t) \in ToSet(keys'[kids'[i]])
  BY PutInChildEffects, BorrowEffects, SplitEffects
<1>5. Held(key(t))'
  BY <1>2, <1>4 DEF Held, In, key, ToSet
<1>6. pc'[t] \notin FindLabels \cup {"idle"}
  BY <1>3 DEF FindLabels
<1>7. QED
  BY <1>1, <1>2, <1>5, <1>6, InsertAnswers

-----------------------------------------------------------------------------
LEMMA InitAnswers ==
    ASSUME Init
    PROVE  AnswersInv
<1>1. pc = [t \in Thread |-> "idle"] /\ res = [t \in Thread |-> "none"]
      /\ call = [t \in Thread |-> [op |-> "none", key |-> 0]]
  BY DEF Init
<1>2. QED
  BY <1>1 DEF AnswersInv, Answers, OpOf, AnswerKnown, AtKid, Finding, FindLabels, AtArray

\* With a root from the start no insert takes the steps of one that found none.
LEMMA StepsBelow ==
    ASSUME IInv, StructureInv, rooted, NEW t \in Thread, Call(t) \/ Step(t)
    PROVE  /\ Quiet(t) \/ PutInChild(t) \/ Borrow(t) \/ NewChild(t) \/ Split(t)
           /\ Hop(t) => pc[t] = "hop"
<1>1. pc[t] \notin Alone
  BY DEF IInv, RootInv
<1>2. ~(NewHead(t) \/ PublishHead(t) \/ ReadVersion(t) \/ CheckVersion(t) \/ PutAlone(t) \/ SkipSeparator(t)
        \/ WantSeparator(t) \/ SetSeparator(t) \/ GiveUp(t) \/ GiveBack(t)
        \/ SeeNoRoot(t) \/ StoreRoot(t) \/ SplitAlone(t))
  BY <1>1
     DEF NewHead, PublishHead, ReadVersion, CheckVersion, PutAlone, SkipSeparator, WantSeparator,
         SetSeparator, GiveUp, GiveBack, SeeNoRoot, StoreRoot, SplitAlone, Alone
<1>3. Hop(t) => pc[t] = "hop"
  BY <1>1 DEF Hop, Alone
<1>4. ~Overrun(t)
  BY NothingStale DEF Overrun
<1>5. QED
  BY <1>2, <1>3, <1>4, LookAgainIs DEF Step, Quiet

LEMMA StepEffects ==
    ASSUME IInv, StructureInv, rooted, NEW t \in Thread, Call(t) \/ Step(t)
    PROVE  Effects(t)
<1>1. RootStep(t)
  BY AnyStep
<1>2. Quiet(t) \/ PutInChild(t) \/ Borrow(t) \/ NewChild(t) \/ Split(t)
  BY StepsBelow
<1>3. CASE Quiet(t)
  <2>1. UNCHANGED <<keys, rkeys, kids, ver>> /\ HistoryStays(t)
    BY <1>3, QuietChangesNothing, HistoryKept
  <2>2. QED
    BY <2>1, QuietEffects
<1>4. QED
  BY <1>1, <1>2, <1>3, NewChildEffects, PutInChildEffects, BorrowEffects, SplitEffects

LEMMA StepAnswers ==
    ASSUME IInv, StructureInv, rooted, AnswersInv, NEW t \in Thread, Call(t) \/ Step(t)
    PROVE  \A s \in Thread : Answers(s)'
<1>1. TypeOK' /\ Keeps(t) /\ RootStep(t)
  BY AnyStep
<1>2. Below /\ HasRoot /\ \A s \in Thread : Answers(s)
  BY DEF StructureInv, IInv, RootInv, AnswersInv
<1>3. Quiet(t) \/ PutInChild(t) \/ Borrow(t) \/ NewChild(t) \/ Split(t)
  BY StepsBelow
<1>4. Effects(t)
  BY StepEffects
<1>5. ASSUME NEW s \in Thread \ {t} PROVE Answers(s)'
  BY <1>1, <1>2, <1>4, OthersAnswer
<1>6. Hop(t) => pc[t] = "hop"
  BY StepsBelow
<1>7. Answers(t)'
  <2>1. CASE PutInChild(t) \/ Borrow(t) \/ Split(t)
    BY <1>1, <1>2, <2>1, PutAnswers
  <2>2. CASE Unlock(t) \/ InsertStart(t) \/ LockRoot(t) \/ LockChild(t) \/ Duplicate(t)
             \/ ChooseLeft(t) \/ LockLeft(t) \/ NeedRetrain(t) \/ NewChild(t)
    BY <1>1, <1>2, <2>2, InsertWaits
  <2>3. CASE FindStart(t) \/ ReadRootVersion(t) \/ ReadRootSlot(t) \/ CheckRoot(t)
    BY <1>2, <2>3, RootSteps
  <2>4. CASE Call(t) \/ Return(t)
    BY <1>2, <2>4, CallAnswers, ReturnAnswers
  <2>5. CASE ReadChild(t) \/ ReadChildVersion(t) \/ ReadKeys(t) \/ CheckChild(t) \/ Hop(t)
    BY <1>2, <1>6, <2>5, ReadChildAnswers, ReadChildVersionAnswers, ReadKeysAnswers, CheckChildAnswers, HopAnswers
  <2>6. QED
    BY <1>3, <2>1, <2>2, <2>3, <2>4, <2>5 DEF Quiet
<1>8. QED
  BY <1>5, <1>7

LEMMA NextAnswers ==
    ASSUME IInv, StructureInv, AnswersInv, [Next]_vars
    PROVE  AnswersInv'
<1>1. ASSUME NEW t \in Thread, Call(t) \/ Step(t) PROVE AnswersInv'
  <2>1. rooted' = rooted
    BY <1>1, AnyStep DEF RootStep
  <2>2. CASE rooted
    <3>1. \A s \in Thread : Answers(s)'
      BY <1>1, <2>2, StepAnswers
    <3>2. QED
      BY <3>1 DEF AnswersInv
  <2>3. CASE ~rooted
    BY <2>1, <2>3 DEF AnswersInv
  <2>4. QED
    BY <2>2, <2>3
<1>2. CASE UNCHANGED vars
  <2>1. UNCHANGED <<keys, rkeys, kids, ver, pc, call, child, slot, known, res, before, moved, rooted>>
    BY <1>2 DEF vars, shared, bins, root, local, history
  <2>2. \A t \in Thread : /\ Held(key(t))' <=> Held(key(t))
                          /\ Lower(rkeys, key(t))' = Lower(rkeys, key(t))
                          /\ In(child[t], key(t))' <=> In(child[t], key(t))
                          /\ Right(child[t], key(t))' <=> Right(child[t], key(t))
    BY <2>1 DEF Held, In, Right, key
  <2>3. \A t \in Thread : FindKnows(t) => FindKnows(t)'
    BY <2>1, <2>2 DEF FindKnows
  <2>4. \A t \in Thread : Answers(t) => Answers(t)'
    BY <2>1, <2>2, <2>3 DEF Answers, OpOf, AnswerKnown, AtKid, Finding
  <2>5. QED
    BY <2>1, <2>4 DEF AnswersInv
<1>3. QED
  BY <1>1, <1>2 DEF Next

\* The invariant holds in every state of every run.
THEOREM AnswersInvariance == Spec => []AnswersInv
<1>1. Init => AnswersInv
  BY InitAnswers
<1>2. IInv /\ StructureInv /\ AnswersInv /\ [Next]_vars => AnswersInv'
  BY NextAnswers
<1>3. QED
  BY <1>1, <1>2, Invariance, StructureInvariance, PTL DEF Spec

\* A find that takes no lock answers as if it had: true only of a stored key, and
\* false of a key stored before the call only if keys moved to the left, or a split
\* fell between its check of the root and its reading a version.  An insert that
\* answers ok, or failed, leaves its key stored.  For any number of threads and any
\* capacities, below a root.
THEOREM FindsAndInsertsAreTrue == Spec => []AnswersAreTrue
<1>1. IInv /\ StructureInv /\ AnswersInv => AnswersAreTrue
  <2> SUFFICES ASSUME IInv, StructureInv, AnswersInv, rooted, NEW t \in Thread, pc[t] = "return"
               PROVE  IF call[t].op = "find" THEN FindIsTrue(t) ELSE InsertIsTrue(t)
    BY DEF AnswersAreTrue
  <2>1. Below /\ HasRoot /\ Answers(t)
    BY DEF StructureInv, IInv, RootInv, AnswersInv
  <2>2. key(t) \in Stored <=> Held(key(t))
    BY <2>1, StoredIs
  <2>3. res[t] = "ok" \/ (call[t].op # "find" /\ res[t] = "failed") => key(t) \in Stored
    BY <2>1, <2>2 DEF Answers, AnswerKnown
  <2>4. call[t].op = "find" /\ before[t] /\ ~moved[t] => res[t] = "ok"
    BY <2>1 DEF Answers, Finding, FindKnows
  <2>5. QED
    BY <2>3, <2>4 DEF FindIsTrue, InsertIsTrue
<1>2. QED
  BY <1>1, Invariance, StructureInvariance, AnswersInvariance, PTL

StoredIsHeld == rooted => \A k : k \in Stored <=> Held(k)

\* Below a root no step of any thread loses a key: what is in the chain stays in
\* it, wherever inserts move it.
THEOREM NothingIsLost == Spec => [][rooted => Stored \subseteq Stored']_vars
<1>1. IInv /\ StructureInv => StoredIsHeld
  <2> SUFFICES ASSUME IInv, StructureInv, rooted, NEW k PROVE k \in Stored <=> Held(k)
    BY DEF StoredIsHeld
  <2>1. Below /\ HasRoot
    BY DEF StructureInv, IInv, RootInv
  <2>2. QED
    BY <2>1, StoredIs
<1>2. IInv /\ StructureInv /\ StoredIsHeld /\ StoredIsHeld' /\ [Next]_vars
        => [rooted => Stored \subseteq Stored']_vars
  <2> SUFFICES ASSUME IInv, StructureInv, StoredIsHeld, StoredIsHeld', rooted,
                      NEW t \in Thread, Call(t) \/ Step(t), NEW k \in Stored
               PROVE  k \in Stored'
    BY DEF Next
  <2>1. Held(k)
    BY DEF StoredIsHeld
  <2>2. k \in Key
    <3>1. PICK i \in 1 .. Len(kids) : k \in ToSet(keys[kids[i]])
      BY <2>1, InIs DEF Held
    <3>2. keys[kids[i]] \in Seq(Key)
      BY KidKeys
    <3>3. QED
      BY <3>1, <3>2 DEF ToSet
  <2>3. Held(k)'
    BY <2>1, <2>2, StepEffects DEF Effects
  <2>4. rooted'
    BY AnyStep DEF RootStep
  <2>5. QED
    BY <2>3, <2>4 DEF StoredIsHeld
<1>3. QED
  BY <1>1, <1>2, Invariance, StructureInvariance, PTL DEF Spec

-----------------------------------------------------------------------------
(* The chain, with a root and without. *)

\* A set of arrays with the first one in it, and whatever follows one of its own.
Linked(S) ==
    /\ head \in Bin => head \in S
    /\ \A b \in S : next[b] \in Bin => next[b] \in S

\* The chain is the least of these.
ChainFacts ==
    /\ Chain \subseteq Bin /\ Linked(Chain)
    /\ \A S \in SUBSET Bin : Linked(S) => Chain \subseteq S

\* The equation of the recursive function Reach holds of it, since a walk through
\* the sets of arrays meets it.
LEMMA ReachSteps ==
    /\ Cardinality(Bin) \in Nat
    /\ Reach[0] = {head} \cap Bin
    /\ \A n \in 1 .. Cardinality(Bin) :
        Reach[n] = Reach[n - 1] \cup ({next[b] : b \in Reach[n - 1]} \cap Bin)
<1>c. PICK c : c = Cardinality(Bin)
  OBVIOUS
<1>1. c \in Nat
  BY <1>c, FS_CardinalityType, NameAssumption DEF NameAssumption
<1> DEFINE M == SUBSET Bin
           top == {head} \cap Bin
           f == [S \in M |-> S \cup ({next[b] : b \in S} \cap Bin)]
           Next1(h) == [n \in 0 .. c |->
                            IF n = 0 THEN {head} \cap Bin
                            ELSE h[n - 1] \cup ({next[b] : b \in h[n - 1]} \cap Bin)]
<1>2. Into(M, f) /\ top \in M /\ \A S \in M : f[S] = S \cup ({next[b] : b \in S} \cap Bin)
  BY DEF Into
<1> HIDE DEF M, f
<1>3. PICK g : IsWalk(M, f, c, g) /\ g[0] = top
  BY <1>1, <1>2, Walk
<1>4. ASSUME NEW n \in 0 .. c PROVE g[n] = Next1(g)[n]
  <2>1. CASE n = 0
    BY <1>3, <2>1
  <2>2. CASE n # 0
    <3>m. PICK m : m = n - 1
      OBVIOUS
    <3>1. n \in 1 .. c /\ m \in 0 .. c
      BY <1>1, <2>2, <3>m
    <3>2. g[n] = f[g[m]] /\ g[m] \in M
      BY <1>3, <3>1, <3>m DEF IsWalk
    <3>3. g[n] = g[m] \cup ({next[b] : b \in g[m]} \cap Bin)
      BY <1>2, <3>2
    <3>4. QED
      BY <2>2, <3>3, <3>m
  <2>3. QED
    BY <2>1, <2>2
<1>5. g = Next1(g)
  <2>1. g = [n \in 0 .. c |-> g[n]]
    BY <1>3 DEF IsWalk
  <2>2. Next1(g) = [n \in 0 .. c |-> Next1(g)[n]]
    OBVIOUS
  <2> HIDE DEF Next1
  <2>3. QED
    BY <1>4, <2>1, <2>2
<1>6. Reach = CHOOSE h : h = Next1(h)
  BY <1>c DEF Reach
<1>7. Reach = Next1(Reach)
  <2> HIDE DEF Next1
  <2>1. \E h : h = Next1(h)
    BY <1>5
  <2> USE DEF Next1
  <2>2. QED
    BY <1>6, <2>1
<1>8. \A n \in 0 .. c : Reach[n] = Next1(Reach)[n]
  <2> HIDE DEF Next1
  <2>1. QED
    BY <1>7
<1>9. 0 \in 0 .. c /\ \A n \in 1 .. c : n \in 0 .. c /\ n # 0
  BY <1>1
<1>10. QED
  BY <1>1, <1>8, <1>9, <1>c

\* Within as many steps as there are addresses the walk has all it can come to.
LEMMA ChainIs == ChainFacts
<1> DEFINE Closed(R) == \A b \in R : next[b] \in Bin => next[b] \in R
           From(R) == {next[b] : b \in R} \cap Bin
<1>c. PICK c : c = Cardinality(Bin)
  OBVIOUS
<1>w. PICK w : w = Reach
  OBVIOUS
<1>0. c \in Nat /\ IsFiniteSet(Bin)
  BY <1>c, ReachSteps, NameAssumption DEF NameAssumption
<1>1. /\ w[0] = {head} \cap Bin
      /\ \A n \in 1 .. c : w[n] = w[n - 1] \cup From(w[n - 1])
  BY <1>c, <1>w, ReachSteps
<1>2. Chain = w[c]
  BY <1>c, <1>w DEF Chain
<1> DEFINE Good(n) == /\ w[n] \in SUBSET Bin /\ w[0] \subseteq w[n]
                      /\ Closed(w[n]) \/ Cardinality(w[n]) >= n + 1
           T == {n \in 0 .. c : Good(n)}
<1>3. 0 \in T
  <2>1. CASE head \in Bin
    <3>1. w[0] = {head}
      BY <1>1, <2>1
    <3>2. Cardinality(w[0]) = 1
      BY <3>1, FS_Singleton
    <3> HIDE DEF Closed
    <3>3. QED
      BY <1>0, <1>1, <3>2
  <2>2. CASE head \notin Bin
    <3>1. w[0] = {}
      BY <1>1, <2>2
    <3>2. Closed(w[0])
      BY <3>1
    <3> HIDE DEF Closed
    <3>3. QED
      BY <1>0, <3>1, <3>2
  <2>3. QED
    BY <2>1, <2>2
<1>4. ASSUME NEW n \in 0 .. c, n < c, n \in T PROVE n + 1 \in T
  <2>m. PICK m : m = n + 1
    OBVIOUS
  <2>1. m \in 1 .. c /\ m - 1 = n /\ m \in 0 .. c /\ n \in Nat
    BY <1>0, <1>4, <2>m
  <2>r. PICK R : R = w[n]
    OBVIOUS
  <2>q. PICK Q : Q = w[m]
    OBVIOUS
  <2>2. Q = R \cup From(R)
    BY <1>1, <2>1, <2>r, <2>q
  <2>3. R \in SUBSET Bin /\ w[0] \subseteq R /\ (Closed(R) \/ Cardinality(R) >= n + 1)
    BY <1>4, <2>r
  <2>4. Q \in SUBSET Bin /\ w[0] \subseteq Q
    BY <2>2, <2>3
  <2>5. CASE Closed(R)
    <3>1. Q = R
      BY <2>2, <2>5
    <3>2. Closed(Q)
      BY <2>5, <3>1
    <3> HIDE DEF Closed
    <3>3. QED
      BY <2>1, <2>4, <2>q, <2>m, <3>2
  <2>6. CASE ~Closed(R)
    <3>1. PICK x \in Bin : x \in Q /\ x \notin R
      BY <2>2, <2>6
    <3> HIDE DEF Closed, From
    <3>2. IsFiniteSet(R) /\ IsFiniteSet(Q)
      BY <1>0, <2>3, <2>4, FS_Subset
    <3>3. IsFiniteSet(R \cup {x}) /\ Cardinality(R \cup {x}) = Cardinality(R) + 1
      BY <3>1, <3>2, FS_AddElement
    <3>4. R \cup {x} \subseteq Q
      BY <2>2, <3>1
    <3>5. Cardinality(R \cup {x}) <= Cardinality(Q)
      BY <3>2, <3>4, FS_Subset
    <3>6. Cardinality(R) \in Nat /\ Cardinality(Q) \in Nat
      BY <3>2, FS_CardinalityType
    <3>7. Cardinality(R) >= n + 1
      BY <2>3, <2>6
    <3>8. Cardinality(Q) >= m + 1
      BY <2>1, <2>m, <3>3, <3>5, <3>6, <3>7
    <3>9. QED
      BY <2>1, <2>4, <2>q, <2>m, <3>8
  <2>7. QED
    BY <2>5, <2>6
<1>5. c \in T
  <2>1. T \in SUBSET (0 .. c)
    OBVIOUS
  <2> HIDE DEF T
  <2>2. T = 0 .. c
    BY <1>0, <1>3, <1>4, <2>1, UpTo
  <2>3. QED
    BY <1>0, <2>2
<1>6. w[c] \in SUBSET Bin /\ w[0] \subseteq w[c] /\ (Closed(w[c]) \/ Cardinality(w[c]) >= c + 1)
  BY <1>5
<1>7. Closed(w[c])
  <2> HIDE DEF Closed
  <2>1. Cardinality(w[c]) <= c /\ Cardinality(w[c]) \in Nat
    BY <1>0, <1>6, <1>c, FS_Subset, FS_CardinalityType
  <2>2. QED
    BY <1>0, <1>6, <2>1
<1>8. Linked(w[c])
  <2>1. head \in Bin => head \in w[0]
    BY <1>1
  <2>2. QED
    BY <1>6, <1>7, <2>1 DEF Linked
<1>9. ASSUME NEW S \in SUBSET Bin, Linked(S) PROVE w[c] \subseteq S
  <2> DEFINE U == {n \in 0 .. c : w[n] \subseteq S}
  <2>1. 0 \in U /\ U \in SUBSET (0 .. c)
    BY <1>0, <1>1, <1>9 DEF Linked
  <2>2. ASSUME NEW n \in 0 .. c, n < c, n \in U PROVE n + 1 \in U
    <3>m. PICK m : m = n + 1
      OBVIOUS
    <3>1. m \in 1 .. c /\ m - 1 = n /\ m \in 0 .. c
      BY <1>0, <2>2, <3>m
    <3>2. w[m] = w[n] \cup From(w[n])
      BY <1>1, <3>1
    <3>3. w[n] \subseteq S
      BY <2>2
    <3>4. From(w[n]) \subseteq S
      BY <1>9, <3>3 DEF Linked
    <3>5. w[m] \subseteq S
      BY <3>2, <3>3, <3>4
    <3>6. QED
      BY <3>1, <3>5, <3>m
  <2> HIDE DEF U
  <2>3. c \in U
    <3>1. U = 0 .. c
      BY <1>0, <2>1, <2>2, UpTo
    <3>2. QED
      BY <1>0, <3>1
  <2>4. QED
    BY <2>3 DEF U
<1>10. QED
  BY <1>2, <1>6, <1>8, <1>9 DEF ChainFacts

\* The upper half of an array that becomes the first root's second child is
\* linked a step after the root is published.
Pending(b) == \E s \in Thread : pc[s] = "halve" /\ b = nb[s]
Placed(b)  == b \in Chain \/ Pending(b)
KidsPlaced == \A i \in 1 .. Len(kids) : Placed(kids[i])

\* Where an insert stands in the chain, and where it may have to wait.
InChain == {"put", "wprev", "borrow", "split", "sver", "slock", "scheck", "shop", "sput", "ssplit",
            "grow", "raise", "halve"}
Knowing(t) ==
    /\ pc[t] \in InChain => child[t] \in Chain
    /\ pc[t] = "wchild" => Placed(child[t])
    /\ pc[t] = "wprev" => Placed(nb[t])
    /\ pc[t] = "borrow" => nb[t] \in Chain

\* A new array has what it is to take over until it is linked.
Halved(t) ==
    pc[t] \in {"split", "grow", "raise", "halve"} =>
        /\ keys[nb[t]] = SubSeq(keys[child[t]], Mid(child[t]) + 1, Len(keys[child[t]]))
        /\ next[nb[t]] = next[child[t]]

LinkInv ==
    /\ \A t \in Thread : Halved(t)
    /\ ~lost =>
        /\ KidsPlaced
        /\ \A t \in Thread : Knowing(t)

\* What a step does for the others: the chain only grows, what waits to be linked
\* waits on or is, and whoever owns an array alone changes its link.
NextStays(t) == \A b \in live \ Owns(t) : next'[b] = next[b]
Settles(t) ==
    /\ Chain \subseteq Chain'
    /\ \A b : Pending(b) => Placed(b)'
    /\ KidsPlaced'
    /\ Knowing(t)'
Chains(t) ==
    /\ lost => lost'
    /\ ~lost' => Settles(t)
    /\ NextStays(t) /\ Halved(t)'

\* A step that does this keeps the invariant.
LEMMA LinksKept ==
    ASSUME IInv, LinkInv, NEW t \in Thread, Keeps(t), Chains(t)
    PROVE  LinkInv'
<1>1. \A s \in Thread \ {t} : pc'[s] = pc[s] /\ child'[s] = child[s] /\ nb'[s] = nb[s]
  BY DEF Keeps, OthersStay
<1>2. ASSUME NEW s \in Thread \ {t} PROVE Halved(s)'
  <2> SUFFICES ASSUME pc[s] \in {"split", "grow", "raise", "halve"}
               PROVE  /\ keys'[nb[s]] = SubSeq(keys'[child[s]], Mid(child[s])' + 1, Len(keys'[child[s]]))
                      /\ next'[nb[s]] = next'[child[s]]
    BY <1>1 DEF Halved, Mid
  <2>1. Halved(s) /\ Owns(s) \cap Owns(t) = {}
    BY DEF LinkInv, IInv, LockInv
  <2>2. child[s] \in Owns(s) /\ nb[s] \in Owns(s)
    BY DEF Owns, Changes
  <2>3. child[s] \in live /\ nb[s] \in live
    BY Knows
  <2>4. /\ keys'[child[s]] = keys[child[s]] /\ keys'[nb[s]] = keys[nb[s]]
        /\ next'[child[s]] = next[child[s]] /\ next'[nb[s]] = next[nb[s]]
    BY <2>1, <2>2, <2>3 DEF Keeps, ArraysStay, Chains, NextStays
  <2>5. Mid(child[s])' = Mid(child[s])
    <3>1. Mid(child[s])' = Len(keys'[child'[s]]) \div 2
      BY DEF Mid
    <3>2. QED
      BY <1>1, <2>4, <3>1 DEF Mid
  <2>6. /\ keys[nb[s]] = SubSeq(keys[child[s]], Mid(child[s]) + 1, Len(keys[child[s]]))
        /\ next[nb[s]] = next[child[s]]
    BY <2>1 DEF Halved
  <2>7. QED
    BY <2>4, <2>5, <2>6
<1>3. ASSUME ~lost', NEW s \in Thread \ {t} PROVE Knowing(s)'
  <2>1. Knowing(s) /\ Settles(t)
    BY <1>3 DEF LinkInv, Chains
  <2>2. \A b : Placed(b) => Placed(b)'
    BY <2>1 DEF Settles, Placed
  <2> HIDE DEF Placed
  <2>3. QED
    BY <1>1, <2>1, <2>2 DEF Settles, Knowing
<1>4. QED
  BY <1>2, <1>3 DEF LinkInv, Chains, Settles

\* The chain depends on the links and the first array only.
LEMMA ChainSame ==
    ASSUME ChainFacts, ChainFacts', head' = head, next' = next
    PROVE  Chain' = Chain
<1>1. \A S : Linked(S)' <=> Linked(S)
  BY DEF Linked
<1>2. QED
  BY <1>1 DEF ChainFacts

\* A step that changes no link and not the root's children.
LEMMA QuietLinks ==
    ASSUME IInv, LinkInv, ChainFacts, ChainFacts', NEW t \in Thread, Keeps(t),
           UNCHANGED <<head, next, kids, lost>>, pc[t] # "halve",
           pc'[t] \notin {"split", "grow", "raise", "halve"}, ~lost => Knowing(t)'
    PROVE  Chains(t) /\ Chain' = Chain
<1>1. Chain' = Chain
  BY ChainSame
<1>2. \A s \in Thread \ {t} : pc'[s] = pc[s] /\ nb'[s] = nb[s]
  BY DEF Keeps, OthersStay
<1>3. \A b : Pending(b) => Pending(b)'
  BY <1>2 DEF Pending
<1>4. \A b : Placed(b) => Placed(b)'
  BY <1>1, <1>3 DEF Placed
<1>5. \A b : Pending(b) => Placed(b)'
  BY <1>3 DEF Placed
<1> HIDE DEF Placed, Pending
<1>6. ~lost => KidsPlaced'
  BY <1>4 DEF LinkInv, KidsPlaced
<1>7. ~lost' => Settles(t)
  BY <1>1, <1>5, <1>6 DEF Settles
<1>8. NextStays(t) /\ Halved(t)'
  BY DEF NextStays, Halved
<1>9. QED
  BY <1>1, <1>7, <1>8 DEF Chains

\* No key leaves if no array loses one.
LEMMA KeysKept ==
    ASSUME Chain \subseteq Chain', \A b \in Chain : ToSet(keys[b]) \subseteq ToSet(keys'[b])
    PROVE  Stored \subseteq Stored'
<1>1. ASSUME NEW k \in Stored PROVE k \in Stored'
  <2>1. PICK b \in Chain : k \in ToSet(keys[b])
    BY DEF Stored
  <2>2. b \in Chain' /\ k \in ToSet(keys'[b])
    BY <2>1
  <2>3. QED
    BY <2>2 DEF Stored
<1>2. QED
  BY <1>1

\* Nothing is known at the other labels.
LEMMA NothingToKnow ==
    ASSUME NEW t \in Thread, pc'[t] \notin InChain \cup {"wchild"}
    PROVE  Knowing(t)'
BY DEF Knowing, InChain

-----------------------------------------------------------------------------
(* Steps that link no array. *)

Stays(t) == Chains(t) /\ (~lost' => Stored \subseteq Stored')

\* Steps of a find, and those that begin or end a call or release its locks.
LEMMA AwaySteps ==
    ASSUME IInv, LinkInv, ChainFacts, ChainFacts', NEW t \in Thread, Keeps(t),
           \/ Call(t) \/ Return(t) \/ Unlock(t)
           \/ FindStart(t) \/ ReadRootVersion(t) \/ ReadRootSlot(t) \/ CheckRoot(t)
           \/ ReadChild(t) \/ ReadChildVersion(t) \/ ReadKeys(t) \/ CheckChild(t)
           \/ Duplicate(t) \/ NeedRetrain(t) \/ NewHead(t) \/ SkipSeparator(t) \/ WantSeparator(t)
           \/ SetSeparator(t) \/ GiveUp(t)
    PROVE  Stays(t)
<1> USE DEF IInv, TypeOK, Call, Return, Unlock, FindStart, ReadRootVersion, ReadRootSlot, CheckRoot,
     ReadChild, ReadChildVersion, ReadKeys, CheckChild, Duplicate, NeedRetrain, NewHead, SkipSeparator,
     WantSeparator, SetSeparator, GiveUp, GoTo, Finish, Release, shared, bins, root, local, history
<1>1. UNCHANGED <<head, next, keys, kids, lost>>
  BY SMTT(60)
<1>2. pc[t] # "halve" /\ pc'[t] \notin InChain \cup {"wchild"}
  BY SMTT(60) DEF InChain, Labels, Crowded
<1>3. QED
  <2>1. pc'[t] \notin {"split", "grow", "raise", "halve"}
    BY <1>2 DEF InChain
  <2>2. Chains(t) /\ Chain' = Chain
    BY <1>1, <1>2, <2>1, QuietLinks, NothingToKnow
  <2>3. QED
    BY <1>1, <2>2 DEF Stays, Stored

\* A step that changes no array: it is enough what its thread knows after it.
LEMMA StandingStays ==
    ASSUME IInv, LinkInv, ChainFacts, ChainFacts', NEW t \in Thread, Keeps(t),
           UNCHANGED <<head, next, keys, kids, lost>>, pc[t] # "halve",
           pc'[t] \notin {"split", "grow", "raise", "halve"},
           ~lost /\ Chain' = Chain /\ (\A b : Placed(b) => Placed(b)') => Knowing(t)'
    PROVE  Stays(t)
<1>1. Chain' = Chain
  BY ChainSame
<1>2. \A s \in Thread \ {t} : pc'[s] = pc[s] /\ nb'[s] = nb[s]
  BY DEF Keeps, OthersStay
<1>3. \A b : Placed(b) => Placed(b)'
  BY <1>1, <1>2 DEF Placed, Pending
<1> HIDE DEF Placed
<1>4. ~lost => Knowing(t)'
  BY <1>1, <1>3
<1>5. Chains(t)
  BY <1>4, QuietLinks
<1>6. QED
  BY <1>1, <1>5 DEF Stays, Stored

\* What is locked waits for no link.
LEMMA LockedIsLinked ==
    ASSUME IInv, NEW b, b \notin locked, Placed(b)
    PROVE  b \in Chain
<1>1. \A s \in Thread : pc[s] = "halve" => nb[s] \in locked
  BY DEF IInv, LockInv, Owns, Changes
<1>2. QED
  BY <1>1 DEF Placed, Pending

\* The array after one of the chain is in it.
LEMMA HopStays ==
    ASSUME IInv, LinkInv, ChainFacts, ChainFacts', NEW t \in Thread, Keeps(t), Hop(t)
    PROVE  Stays(t)
<1>1. /\ UNCHANGED <<head, next, keys, kids, lost>> /\ pc[t] \in {"hop", "shop"}
      /\ \/ UNCHANGED pc /\ next[child[t]] # NoBin /\ child' = [child EXCEPT ![t] = next[child[t]]]
         \/ pc[t] = "hop" /\ pc' = [pc EXCEPT ![t] = "ckeys"]
         \/ pc[t] = "shop" /\ pc' = [pc EXCEPT ![t] = "slock"] /\ UNCHANGED child
  BY DEF Hop, Beyond, GoTo, shared, bins, root, history
<1>2. pc'[t] \in {"hop", "ckeys"} \/ (pc[t] = "shop" /\ pc'[t] \in {"shop", "slock"})
  BY <1>1 DEF IInv, TypeOK
<1>3. CASE pc'[t] \in {"hop", "ckeys"}
  <2>1. Knowing(t)'
    BY <1>3, NothingToKnow DEF InChain
  <2>2. pc[t] # "halve" /\ pc'[t] \notin {"split", "grow", "raise", "halve"}
    BY <1>1, <1>3
  <2>3. QED
    BY <1>1, <2>1, <2>2, StandingStays
<1>4. CASE pc[t] = "shop" /\ pc'[t] \in {"shop", "slock"}
  <2>1. ASSUME ~lost, Chain' = Chain PROVE Knowing(t)'
    <3>1. child[t] \in Chain
      BY <1>4, <2>1 DEF LinkInv, Knowing, InChain
    <3>2. next[child[t]] \in Bin => next[child[t]] \in Chain
      BY <3>1 DEF ChainFacts, Linked
    <3>3. child[t] \in Bin /\ next[child[t]] \in Bin \cup {NoBin}
      BY <1>4, Knows, Links DEF IInv, TypeOK
    <3>4. child'[t] \in Chain
      <4>1. CASE next[child[t]] # NoBin /\ child' = [child EXCEPT ![t] = next[child[t]]]
        BY <3>2, <3>3, <4>1 DEF IInv, TypeOK
      <4>2. CASE UNCHANGED child
        BY <3>1, <4>2
      <4>3. QED
        BY <1>1, <1>4, <4>1, <4>2
    <3>5. QED
      BY <1>4, <2>1, <3>4 DEF Knowing
  <2>2. pc[t] # "halve" /\ pc'[t] \notin {"split", "grow", "raise", "halve"}
    BY <1>4
  <2>3. QED
    BY <1>1, <2>1, <2>2, StandingStays
<1>5. QED
  BY <1>2, <1>3, <1>4

\* An insert that found no root goes to the first array.
LEMMA InsertStartStays ==
    ASSUME IInv, LinkInv, ChainFacts, ChainFacts', NEW t \in Thread, Keeps(t), InsertStart(t)
    PROVE  Stays(t)
<1>1. UNCHANGED <<head, next, keys, kids, lost>> /\ pc[t] = "insert"
      /\ \/ pc'[t] \in {"return", "wroot", "new"}
         \/ pc'[t] = "sver" /\ head # NoBin /\ child'[t] = head
  BY SMTT(60) DEF InsertStart, Finish, GoTo, shared, bins, root, history, IInv, TypeOK
<1>2. CASE pc'[t] \in {"return", "wroot", "new"}
  <2>1. Knowing(t)'
    BY <1>2, NothingToKnow DEF InChain
  <2>2. pc[t] # "halve" /\ pc'[t] \notin {"split", "grow", "raise", "halve"}
    BY <1>1, <1>2
  <2>3. QED
    BY <1>1, <2>1, <2>2, StandingStays
<1>3. CASE pc'[t] = "sver" /\ head # NoBin /\ child'[t] = head
  <2>1. head \in Bin
    BY <1>3, Links DEF IInv, TypeOK
  <2>2. head \in Chain
    BY <2>1 DEF ChainFacts, Linked
  <2>3. Chain' = Chain => Knowing(t)'
    BY <1>3, <2>2 DEF Knowing
  <2>4. pc[t] # "halve" /\ pc'[t] \notin {"split", "grow", "raise", "halve"}
    BY <1>1, <1>3
  <2>5. QED
    BY <1>1, <2>3, <2>4, StandingStays
<1>4. QED
  BY <1>1, <1>2, <1>3

\* Below a root it goes to the child its key belongs to, which may wait to be linked.
LEMMA LockRootStays ==
    ASSUME IInv, LinkInv, ChainFacts, ChainFacts', NEW t \in Thread, Keeps(t), LockRoot(t)
    PROVE  Stays(t)
<1>n. PICK n : n = Lower(rkeys, key(t))
  OBVIOUS
<1>1. UNCHANGED <<head, next, keys, kids, lost>> /\ pc[t] = "wroot"
      /\ \/ pc'[t] = "unlock"
         \/ pc'[t] = "wchild" /\ child'[t] = kids[n]
  BY <1>n DEF LockRoot, Release, GoTo, bins, root, history, IInv, TypeOK
<1>2. CASE pc'[t] = "unlock"
  <2>1. Knowing(t)'
    BY <1>2, NothingToKnow DEF InChain
  <2>2. pc[t] # "halve" /\ pc'[t] \notin {"split", "grow", "raise", "halve"}
    BY <1>1, <1>2
  <2>3. QED
    BY <1>1, <2>1, <2>2, StandingStays
<1>3. CASE pc'[t] = "wchild" /\ child'[t] = kids[n]
  <2>1. key(t) \in Key /\ Len(kids) = Len(rkeys) + 1 /\ rkeys \in Seq(Key)
    BY <1>1, Knows DEF IInv, TypeOK
  <2>2. n \in 1 .. Len(kids)
    BY <1>n, <2>1, LowerBounds
  <2>3. ~lost /\ (\A b : Placed(b) => Placed(b)') => Placed(kids[n])'
    BY <1>1, <2>2 DEF LinkInv, KidsPlaced
  <2>4. Placed(kids[n])' <=> Placed(child[t])'
    BY <1>1, <1>3 DEF Placed, Pending
  <2>5. ~lost /\ (\A b : Placed(b) => Placed(b)') => Knowing(t)'
    <3> HIDE DEF Placed
    <3>1. QED
      BY <1>3, <2>3, <2>4 DEF Knowing, InChain
  <2>6. pc[t] # "halve" /\ pc'[t] \notin {"split", "grow", "raise", "halve"}
    BY <1>1, <1>3
  <2>7. QED
    BY <1>1, <2>5, <2>6, StandingStays
<1>4. QED
  BY <1>1, <1>2, <1>3

\* Whoever gets the lock of a child finds it linked.
LEMMA LockChildStays ==
    ASSUME IInv, LinkInv, ChainFacts, ChainFacts', NEW t \in Thread, Keeps(t), LockChild(t)
    PROVE  Stays(t)
<1>1. /\ UNCHANGED <<head, next, keys, kids, lost, child, nb>> /\ child[t] \notin locked
      /\ \/ pc[t] = "wchild" /\ pc'[t] = "put"
         \/ pc[t] = "slock" /\ pc'[t] = "scheck"
  BY DEF LockChild, GoTo, bins, root, history, local, IInv, TypeOK
<1>2. ASSUME ~lost, Chain' = Chain PROVE Knowing(t)'
  <2>1. child[t] \in Chain
    BY <1>1, <1>2, LockedIsLinked DEF LinkInv, Knowing, InChain
  <2>2. QED
    BY <1>1, <1>2, <2>1 DEF Knowing
<1>3. pc[t] # "halve" /\ pc'[t] \notin {"split", "grow", "raise", "halve"}
  BY <1>1
<1>4. QED
  BY <1>1, <1>2, <1>3, StandingStays

\* The left neighbour is a child of the root too.
LEMMA ChooseLeftStays ==
    ASSUME IInv, LinkInv, ChainFacts, ChainFacts', NEW t \in Thread, Keeps(t), ChooseLeft(t)
    PROVE  Stays(t)
<1>n. PICK n : n = slot[t] - 1
  OBVIOUS
<1>1. /\ UNCHANGED <<head, next, keys, kids, lost, child>> /\ pc[t] = "put" /\ pc'[t] = "wprev"
      /\ slot[t] > 1 /\ nb'[t] = kids[n]
  BY <1>n DEF ChooseLeft, CanBorrow, Crowded, GoTo, shared, bins, root, history, IInv, TypeOK
<1>2. n \in 1 .. Len(kids)
  <2>1. slot[t] \in 1 .. Len(kids) /\ Len(kids) \in Nat
    BY <1>1, Knows DEF IInv, TypeOK
  <2>2. QED
    BY <1>1, <1>n, <2>1
<1>3. ASSUME ~lost, Chain' = Chain, \A b : Placed(b) => Placed(b)' PROVE Knowing(t)'
  <2>1. child[t] \in Chain
    BY <1>1, <1>3 DEF LinkInv, Knowing, InChain
  <2>2. Placed(kids[n])'
    BY <1>1, <1>2, <1>3 DEF LinkInv, KidsPlaced
  <2>3. Placed(kids[n])' <=> Placed(nb[t])'
    BY <1>1 DEF Placed, Pending
  <2> HIDE DEF Placed
  <2>4. QED
    BY <1>1, <1>3, <2>1, <2>2, <2>3 DEF Knowing
<1>4. pc[t] # "halve" /\ pc'[t] \notin {"split", "grow", "raise", "halve"}
  BY <1>1
<1>5. QED
  BY <1>1, <1>3, <1>4, StandingStays

\* Once it is locked it is linked.
LEMMA LockLeftStays ==
    ASSUME IInv, LinkInv, ChainFacts, ChainFacts', NEW t \in Thread, Keeps(t), LockLeft(t)
    PROVE  Stays(t)
<1>1. /\ UNCHANGED <<head, next, keys, kids, lost, child, nb>> /\ nb[t] \notin locked
      /\ pc[t] = "wprev" /\ pc'[t] = "borrow"
  BY DEF LockLeft, GoTo, bins, root, history, local, IInv, TypeOK
<1>2. ASSUME ~lost, Chain' = Chain PROVE Knowing(t)'
  <2>1. child[t] \in Chain /\ Placed(nb[t])
    BY <1>1, <1>2 DEF LinkInv, Knowing, InChain
  <2>2. nb[t] \in Chain
    BY <1>1, <2>1, LockedIsLinked
  <2>3. QED
    BY <1>1, <1>2, <2>1, <2>2 DEF Knowing
<1>3. pc[t] # "halve" /\ pc'[t] \notin {"split", "grow", "raise", "halve"}
  BY <1>1
<1>4. QED
  BY <1>1, <1>2, <1>3, StandingStays

\* Reading and comparing a version.
LEMMA VersionStays ==
    ASSUME IInv, LinkInv, ChainFacts, ChainFacts', NEW t \in Thread, Keeps(t),
           ReadVersion(t) \/ CheckVersion(t)
    PROVE  Stays(t)
<1>1. /\ UNCHANGED <<head, next, keys, kids, lost, child>> /\ pc[t] \in {"sver", "scheck"}
      /\ pc'[t] \in {"slock", "sput", "shop"}
  BY DEF ReadVersion, CheckVersion, GoTo, shared, bins, root, history, IInv, TypeOK
<1>2. ASSUME ~lost, Chain' = Chain PROVE Knowing(t)'
  <2>1. child[t] \in Chain
    BY <1>1, <1>2 DEF LinkInv, Knowing, InChain
  <2>2. QED
    BY <1>1, <1>2, <2>1 DEF Knowing
<1>3. pc[t] # "halve" /\ pc'[t] \notin {"split", "grow", "raise", "halve"}
  BY <1>1
<1>4. QED
  BY <1>1, <1>2, <1>3, StandingStays

\* An insertion into one array.
LEMMA PutStays ==
    ASSUME IInv, LinkInv, ChainFacts, ChainFacts', NEW t \in Thread, Keeps(t),
           PutInChild(t) \/ PutAlone(t)
    PROVE  Stays(t)
<1>1. /\ UNCHANGED <<head, next, kids, lost, child>> /\ pc[t] \in {"put", "sput"}
      /\ pc'[t] \in {"unlock", "ssplit", "sroot"}
      /\ UNCHANGED keys \/ keys' = [keys EXCEPT ![child[t]] = Inserted(t)]
  BY DEF PutInChild, PutAlone, GoTo, Release, root, history, local, IInv, TypeOK
<1>2. ~lost => Knowing(t)'
  <2>1. CASE pc'[t] = "ssplit"
    <3>1. ~lost => child[t] \in Chain
      BY <1>1 DEF LinkInv, Knowing, InChain
    <3>2. Chain' = Chain
      BY <1>1, ChainSame
    <3>3. QED
      BY <1>1, <2>1, <3>1, <3>2 DEF Knowing
  <2>2. CASE pc'[t] # "ssplit"
    <3>1. pc'[t] \notin InChain \cup {"wchild"}
      BY <1>1, <2>2 DEF InChain
    <3>2. QED
      BY <3>1, NothingToKnow
  <2>3. QED
    BY <2>1, <2>2
<1>3. pc[t] # "halve" /\ pc'[t] \notin {"split", "grow", "raise", "halve"}
  BY <1>1
<1>4. Chains(t) /\ Chain' = Chain
  BY <1>1, <1>2, <1>3, QuietLinks
<1>5. \A b \in Chain : ToSet(keys[b]) \subseteq ToSet(keys'[b])
  <2>1. CASE UNCHANGED keys
    BY <2>1
  <2>2. CASE keys' = [keys EXCEPT ![child[t]] = Inserted(t)]
    <3>1. key(t) \in Key /\ child[t] \in Bin
      BY <1>1, Knows
    <3>2. keys[child[t]] \in Seq(Key)
      BY <3>1 DEF IInv, TypeOK
    <3>3. ToSet(keys[child[t]]) \cup {key(t)} \subseteq ToSet(Inserted(t))
      BY <3>1, <3>2, LowerBounds, InsertAtHolds DEF Inserted, Slot
    <3>4. \A b \in Bin : keys'[b] = IF b = child[t] THEN Inserted(t) ELSE keys[b]
      BY <2>2 DEF IInv, TypeOK
    <3>5. QED
      BY <3>3, <3>4 DEF ChainFacts
  <2>3. QED
    BY <1>1, <2>1, <2>2
<1>6. QED
  BY <1>4, <1>5, KeysKept DEF Stays

\* A key that is borrowed comes into an array of the chain.
LEMMA BorrowStays ==
    ASSUME IInv, LinkInv, ChainFacts, ChainFacts', NEW t \in Thread, Keeps(t), Borrow(t)
    PROVE  Stays(t)
<1>a. PICK all : all = Inserted(t)
  OBVIOUS
<1>c. PICK c, n : c = child[t] /\ n = nb[t]
  OBVIOUS
<1>1. /\ UNCHANGED <<head, next, kids, lost>> /\ pc[t] = "borrow" /\ pc'[t] = "unlock"
      /\ keys' = [keys EXCEPT ![n] = Append(@, all[1]), ![c] = Tail(all)]
  BY <1>a, <1>c DEF Borrow, Release, GoTo, IInv, TypeOK
<1>2. Chains(t) /\ Chain' = Chain
  <2>1. pc'[t] \notin InChain \cup {"wchild"} /\ pc'[t] \notin {"split", "grow", "raise", "halve"}
    BY <1>1 DEF InChain
  <2>2. Knowing(t)'
    BY <2>1, NothingToKnow
  <2>3. QED
    BY <1>1, <2>1, <2>2, QuietLinks
<1>3. /\ key(t) \in Key /\ c \in Bin /\ n \in Bin /\ n # c /\ child[t] \in Bin
      /\ keys[c] \in Seq(Key) /\ keys[n] \in Seq(Key)
  BY <1>1, <1>c, Knows DEF IInv, TypeOK
<1>4. all \in Seq(Key) /\ all # <<>> /\ all[1] \in Key
  <2>1. all \in Seq(Key) /\ Len(all) = Len(keys[c]) + 1 /\ all[1] \in Key
    BY <1>3, <1>a, <1>c, InsertedIs
  <2>2. QED
    BY <1>3, <2>1
<1>5. ToSet(keys[c]) \subseteq ToSet(all)
  BY <1>3, <1>a, <1>c, LowerBounds, InsertAtHolds DEF Inserted, Slot
<1>6. keys'[n] = Append(keys[n], all[1]) /\ keys'[c] = Tail(all)
      /\ \A b \in Bin : b # n /\ b # c => keys'[b] = keys[b]
  BY <1>1, <1>3 DEF IInv, TypeOK
<1>7. ToSet(keys[n]) \cup {all[1]} \subseteq ToSet(keys'[n])
  BY <1>3, <1>4, <1>6, AppendHolds
<1>8. ToSet(all) \subseteq ToSet(keys'[c]) \cup {all[1]}
  BY <1>4, <1>6, TailHolds
<1>9. ~lost => n \in Chain
  BY <1>1, <1>c DEF LinkInv, Knowing
<1>10. ASSUME ~lost', NEW k \in Stored PROVE k \in Stored'
  <2>1. PICK b \in Chain : k \in ToSet(keys[b])
    BY DEF Stored
  <2>2. b \in Bin
    BY DEF ChainFacts
  <2>3. n \in Chain
    BY <1>1, <1>9, <1>10
  <2>4. \E d \in Chain : k \in ToSet(keys'[d])
    <3>1. CASE b = c /\ k = all[1]
      BY <1>7, <2>3, <3>1
    <3>2. CASE b = c /\ k # all[1]
      BY <1>5, <1>8, <2>1, <3>2
    <3>3. CASE b = n
      BY <1>7, <2>1, <3>3
    <3>4. CASE b # n /\ b # c
      BY <1>6, <2>1, <2>2, <3>4
    <3>5. QED
      BY <3>1, <3>2, <3>3, <3>4
  <2>5. QED
    BY <1>2, <2>4 DEF Stored
<1>11. QED
  BY <1>2, <1>10 DEF Stays

-----------------------------------------------------------------------------
(* Steps that make arrays and link them. *)

\* A new array is in no chain yet.
LEMMA NewChildStays ==
    ASSUME IInv, LinkInv, ChainFacts, ChainFacts', NEW t \in Thread, Keeps(t), NewChild(t)
    PROVE  Stays(t)
<1>c. PICK c : c = child[t]
  OBVIOUS
<1>1. c \in live /\ c \in Bin
  BY <1>c, Knows DEF NewChild, Crowded
<1>b. PICK b \in Bin \ live :
        /\ nb' = [nb EXCEPT ![t] = b]
        /\ keys' = [keys EXCEPT ![b] = SubSeq(keys[c], Mid(c) + 1, Len(keys[c]))]
        /\ next' = [next EXCEPT ![b] = next[c]]
  BY <1>c DEF NewChild
<1>2. /\ UNCHANGED <<head, kids, lost, child>>
      /\ \/ pc[t] = "put" /\ pc'[t] = "split"
         \/ pc[t] = "ssplit" /\ pc'[t] = "grow"
  BY DEF NewChild, Crowded, GoTo, root, history, IInv, TypeOK
<1>3. /\ nb'[t] = b /\ b # c
      /\ keys'[b] = SubSeq(keys[c], Mid(c) + 1, Len(keys[c])) /\ next'[b] = next[c]
      /\ \A a \in Bin : a # b => keys'[a] = keys[a] /\ next'[a] = next[a]
  BY <1>1, <1>b DEF IInv, TypeOK
<1>4. Chain \subseteq Chain' \ {b}
  <2> DEFINE S == Chain' \ {b}
  <2>1. S \in SUBSET Bin /\ Linked(Chain)'
    BY DEF ChainFacts
  <2>2. head \in live \cup {NoBin} /\ b \notin live /\ b # NoBin
        /\ \A a \in Bin : next[a] \in live \cup {NoBin}
    BY Links, NameAssumption DEF NameAssumption
  <2>3. head \in Bin => head \in S
    BY <1>2, <2>1, <2>2 DEF Linked
  <2>4. \A a \in S : next[a] \in Bin => next[a] \in S
    BY <1>3, <2>1, <2>2 DEF Linked
  <2>5. Linked(S)
    BY <2>3, <2>4 DEF Linked
  <2>6. QED
    BY <2>1, <2>5 DEF ChainFacts
<1>5. \A s \in Thread \ {t} : pc'[s] = pc[s] /\ nb'[s] = nb[s]
  BY DEF Keeps, OthersStay
<1>6. \A d : Pending(d) => Pending(d)'
  BY <1>2, <1>5 DEF Pending
<1>7. \A d : Placed(d) => Placed(d)'
  BY <1>4, <1>6 DEF Placed
<1>8. ASSUME ~lost PROVE Settles(t)
  <2>1. KidsPlaced'
    <3> HIDE DEF Placed
    <3>1. QED
      BY <1>2, <1>7, <1>8 DEF LinkInv, KidsPlaced
  <2>2. c \in Chain
    BY <1>2, <1>8, <1>c DEF LinkInv, Knowing, InChain
  <2>3. Knowing(t)'
    BY <1>2, <1>4, <1>c, <2>2 DEF Knowing
  <2>4. \A d : Pending(d) => Placed(d)'
    BY <1>6 DEF Placed
  <2>5. QED
    BY <1>4, <2>1, <2>3, <2>4 DEF Settles
<1>9. Halved(t)'
  <2>1. keys'[c] = keys[c] /\ next'[c] = next[c] /\ child'[t] = c
    BY <1>1, <1>2, <1>3, <1>c
  <2>2. Mid(c)' = Mid(c)
    BY <2>1 DEF Mid
  <2>3. keys'[b] = SubSeq(keys'[c], Mid(c)' + 1, Len(keys'[c])) /\ next'[b] = next'[c]
    BY <1>3, <2>1, <2>2
  <2>4. Mid(child[t])' = Mid(c)'
    BY <2>1 DEF Mid
  <2>5. QED
    BY <1>3, <2>1, <2>3, <2>4 DEF Halved
<1>10. NextStays(t)
  <2>1. \A a \in live : a \in Bin /\ a # b
    BY DEF IInv, TypeOK
  <2>2. QED
    BY <1>3, <2>1 DEF NextStays
<1>11. Chains(t)
  BY <1>2, <1>8, <1>9, <1>10 DEF Chains
<1>12. \A a \in Chain : ToSet(keys[a]) \subseteq ToSet(keys'[a])
  BY <1>3, <1>4 DEF ChainFacts
<1>13. QED
  BY <1>4, <1>11, <1>12, KeysKept DEF Stays

\* Linking an array to the one that was split.
LEMMA LinkGrows ==
    ASSUME IInv, LinkInv, ChainFacts, ChainFacts', NEW t \in Thread,
           pc[t] \in {"split", "halve"}, Link(t), head' = head
    PROVE  /\ Chain \subseteq Chain' /\ (child[t] \in Chain => nb[t] \in Chain')
           /\ \A b \in Bin : b # child[t] => next'[b] = next[b]
<1>c. PICK c, n : c = child[t] /\ n = nb[t]
  OBVIOUS
<1>1. c \in Bin /\ n \in Bin /\ n # c
  BY <1>c, Knows
<1>2. next'[c] = n /\ \A b \in Bin : b # c => next'[b] = next[b]
  BY <1>1, <1>c DEF Link, IInv, TypeOK
<1>3. next[n] = next[c]
  BY <1>c DEF LinkInv, Halved
<1>4. Linked(Chain)' /\ Chain' \in SUBSET Bin
  BY DEF ChainFacts
<1>d. PICK D : D = Chain'
  OBVIOUS
<1>5. (head \in Bin => head \in D) /\ \A b \in D : next'[b] \in Bin => next'[b] \in D
  BY <1>4, <1>d DEF Linked
<1>6. \A b \in D : next[b] \in Bin => next[b] \in D
  BY <1>1, <1>2, <1>3, <1>4, <1>5, <1>d
<1>7. Chain \subseteq D
  BY <1>4, <1>5, <1>6, <1>d DEF ChainFacts, Linked
<1>8. c \in D => n \in D
  BY <1>1, <1>2, <1>5
<1>9. QED
  BY <1>2, <1>7, <1>8, <1>c, <1>d

\* The halves hold what both arrays held.
LEMMA HalvesKeep ==
    ASSUME IInv, LinkInv, NEW t \in Thread, pc[t] \in {"split", "halve"}
    PROVE  /\ ToSet(keys[child[t]]) \subseteq ToSet(Halves(t)[1]) \cup ToSet(Halves(t)[2])
           /\ ToSet(keys[nb[t]]) \subseteq ToSet(Halves(t)[2])
<1> DEFINE a == keys[child[t]]
           k == key(t)
           m == Mid(child[t])
           lower == SubSeq(a, 1, m)
           upper == SubSeq(a, m + 1, Len(a))
<1>1. k \in Key /\ child[t] \in Bin /\ a \in Seq(Key) /\ Len(a) = ChildMax
  BY Knows DEF IInv, TypeOK
<1>2. keys[nb[t]] = upper
  BY DEF LinkInv, Halved
<1>3. m \in 1 .. Len(a) - 1
  BY <1>1, BoundAssumption DEF BoundAssumption, Mid
<1>4. Halves(t) = IF Slot(t) <= m + 1
                  THEN <<InsertAt(lower, Lower(lower, k), k), upper>>
                  ELSE <<lower, InsertAt(upper, Lower(upper, k), k)>>
  BY <1>2 DEF Halves
<1> HIDE DEF a, k, m
<1>5. lower \in Seq(Key) /\ upper \in Seq(Key) /\ ToSet(a) \subseteq ToSet(lower) \cup ToSet(upper)
  BY <1>1, <1>3, CutHolds
<1> HIDE DEF lower, upper
<1>6. ToSet(lower) \cup {k} \subseteq ToSet(InsertAt(lower, Lower(lower, k), k))
  BY <1>1, <1>5, LowerBounds, InsertAtHolds
<1>7. ToSet(upper) \cup {k} \subseteq ToSet(InsertAt(upper, Lower(upper, k), k))
  BY <1>1, <1>5, LowerBounds, InsertAtHolds
<1>8. ToSet(upper) \subseteq ToSet(Halves(t)[2]) /\ ToSet(lower) \subseteq ToSet(Halves(t)[1])
  BY <1>4, <1>6, <1>7
<1>9. QED
  BY <1>2, <1>5, <1>8 DEF a

\* No key is lost when the halves are put into place.
LEMMA LinkKeepsKeys ==
    ASSUME IInv, LinkInv, ChainFacts, ChainFacts', NEW t \in Thread,
           pc[t] \in {"split", "halve"}, Link(t), head' = head
    PROVE  Stored \subseteq Stored'
<1>c. PICK c, n : c = child[t] /\ n = nb[t]
  OBVIOUS
<1>h. PICK h, g : h = Halves(t)[1] /\ g = Halves(t)[2]
  OBVIOUS
<1>1. c \in Bin /\ n \in Bin /\ n # c
  BY <1>c, Knows
<1>2. keys'[c] = h /\ keys'[n] = g /\ \A b \in Bin : b # c /\ b # n => keys'[b] = keys[b]
  BY <1>1, <1>c, <1>h DEF Link, IInv, TypeOK
<1>3. ToSet(keys[c]) \subseteq ToSet(h) \cup ToSet(g) /\ ToSet(keys[n]) \subseteq ToSet(g)
  BY <1>c, <1>h, HalvesKeep
<1>4. Chain \subseteq Chain' /\ (c \in Chain => n \in Chain')
  BY <1>c, LinkGrows
<1>5. ASSUME NEW k \in Stored PROVE k \in Stored'
  <2>1. PICK b \in Chain : k \in ToSet(keys[b])
    BY DEF Stored
  <2>2. b \in Bin /\ b \in Chain'
    BY <1>4 DEF ChainFacts
  <2>3. \E d \in Chain' : k \in ToSet(keys'[d])
    <3>1. CASE b = c
      BY <1>2, <1>3, <1>4, <2>1, <2>2, <3>1
    <3>2. CASE b = n
      BY <1>2, <1>3, <2>1, <2>2, <3>2
    <3>3. CASE b # c /\ b # n
      BY <1>2, <2>1, <2>2, <3>3
    <3>4. QED
      BY <3>1, <3>2, <3>3
  <2>4. QED
    BY <2>3 DEF Stored
<1>6. QED
  BY <1>5

\* An array that is split below a root gets its right neighbour.
LEMMA SplitStays ==
    ASSUME IInv, LinkInv, ChainFacts, ChainFacts', NEW t \in Thread, Keeps(t), Split(t)
    PROVE  Stays(t)
<1>c. PICK c, n, i : c = child[t] /\ n = nb[t] /\ i = slot[t] + 1
  OBVIOUS
<1>1. /\ UNCHANGED <<head, lost>> /\ pc[t] = "split" /\ pc'[t] = "unlock" /\ Link(t)
      /\ kids' = InsertAt(kids, i, n)
  BY <1>c DEF Split, Release, GoTo, IInv, TypeOK
<1>2. /\ Chain \subseteq Chain' /\ (c \in Chain => n \in Chain')
      /\ \A b \in Bin : b # c => next'[b] = next[b]
  BY <1>1, <1>c, LinkGrows
<1>3. Stored \subseteq Stored'
  BY <1>1, LinkKeepsKeys
<1>4. pc'[t] \notin InChain \cup {"wchild"} /\ pc'[t] \notin {"split", "grow", "raise", "halve"} /\ pc[t] # "halve"
  BY <1>1 DEF InChain
<1>5. Knowing(t)'
  BY <1>4, NothingToKnow
<1>6. \A s \in Thread \ {t} : pc'[s] = pc[s] /\ nb'[s] = nb[s]
  BY DEF Keeps, OthersStay
<1>7. \A b : Pending(b) => Pending(b)'
  BY <1>4, <1>6 DEF Pending
<1>8. \A b : Placed(b) => Placed(b)'
  BY <1>2, <1>7 DEF Placed
<1>9. ASSUME ~lost PROVE KidsPlaced'
  <2>1. kids \in Seq(live) /\ n \in live /\ i \in 1 .. Len(kids) + 1
    <3>1. kids \in Seq(live) /\ Len(kids) \in Nat
      BY DEF IInv, TypeOK
    <3>2. n \in live /\ slot[t] \in 1 .. Len(kids)
      BY <1>1, <1>c, Knows
    <3>3. QED
      BY <1>c, <3>1, <3>2
  <2>2. /\ Len(kids') = Len(kids) + 1 /\ Len(kids) \in Nat
        /\ \A j \in 1 .. Len(kids) + 1 :
             kids'[j] = IF j < i THEN kids[j] ELSE IF j = i THEN n ELSE kids[j - 1]
    BY SMTT(60), <1>1, <2>1, InsertAtIs
  <2>3. c \in Chain
    BY <1>1, <1>9, <1>c DEF LinkInv, Knowing, InChain
  <2>4. \A j \in 1 .. Len(kids) : Placed(kids[j])
    BY <1>9 DEF LinkInv, KidsPlaced
  <2>k. PICK m : m = kids'
    OBVIOUS
  <2>5. ASSUME NEW j \in 1 .. Len(kids')
        PROVE  m[j] \in Chain' \/ \E s \in Thread : pc'[s] = "halve" /\ m[j] = nb'[s]
    <3>1. CASE j = i
      BY <1>2, <2>k, <2>2, <2>3, <3>1
    <3>2. CASE j # i
      <4>1. PICK x \in 1 .. Len(kids) : m[j] = kids[x]
        BY <2>k, <2>1, <2>2, <3>2
      <4>2. Placed(kids[x]) /\ (Placed(kids[x]) => kids[x] \in Chain \/ Pending(kids[x]))
        BY <2>4 DEF Placed
      <4>3. CASE kids[x] \in Chain
        BY <1>2, <4>1, <4>3
      <4>4. CASE Pending(kids[x])
        BY <1>4, <1>6, <4>1, <4>4 DEF Pending
      <4>5. QED
        BY <4>2, <4>3, <4>4
    <3>3. QED
      BY <3>1, <3>2
  <2>6. QED
    BY <2>5, <2>k DEF KidsPlaced, Placed, Pending
<1>10. ~lost' => Settles(t)
  <2>1. \A b : Pending(b) => Placed(b)'
    BY <1>7 DEF Placed
  <2> HIDE DEF Placed
  <2>2. QED
    BY <1>1, <1>2, <1>5, <1>9, <2>1 DEF Settles
<1>11. NextStays(t) /\ Halved(t)'
  <2>1. c \in Owns(t)
    BY <1>1, <1>c DEF Owns
  <2>2. live \subseteq Bin
    BY DEF IInv, TypeOK
  <2>3. QED
    BY <1>2, <1>4, <2>1, <2>2 DEF NextStays, Halved
<1>12. QED
  BY <1>1, <1>3, <1>10, <1>11 DEF Stays, Chains

\* The first array is split, and the second child of the new root is linked.
LEMMA SplitAloneStays ==
    ASSUME IInv, LinkInv, ChainFacts, ChainFacts', NEW t \in Thread, Keeps(t), SplitAlone(t)
    PROVE  Stays(t)
<1>c. PICK c, n : c = child[t] /\ n = nb[t]
  OBVIOUS
<1>1. UNCHANGED <<head, kids, lost>> /\ pc[t] = "halve" /\ pc'[t] = "unlock" /\ Link(t)
  BY DEF SplitAlone, Release, GoTo, IInv, TypeOK
<1>2. /\ Chain \subseteq Chain' /\ (c \in Chain => n \in Chain')
      /\ \A b \in Bin : b # c => next'[b] = next[b]
  BY <1>1, <1>c, LinkGrows
<1>3. Stored \subseteq Stored'
  BY <1>1, LinkKeepsKeys
<1>4. pc'[t] \notin InChain \cup {"wchild"} /\ pc'[t] \notin {"split", "grow", "raise", "halve"}
  BY <1>1 DEF InChain
<1>5. Knowing(t)'
  BY <1>4, NothingToKnow
<1>6. \A s \in Thread \ {t} : pc'[s] = pc[s] /\ nb'[s] = nb[s]
  BY DEF Keeps, OthersStay
<1>7. ASSUME ~lost PROVE \A b : Pending(b) => Placed(b)'
  <2>1. n \in Chain'
    BY <1>1, <1>2, <1>7, <1>c DEF LinkInv, Knowing, InChain
  <2>2. ASSUME NEW b, Pending(b) PROVE b \in Chain' \/ \E s \in Thread : pc'[s] = "halve" /\ b = nb'[s]
    <3>1. PICK s \in Thread : pc[s] = "halve" /\ b = nb[s]
      BY <2>2 DEF Pending
    <3>2. QED
      BY <1>6, <1>c, <2>1, <3>1
  <2>3. QED
    BY <2>2 DEF Placed, Pending
<1>8. ~lost => \A b : Placed(b) => Placed(b)'
  <2>1. \A b : b \in Chain => Placed(b)'
    BY <1>2 DEF Placed
  <2>2. \A b : Placed(b) <=> b \in Chain \/ Pending(b)
    BY DEF Placed
  <2> HIDE DEF Placed, Pending
  <2>3. QED
    BY <1>7, <2>1, <2>2
<1>9. ~lost' => Settles(t)
  <2> HIDE DEF Placed, Pending
  <2>1. ~lost => KidsPlaced'
    BY <1>1, <1>8 DEF LinkInv, KidsPlaced
  <2>2. QED
    BY <1>1, <1>2, <1>5, <1>7, <2>1 DEF Settles
<1>10. NextStays(t) /\ Halved(t)'
  <2>1. c \in Owns(t)
    BY <1>1, <1>c DEF Owns, Changes
  <2>2. live \subseteq Bin
    BY DEF IInv, TypeOK
  <2>3. QED
    BY <1>2, <1>4, <2>1, <2>2 DEF NextStays, Halved
<1>11. QED
  BY <1>1, <1>3, <1>9, <1>10 DEF Stays, Chains

\* The first array of an empty bin.
LEMMA PublishHeadStays ==
    ASSUME IInv, LinkInv, ChainFacts, ChainFacts', NEW t \in Thread, Keeps(t), PublishHead(t)
    PROVE  Stays(t)
<1>1. /\ UNCHANGED <<keys, next, kids, child>> /\ pc[t] = "publish" /\ pc'[t] = "sver"
      /\ head' = child[t] /\ (lost' <=> lost \/ head # NoBin)
  BY DEF PublishHead, GoTo, local, root, IInv, TypeOK
<1>2. child[t] \in Bin
  BY <1>1, Knows
<1>3. ASSUME ~lost' PROVE Chain = {}
  <2>1. head = NoBin
    BY <1>1, <1>3
  <2>2. Linked({})
    BY <2>1, NameAssumption DEF NameAssumption, Linked
  <2>3. QED
    BY <2>2 DEF ChainFacts
<1>4. child'[t] \in Chain'
  BY <1>1, <1>2 DEF ChainFacts, Linked
<1>5. Knowing(t)'
  BY <1>1, <1>4 DEF Knowing
<1>6. \A s \in Thread \ {t} : pc'[s] = pc[s] /\ nb'[s] = nb[s]
  BY DEF Keeps, OthersStay
<1>7. \A b : Pending(b) => Pending(b)'
  BY <1>1, <1>6 DEF Pending
<1>8. ASSUME ~lost' PROVE Settles(t)
  <2>1. \A b : (Placed(b) => Placed(b)') /\ (Pending(b) => Placed(b)')
    BY <1>3, <1>7, <1>8 DEF Placed
  <2>2. Chain \subseteq Chain'
    BY <1>3, <1>8
  <2> HIDE DEF Placed, Pending
  <2>3. KidsPlaced'
    BY <1>1, <1>8, <2>1 DEF LinkInv, KidsPlaced
  <2>4. QED
    BY <1>5, <2>1, <2>2, <2>3 DEF Settles
<1>9. NextStays(t) /\ Halved(t)'
  BY <1>1 DEF NextStays, Halved
<1>10. ~lost' => Stored \subseteq Stored'
  BY <1>3 DEF Stored
<1>11. QED
  BY <1>1, <1>8, <1>9, <1>10 DEF Stays, Chains

\* The first root, and its second child that waits to be linked.
LEMMA FirstRootStays ==
    ASSUME IInv, LinkInv, ChainFacts, ChainFacts', NEW t \in Thread, Keeps(t), StoreRoot(t)
    PROVE  Stays(t)
<1>1. /\ UNCHANGED <<head, keys, next, lost, child, nb>> /\ pc[t] = "raise" /\ pc'[t] = "halve"
      /\ kids' = <<child[t], nb[t]>>
  BY DEF StoreRoot, bins, GoTo, local, history, IInv, TypeOK
<1>2. Chain' = Chain
  BY <1>1, ChainSame
<1>3. Stored \subseteq Stored'
  BY <1>1, <1>2 DEF Stored
<1>4. \A s \in Thread \ {t} : pc'[s] = pc[s] /\ nb'[s] = nb[s]
  BY DEF Keeps, OthersStay
<1>5. \A b : Pending(b) => Pending(b)'
  BY <1>1, <1>4 DEF Pending
<1>6. ASSUME ~lost PROVE Settles(t)
  <2>1. child[t] \in Chain
    BY <1>1, <1>6 DEF LinkInv, Knowing, InChain
  <2>2. Knowing(t)'
    BY <1>1, <1>2, <2>1 DEF Knowing
  <2>k. PICK m, c, n : m = kids' /\ c = child[t] /\ n = nb[t]
    OBVIOUS
  <2>3. \A j \in 1 .. Len(m) : m[j] \in Chain' \/ \E s \in Thread : pc'[s] = "halve" /\ m[j] = nb'[s]
    <3>1. m = <<c, n>> /\ c \in Chain' /\ pc'[t] = "halve" /\ n = nb'[t]
      BY <1>1, <1>2, <2>1, <2>k
    <3>2. QED
      BY <3>1
  <2>4. KidsPlaced'
    BY <2>3, <2>k DEF KidsPlaced, Placed, Pending
  <2>5. \A b : Pending(b) => Placed(b)'
    BY <1>5 DEF Placed
  <2> HIDE DEF Placed, Pending
  <2>6. QED
    BY <1>2, <2>2, <2>4, <2>5 DEF Settles
<1>7. NextStays(t)
  BY <1>1 DEF NextStays
<1>8. Halved(t)'
  <2>1. Halved(t)
    BY DEF LinkInv
  <2>2. Mid(child[t])' = Mid(child[t])
    BY <1>1 DEF Mid
  <2>3. QED
    BY <1>1, <2>1, <2>2 DEF Halved
<1>9. QED
  BY <1>1, <1>3, <1>6, <1>7, <1>8 DEF Stays, Chains

\* The root is looked at: nothing changes yet.
LEMMA SeenStays ==
    ASSUME IInv, LinkInv, ChainFacts, ChainFacts', NEW t \in Thread, Keeps(t), SeeNoRoot(t) \/ Overrun(t)
    PROVE  Stays(t)
<1>1. UNCHANGED <<head, keys, next, kids, lost, child, nb>>
  BY DEF SeeNoRoot, Overrun, shared, bins, root, local, history
<1>2. \/ pc[t] = "grow" /\ pc'[t] = "raise"
      \/ pc[t] \in {"borrow", "split", "raise"} /\ pc'[t] = "overrun"
  BY DEF SeeNoRoot, Overrun, Stale, GoTo, IInv, TypeOK
<1>3. Chain' = Chain
  BY <1>1, ChainSame
<1>4. \A s \in Thread : pc[s] = "halve" => pc'[s] = "halve" /\ nb'[s] = nb[s]
  BY <1>1, <1>2 DEF Keeps, OthersStay
<1>5. \A b : (Pending(b) => Pending(b)') /\ (Placed(b) => Placed(b)')
  BY <1>3, <1>4 DEF Pending, Placed
<1>6. \A b : Pending(b) => Placed(b)'
  BY <1>5 DEF Placed
<1>7. ASSUME ~lost PROVE Knowing(t)'
  <2>1. Knowing(t)
    BY <1>7 DEF LinkInv
  <2>2. pc'[t] = "raise" => child'[t] \in Chain'
    BY <1>1, <1>2, <1>3, <2>1 DEF Knowing, InChain
  <2>3. QED
    BY <1>2, <2>2 DEF Knowing, InChain
<1>8. Halved(t)'
  <2>1. Halved(t)
    BY DEF LinkInv
  <2>2. Mid(child[t])' = Mid(child[t])
    BY <1>1 DEF Mid
  <2>3. QED
    BY <1>1, <1>2, <2>1, <2>2 DEF Halved
<1>9. ~lost => Settles(t)
  <2> HIDE DEF Placed, Pending, Knowing
  <2>1. ~lost => KidsPlaced'
    BY <1>1, <1>5 DEF LinkInv, KidsPlaced
  <2>2. QED
    BY <1>3, <1>6, <1>7, <2>1 DEF Settles
<1>10. NextStays(t) /\ Stored \subseteq Stored'
  BY <1>1, <1>3 DEF NextStays, Stored
<1>11. QED
  BY <1>1, <1>8, <1>9, <1>10 DEF Stays, Chains

\* Another insert was faster: the new array is given back, nobody came to it.
LEMMA GivenBackStays ==
    ASSUME IInv, LinkInv, ChainFacts, ChainFacts', NEW t \in Thread, Keeps(t), GiveBack(t)
    PROVE  Stays(t)
<1>n. PICK n : n = nb[t]
  OBVIOUS
<1>1. /\ UNCHANGED <<head, kids, lost>> /\ pc[t] = "grow" /\ pc'[t] = "insert"
      /\ keys' = [keys EXCEPT ![n] = <<>>] /\ next' = [next EXCEPT ![n] = NoBin]
  BY <1>n DEF GiveBack, GoTo, root, history, IInv, TypeOK
<1>2. n \in Bin /\ n \notin Named
  BY <1>1, <1>n, Knows DEF IInv, ThreadOK
<1>3. head # n /\ \A b \in Bin : next[b] # n
  BY <1>2 DEF Named
<1>4. /\ next'[n] = NoBin /\ \A b \in Bin : b # n => next'[b] = next[b] /\ keys'[b] = keys[b]
  BY <1>1, <1>2 DEF IInv, TypeOK
<1>5. Chain \subseteq Chain' \ {n}
  <2> DEFINE S == Chain' \ {n}
  <2>1. S \in SUBSET Bin /\ Linked(Chain)'
    BY DEF ChainFacts
  <2>2. head \in Bin => head \in S
    BY <1>1, <1>3, <2>1 DEF Linked
  <2>3. \A a \in S : next[a] \in Bin => next[a] \in S
    BY <1>3, <1>4, <2>1 DEF Linked
  <2>4. Linked(S)
    BY <2>2, <2>3 DEF Linked
  <2>5. QED
    BY <2>1, <2>4 DEF ChainFacts
<1>6. \A s \in Thread \ {t} : pc'[s] = pc[s] /\ nb'[s] = nb[s]
  BY DEF Keeps, OthersStay
<1>7. \A b : Pending(b) => Pending(b)'
  BY <1>1, <1>6 DEF Pending
<1>8. \A b : (Placed(b) => Placed(b)') /\ (Pending(b) => Placed(b)')
  BY <1>5, <1>7 DEF Placed
<1>9. ~lost => Settles(t)
  <2> HIDE DEF Placed, Pending
  <2>1. ~lost => KidsPlaced'
    BY <1>1, <1>8 DEF LinkInv, KidsPlaced
  <2>2. pc'[t] \notin InChain \cup {"wchild"}
    BY <1>1 DEF InChain
  <2>3. Knowing(t)'
    BY <2>2, NothingToKnow
  <2>4. QED
    BY <1>5, <1>8, <2>1, <2>3 DEF Settles
<1>10. NextStays(t) /\ Halved(t)'
  <2>1. n \in Owns(t)
    BY <1>1, <1>n DEF Owns, Changes
  <2>2. live \subseteq Bin
    BY DEF IInv, TypeOK
  <2>3. QED
    BY <1>1, <1>4, <2>1, <2>2 DEF NextStays, Halved
<1>11. Stored \subseteq Stored'
  <2>1. \A b \in Chain : b \in Bin /\ b # n
    BY <1>5 DEF ChainFacts
  <2>2. \A b \in Chain : keys'[b] = keys[b]
    BY <1>4, <2>1
  <2>3. QED
    BY <1>5, <2>2, KeysKept
<1>12. QED
  BY <1>1, <1>9, <1>10, <1>11 DEF Stays, Chains

-----------------------------------------------------------------------------
(* Every step of every run. *)

\* At first the chain leads from each child of the root to the next.
LEMMA InitLinks ==
    ASSUME Init, ChainFacts
    PROVE  LinkInv
<1>1. IInv /\ StructureInv
  BY InitIInv, InitStructure
<1>2. pc = [t \in Thread |-> "idle"]
  BY DEF Init
<1>3. \A t \in Thread : Knowing(t) /\ Halved(t)
  BY <1>2 DEF Knowing, Halved, InChain
<1>4. CASE rooted
  <2>1. /\ head = kids[1] /\ Len(kids) \in Nat /\ Len(kids) = Len(rkeys) + 1 /\ Len(rkeys) \in Nat
        /\ \A i \in 1 .. Len(rkeys) : next[kids[i]] = kids[i + 1]
    BY <1>1, <1>4 DEF StructureInv, Below, IInv, TypeOK, RootInv
  <2>2. \A i \in 1 .. Len(kids) : kids[i] \in Bin
    BY <1>1, KidKeys
  <2>3. head \in Bin => head \in Chain
    BY DEF ChainFacts, Linked
  <2>4. \A b \in Chain : next[b] \in Bin => next[b] \in Chain
    BY DEF ChainFacts, Linked
  <2> DEFINE S == {i \in 1 .. Len(kids) : kids[i] \in Chain}
  <2>5. ASSUME NEW i \in 1 .. Len(kids), \A j \in 1 .. i - 1 : j \in S PROVE i \in S
    <3>1. CASE i = 1
      BY <2>1, <2>2, <2>3, <3>1
    <3>2. CASE i # 1
      <4>p. PICK p : p = i - 1
        OBVIOUS
      <4>1. p \in 1 .. i - 1 /\ p \in 1 .. Len(rkeys) /\ p + 1 = i
        BY <2>1, <3>2, <4>p
      <4>2. p \in S /\ next[kids[p]] = kids[i]
        BY <2>1, <2>5, <4>1
      <4>3. QED
        BY <2>2, <2>4, <4>2
    <3>3. QED
      BY <3>1, <3>2
  <2>6. S \in SUBSET (1 .. Len(kids))
    OBVIOUS
  <2> HIDE DEF S
  <2>7. S = 1 .. Len(kids)
    BY <2>1, <2>5, <2>6, OneByOne
  <2>8. \A i \in 1 .. Len(kids) : kids[i] \in Chain
    BY <2>7 DEF S
  <2>9. KidsPlaced
    BY <2>8 DEF KidsPlaced, Placed
  <2>10. QED
    BY <1>3, <2>9 DEF LinkInv
<1>5. CASE ~rooted
  <2>1. PICK start \in Starts, place \in [1 .. Cardinality(Bin) -> Bin] :
            /\ kids = IF Len(start) < 2 THEN <<>> ELSE [i \in 1 .. Len(start) |-> place[i]]
            /\ rooted = (Len(start) > 1)
    BY DEF Init
  <2>2. Len(start) \in Nat
    BY StartAssumption DEF StartAssumption
  <2>n. PICK n : n = Len(start)
    OBVIOUS
  <2>3. n \in Nat /\ rooted = (n > 1) /\ (n < 2 => kids = <<>>)
    BY <2>1, <2>2, <2>n
  <2>4. ~(n > 1)
    BY <1>5, <2>3, Zenon
  <2>5. kids = <<>>
    BY <2>3, <2>4
  <2>6. KidsPlaced
    BY <2>5 DEF KidsPlaced
  <2>7. QED
    BY <1>3, <2>6 DEF LinkInv
<1>6. QED
  BY <1>4, <1>5

\* Every step, with a root and without.
LEMMA AnyStays ==
    ASSUME IInv, LinkInv, ChainFacts, ChainFacts', NEW t \in Thread, Call(t) \/ Step(t)
    PROVE  Stays(t) /\ Keeps(t)
<1>1. Keeps(t)
  BY AnyStep
<1>2. CASE Call(t) \/ Return(t) \/ Unlock(t)
           \/ FindStart(t) \/ ReadRootVersion(t) \/ ReadRootSlot(t) \/ CheckRoot(t)
           \/ ReadChild(t) \/ ReadChildVersion(t) \/ ReadKeys(t) \/ CheckChild(t)
           \/ Duplicate(t) \/ NeedRetrain(t) \/ NewHead(t) \/ SkipSeparator(t) \/ WantSeparator(t)
           \/ SetSeparator(t) \/ GiveUp(t)
  BY <1>1, <1>2, AwaySteps
<1>3. CASE Hop(t) \/ InsertStart(t) \/ LockRoot(t) \/ LockChild(t) \/ ChooseLeft(t) \/ LockLeft(t)
           \/ ReadVersion(t) \/ CheckVersion(t)
  BY <1>1, <1>3, HopStays, InsertStartStays, LockRootStays, LockChildStays, ChooseLeftStays,
     LockLeftStays, VersionStays
<1>4. CASE PutInChild(t) \/ PutAlone(t) \/ Borrow(t) \/ NewChild(t)
  BY <1>1, <1>4, PutStays, BorrowStays, NewChildStays
<1>5. CASE Split(t) \/ SplitAlone(t) \/ PublishHead(t) \/ StoreRoot(t) \/ GiveBack(t)
           \/ SeeNoRoot(t) \/ Overrun(t)
  BY <1>1, <1>5, SplitStays, SplitAloneStays, PublishHeadStays, FirstRootStays, GivenBackStays,
     SeenStays
<1>6. QED
  BY <1>1, <1>2, <1>3, <1>4, <1>5, LookAgainIs DEF Step

\* One step of the whole bin, or none.
LEMMA NextLinks ==
    ASSUME IInv, LinkInv, ChainFacts, ChainFacts', [Next]_vars
    PROVE  LinkInv' /\ [~lost' => Stored \subseteq Stored']_vars
<1>1. ASSUME NEW t \in Thread, Call(t) \/ Step(t)
      PROVE  LinkInv' /\ (~lost' => Stored \subseteq Stored')
  <2>1. Stays(t) /\ Keeps(t)
    BY <1>1, AnyStays
  <2>2. LinkInv'
    BY <2>1, LinksKept DEF Stays
  <2>3. QED
    BY <2>1, <2>2 DEF Stays
<1>2. CASE UNCHANGED vars
  <2>1. UNCHANGED <<head, keys, next, kids, lost, pc, child, nb>>
    BY <1>2 DEF vars, shared, bins, root, local, history
  <2>2. Chain' = Chain
    BY <2>1, ChainSame
  <2>3. \A b : Placed(b)' <=> Placed(b)
    BY <2>1, <2>2 DEF Placed, Pending
  <2>4. \A t \in Thread : Halved(t)' <=> Halved(t)
    BY <2>1 DEF Halved, Mid
  <2>5. KidsPlaced' <=> KidsPlaced
    BY <2>1, <2>2 DEF KidsPlaced, Placed, Pending
  <2>6. \A t \in Thread : Knowing(t)' <=> Knowing(t)
    BY <2>1, <2>2 DEF Knowing, Placed, Pending
  <2> HIDE DEF Halved, Knowing, KidsPlaced, Placed
  <2>7. LinkInv'
    BY <2>1, <2>4, <2>5, <2>6 DEF LinkInv
  <2>8. QED
    BY <1>2, <2>7
<1>3. QED
  BY <1>1, <1>2 DEF Next

\* The invariant holds in every state of every run.
THEOREM LinkInvariance == Spec => []LinkInv
<1>0. ChainFacts
  BY ChainIs
<1>1. Init => LinkInv
  BY <1>0, InitLinks
<1>2. IInv /\ LinkInv /\ ChainFacts /\ ChainFacts' /\ [Next]_vars => LinkInv'
  BY NextLinks
<1>3. QED
  BY <1>0, <1>1, <1>2, ChainIs, Invariance, PTL DEF Spec

\* No step of any thread takes a key out of the chain, with a root and without,
\* while the first root is stored and the first arrays are split, up to the moment
\* where the pointer to the first array is overwritten (m_headbin, line 892) or an
\* insert acts on a check of the room or of the root that no longer holds (lines
\* 753, 802 and 981).  Below a root neither happens (BinKeepsItsStructure).
THEOREM KeysNeverLeave == Spec => KeysStay
<1>1. IInv /\ LinkInv /\ ChainFacts /\ ChainFacts' /\ [Next]_vars
        => [~lost' /\ Defined' => Stored \subseteq Stored']_vars
  BY NextLinks
<1>2. QED
  BY <1>1, ChainIs, Invariance, LinkInvariance, PTL DEF Spec, KeysStay
=============================================================================
