------------------------------- MODULE ConBin -------------------------------
(***************************************************************************)
(* The con_ protocol of LevelBinCon (include/level_bin_con.h): con_insert  *)
(* and con_find called by several threads without any lock around the bin. *)
(* Every array has a lock byte and a version.  An insert locks the root    *)
(* and the arrays it changes; while there is no root (one array) it locks  *)
(* that array only.  A find takes no lock: it reads a version, then the    *)
(* data, then lock and version, and tries again if either tells of a       *)
(* writer.                                                                 *)
(*                                                                         *)
(* What a writer changes between its locks and its unlocks is one step,    *)
(* with the version increments: whoever reads in between sees the lock.    *)
(* A check made before a lock is a step of its own; where what was checked *)
(* has changed by the time it is acted on, the thread goes to "overrun".   *)
(* Slots are 1-based; values move with their keys and are left out.        *)
(***************************************************************************)
EXTENDS Integers, Sequences, FiniteSets, SequencesExt

CONSTANTS
    Thread,
    Key,          \* key_type, ordered by <
    Bin,          \* the addresses allocate_childbin can return
    NoBin,        \* the null pointer
    Root,         \* the root array: a name for its lock and its version
    RootMax,      \* rootslotmax, 8 in the code
    ChildMax,     \* childslotmax, 16 in the code
    Starts,       \* what the bin may hold at first: keys per array
    MaxOps        \* bound: calls a thread makes

ASSUME KeyAssumption   == Key \subseteq Int
ASSUME NameAssumption  == NoBin \notin Bin /\ Root \notin Bin /\ NoBin # Root /\ IsFiniteSet(Bin)
ASSUME BoundAssumption == RootMax \in Nat \ {0} /\ ChildMax \in Nat \ {0, 1} /\ MaxOps \in Nat

Ascending(s) == \A i, j \in DOMAIN s : i < j => s[i] < s[j]

\* Arrays ascend; below a root no array is empty and keys are in order.
ASSUME StartAssumption ==
    \A start \in Starts :
        /\ start \in Seq(Seq(Key)) /\ Len(start) <= Cardinality(Bin) /\ Len(start) <= RootMax + 1
        /\ \A i \in DOMAIN start : Len(start[i]) <= ChildMax /\ Ascending(start[i])
        /\ Len(start) > 1 =>
            /\ \A i \in DOMAIN start : start[i] # <<>>
            /\ \A i \in 1 .. Len(start) - 1 : Last(start[i]) < start[i + 1][1]

VARIABLES
    live,       \* child arrays allocated
    keys,       \* child array -> its keys; Len is its slotuse
    next,       \* child array -> nextbin
    head, tail, \* m_headbin, m_tailbin
    rkeys,      \* the separators in the root
    kids,       \* the children of the root; <<>> while m_root is null
    ver,        \* array -> version
    locked,     \* the arrays whose lock byte is set
    retr,       \* is_retraining
    pc, call, child, nb, slot, known, res,
    unl,        \* the locks a thread has still to release
    done,       \* calls a thread has completed
    before,     \* history: the called key was stored when the call began
    moved,      \* history: keys changed arrays behind a reader's back
    lost,       \* history: m_headbin was overwritten
    rooted      \* history: there was a root from the start

bins    == <<live, keys, next, head, tail>>
root    == <<rkeys, kids>>
shared  == <<bins, root, ver, locked, retr>>
local   == <<call, child, nb, slot, known, res, unl, done>>
history == <<before, moved, lost, rooted>>
vars    == <<shared, pc, local, history>>

HasRoot == kids # <<>>
key(t)  == call[t].key

\* find_lower
Lower(s, k) == Cardinality({i \in DOMAIN s : s[i] < k}) + 1
In(b, k)    == \E i \in DOMAIN keys[b] : keys[b][i] = k

IsFull(b)     == Len(keys[b]) = ChildMax

\* The arrays in the chain, and the keys in them.
Reach[n \in 0 .. Cardinality(Bin)] ==
    IF n = 0 THEN {head} \cap Bin
    ELSE Reach[n - 1] \cup ({next[b] : b \in Reach[n - 1]} \cap Bin)
Chain  == Reach[Cardinality(Bin)]
Stored == UNION {ToSet(keys[b]) : b \in Chain}

-----------------------------------------------------------------------------
\* A bin at rest: nothing, one array, or a root over several.
Init ==
    \E start \in Starts, place \in [1 .. Cardinality(Bin) -> Bin] :
        LET n == Len(start)
            At(b) == {i \in 1 .. n : place[i] = b}
        IN
        /\ IsInjective(place)
        /\ live = {place[i] : i \in 1 .. n}
        /\ keys = [b \in Bin |-> IF At(b) = {} THEN <<>> ELSE start[CHOOSE i \in At(b) : TRUE]]
        /\ next = [b \in Bin |-> IF \E i \in At(b) : i < n
                                 THEN place[1 + CHOOSE i \in At(b) : TRUE] ELSE NoBin]
        /\ head = IF n = 0 THEN NoBin ELSE place[1]
        /\ tail = IF n = 0 THEN NoBin ELSE place[n]
        /\ rkeys = IF n < 2 THEN <<>> ELSE [i \in 1 .. n - 1 |-> Last(start[i])]
        /\ kids = IF n < 2 THEN <<>> ELSE [i \in 1 .. n |-> place[i]]
        /\ ver = [b \in Bin \cup {Root} |-> 0]
        /\ locked = {}
        /\ retr = FALSE
        /\ pc = [t \in Thread |-> "idle"]
        /\ call = [t \in Thread |-> [op |-> "none", key |-> 0]]
        /\ child = [t \in Thread |-> NoBin]
        /\ nb = [t \in Thread |-> NoBin]
        /\ slot = [t \in Thread |-> 0]
        /\ known = [t \in Thread |-> 0]
        /\ res = [t \in Thread |-> "none"]
        /\ unl = [t \in Thread |-> <<>>]
        /\ done = [t \in Thread |-> 0]
        /\ before = [t \in Thread |-> FALSE]
        /\ moved = [t \in Thread |-> FALSE]
        /\ lost = FALSE
        /\ rooted = (n > 1)

GoTo(t, label) == pc' = [pc EXCEPT ![t] = label]
Finish(t, r) ==
    /\ GoTo(t, "return")
    /\ res' = [res EXCEPT ![t] = r]

\* The answer is known; these locks are released one by one, in this order.
Release(t, r, locks) ==
    /\ GoTo(t, "unlock")
    /\ res' = [res EXCEPT ![t] = r]
    /\ unl' = [unl EXCEPT ![t] = locks]

Bump(arrays) == ver' = [a \in Bin \cup {Root} |-> IF a \in arrays THEN ver[a] + 1 ELSE ver[a]]

Call(t) ==
    /\ pc[t] = "idle" /\ done[t] < MaxOps
    /\ \E op \in {"find", "insert"}, k \in Key :
        /\ call' = [call EXCEPT ![t] = [op |-> op, key |-> k]]
        /\ before' = [before EXCEPT ![t] = k \in Stored]
        /\ GoTo(t, op)
    /\ moved' = [moved EXCEPT ![t] = FALSE]
    /\ UNCHANGED <<shared, child, nb, slot, known, res, unl, done, lost, rooted>>

Return(t) ==
    /\ pc[t] = "return"
    /\ GoTo(t, "idle")
    /\ child' = [child EXCEPT ![t] = NoBin]
    /\ nb' = [nb EXCEPT ![t] = NoBin]
    /\ slot' = [slot EXCEPT ![t] = 0]
    /\ known' = [known EXCEPT ![t] = 0]
    /\ res' = [res EXCEPT ![t] = "none"]
    /\ done' = [done EXCEPT ![t] = @ + 1]
    /\ UNCHANGED <<shared, call, unl, history>>

\* Fault for CallsReturn: the first lock only is released.
UnlockFirst(t) ==
    /\ pc[t] = "unlock"
    /\ locked' = locked \ {Head(unl[t])}
    /\ unl' = [unl EXCEPT ![t] = <<>>]
    /\ GoTo(t, "return")
    /\ UNCHANGED <<bins, root, ver, retr, call, child, nb, slot, known, res, done, history>>

\* Locks are bytes: whoever stores a zero unlocks, the owner or not.
Unlock(t) ==
    /\ pc[t] = "unlock"
    /\ locked' = locked \ {Head(unl[t])}
    /\ unl' = [unl EXCEPT ![t] = Tail(@)]
    /\ IF Len(unl[t]) = 1 THEN GoTo(t, "return") ELSE UNCHANGED pc
    /\ UNCHANGED <<bins, root, ver, retr, call, child, nb, slot, known, res, done, history>>

-----------------------------------------------------------------------------
(* con_find *)

FindStart(t) ==
    /\ pc[t] = "find"
    /\ IF HasRoot THEN GoTo(t, "rver") /\ UNCHANGED <<child, res>>
       ELSE IF head = NoBin THEN Finish(t, "failed") /\ UNCHANGED child
       ELSE /\ child' = [child EXCEPT ![t] = head]
            /\ GoTo(t, "cver")
            /\ UNCHANGED res
    /\ UNCHANGED <<shared, call, nb, slot, known, unl, done, history>>

ReadRootVersion(t) ==
    /\ pc[t] = "rver"
    /\ known' = [known EXCEPT ![t] = ver[Root]]
    /\ GoTo(t, "rslot")
    /\ UNCHANGED <<shared, call, child, nb, slot, res, unl, done, history>>

ReadRootSlot(t) ==
    /\ pc[t] = "rslot"
    /\ slot' = [slot EXCEPT ![t] = Lower(rkeys, key(t))]
    /\ GoTo(t, "rcheck")
    /\ UNCHANGED <<shared, call, child, nb, known, res, unl, done, history>>

CheckRoot(t) ==
    /\ pc[t] = "rcheck"
    /\ GoTo(t, IF Root \in locked \/ ver[Root] # known[t] THEN "find" ELSE "rchild")
    /\ UNCHANGED <<shared, local, history>>

ReadChild(t) ==
    /\ pc[t] = "rchild"
    /\ child' = [child EXCEPT ![t] = kids[slot[t]]]
    /\ GoTo(t, "cver")
    /\ UNCHANGED <<shared, call, nb, slot, known, res, unl, done, history>>

\* The version of the array to search: the first one, and again after a
\* change was noticed, before the neighbour is looked at.
ReadChildVersion(t) ==
    /\ \/ pc[t] = "cver" /\ GoTo(t, "ckeys")
       \/ pc[t] = "renew" /\ GoTo(t, "hop")
    /\ known' = [known EXCEPT ![t] = ver[child[t]]]
    /\ UNCHANGED <<shared, call, child, nb, slot, res, unl, done, history>>

ReadKeys(t) ==
    /\ pc[t] = "ckeys"
    /\ res' = [res EXCEPT ![t] = IF In(child[t], key(t)) THEN "ok" ELSE "failed"]
    /\ GoTo(t, "ccheck")
    /\ UNCHANGED <<shared, call, child, nb, slot, known, unl, done, history>>

\* Fault for AnswersAreTrue: the lock and version of the array are not looked at.
CheckNothing(t) ==
    /\ pc[t] = "ccheck"
    /\ GoTo(t, "return")
    /\ UNCHANGED <<shared, local, history>>

CheckChild(t) ==
    /\ pc[t] = "ccheck"
    /\ GoTo(t, IF child[t] \in locked \/ ver[child[t]] # known[t] THEN "renew" ELSE "return")
    /\ UNCHANGED <<shared, local, history>>

\* The array to the right starts at or below the key: go on there.
Beyond(t) ==
    LET n == next[child[t]] IN n # NoBin /\ keys[n] # <<>> /\ keys[n][1] <= key(t)

\* A find searches the array it ends up in, an insert locks it.
Hop(t) ==
    /\ pc[t] \in {"hop", "shop"}
    /\ IF Beyond(t)
       THEN /\ child' = [child EXCEPT ![t] = next[child[t]]]
            /\ known' = [known EXCEPT ![t] = ver[next[child[t]]]]
            /\ slot' = IF pc[t] = "shop" THEN [slot EXCEPT ![t] = @ + 1] ELSE slot
            /\ UNCHANGED pc
       ELSE /\ GoTo(t, IF pc[t] = "hop" THEN "ckeys" ELSE "slock")
            /\ UNCHANGED <<child, known, slot>>
    /\ UNCHANGED <<shared, call, nb, res, unl, done, history>>

-----------------------------------------------------------------------------
(* con_insert with a root: root and arrays are locked. *)

InsertStart(t) ==
    /\ pc[t] = "insert"
    /\ IF retr THEN Finish(t, "retry") /\ UNCHANGED child
       ELSE /\ GoTo(t, IF HasRoot THEN "wroot" ELSE IF head = NoBin THEN "new" ELSE "sver")
            /\ child' = IF HasRoot THEN child ELSE [child EXCEPT ![t] = head]
            /\ UNCHANGED res
    /\ slot' = [slot EXCEPT ![t] = 1]
    /\ UNCHANGED <<shared, call, nb, known, unl, done, history>>

LockRoot(t) ==
    /\ pc[t] = "wroot" /\ Root \notin locked
    /\ locked' = locked \cup {Root}
    /\ IF retr THEN Release(t, "retry", <<Root>>) /\ UNCHANGED <<slot, child>>
       ELSE /\ slot' = [slot EXCEPT ![t] = Lower(rkeys, key(t))]
            /\ child' = [child EXCEPT ![t] = kids[Lower(rkeys, key(t))]]
            /\ GoTo(t, "wchild")
            /\ UNCHANGED <<res, unl>>
    /\ UNCHANGED <<bins, root, ver, retr, call, nb, known, done, history>>

\* Fault for WritersExclude: the compare-and-swap does not wait.
LockChildAnyway(t) ==
    /\ \/ pc[t] = "wchild" /\ GoTo(t, "put")
       \/ pc[t] = "slock" /\ GoTo(t, "scheck")
    /\ locked' = locked \cup {child[t]}
    /\ UNCHANGED <<bins, root, ver, retr, local, history>>

LockChild(t) ==
    /\ \/ pc[t] = "wchild" /\ GoTo(t, "put")
       \/ pc[t] = "slock" /\ GoTo(t, "scheck")
    /\ child[t] \notin locked
    /\ locked' = locked \cup {child[t]}
    /\ UNCHANGED <<bins, root, ver, retr, local, history>>

\* curslot: where the key belongs in its array.
Slot(t)      == Lower(keys[child[t]], key(t))
Inserted(t)  == InsertAt(keys[child[t]], Slot(t), key(t))
\* The separator at this slot of the root follows the last key of its array.
Separate(i, k) == IF i \in DOMAIN rkeys THEN [rkeys EXCEPT ![i] = k] ELSE rkeys

Duplicate(t) ==
    /\ pc[t] \in {"put", "sput"} /\ In(child[t], key(t))
    /\ Release(t, "failed", IF pc[t] = "put" THEN <<child[t], Root>> ELSE <<child[t]>>)
    /\ UNCHANGED <<shared, call, child, nb, slot, known, done, history>>

PutInChild(t) ==
    /\ pc[t] = "put" /\ ~In(child[t], key(t)) /\ ~IsFull(child[t])
    /\ keys' = [keys EXCEPT ![child[t]] = Inserted(t)]
    /\ rkeys' = IF Slot(t) > Len(keys[child[t]]) THEN Separate(slot[t], key(t)) ELSE rkeys
    /\ Bump({Root, child[t]})
    /\ Release(t, "ok", <<child[t], Root>>)
    /\ UNCHANGED <<live, next, head, tail, kids, locked, retr,
                   call, child, nb, slot, known, done, history>>

\* The left neighbour has room.
CanBorrow(t) == slot[t] > 1 /\ Len(keys[kids[slot[t] - 1]]) < ChildMax
Crowded(t)   == pc[t] = "put" /\ ~In(child[t], key(t)) /\ IsFull(child[t])

ChooseLeft(t) ==
    /\ Crowded(t) /\ CanBorrow(t)
    /\ nb' = [nb EXCEPT ![t] = kids[slot[t] - 1]]
    /\ GoTo(t, "wprev")
    /\ UNCHANGED <<shared, call, child, slot, known, res, unl, done, history>>

LockLeft(t) ==
    /\ pc[t] = "wprev" /\ nb[t] \notin locked
    /\ locked' = locked \cup {nb[t]}
    /\ GoTo(t, "borrow")
    /\ UNCHANGED <<bins, root, ver, retr, local, history>>

\* History: a reader that has left the root does not look to the left.
Searching(t) == pc[t] \in {"rchild", "cver", "ckeys", "ccheck", "renew", "hop"}
MovedLeft == moved' = [s \in Thread |-> moved[s] \/ Searching(s)]

\* Whoever puts into the left neighbour without a root does not lock the root.
StillRoom(t) == Len(keys[nb[t]]) < ChildMax

\* Fault for Structure: the separator is left behind.
BorrowAlone(t) ==
    /\ pc[t] = "borrow" /\ StillRoom(t)
    /\ LET all == Inserted(t) IN
        keys' = [keys EXCEPT ![nb[t]] = Append(@, all[1]), ![child[t]] = Tail(all)]
    /\ Bump({Root, child[t], nb[t]})
    /\ MovedLeft
    /\ Release(t, "ok", <<nb[t], child[t], Root>>)
    /\ UNCHANGED <<live, next, head, tail, root, locked, retr,
                   call, child, nb, slot, known, done, before, lost, rooted>>

\* The smallest of the keys, the new one included, goes to the left.
Borrow(t) ==
    /\ pc[t] = "borrow" /\ StillRoom(t)
    /\ LET all  == Inserted(t)
           left == Separate(slot[t] - 1, all[1])
           last == Slot(t) > Len(keys[child[t]]) /\ slot[t] \in DOMAIN rkeys
       IN
        /\ keys' = [keys EXCEPT ![nb[t]] = Append(@, all[1]), ![child[t]] = Tail(all)]
        /\ rkeys' = IF last THEN [left EXCEPT ![slot[t]] = key(t)] ELSE left
        /\ Bump(IF all[1] = key(t) THEN {Root, nb[t]} ELSE {Root, child[t], nb[t]})
    /\ MovedLeft
    /\ Release(t, "ok", <<nb[t], child[t], Root>>)
    /\ UNCHANGED <<live, next, head, tail, kids, locked, retr,
                   call, child, nb, slot, known, done, before, lost, rooted>>

NeedRetrain(t) ==
    /\ Crowded(t) /\ ~CanBorrow(t) /\ Len(rkeys) = RootMax
    /\ retr' = TRUE
    /\ Release(t, "retrain", <<child[t], Root>>)
    /\ UNCHANGED <<bins, root, ver, locked, call, child, nb, slot, known, done, history>>

\* newchild: allocated, locked, filled with the upper half.
Mid(b) == Len(keys[b]) \div 2
NewChild(t) ==
    /\ \/ Crowded(t) /\ ~CanBorrow(t) /\ Len(rkeys) # RootMax /\ GoTo(t, "split")
       \/ pc[t] = "ssplit" /\ ~HasRoot /\ GoTo(t, "grow")
    /\ \E b \in Bin \ live :
        /\ live' = live \cup {b}
        /\ locked' = locked \cup {b}
        /\ nb' = [nb EXCEPT ![t] = b]
        /\ keys' = [keys EXCEPT ![b] = SubSeq(keys[child[t]], Mid(child[t]) + 1, Len(keys[child[t]]))]
        /\ next' = [next EXCEPT ![b] = next[child[t]]]
    /\ UNCHANGED <<head, tail, root, ver, retr, call, child, slot, known, res, unl, done, history>>

\* The two halves with the new key in the one it belongs to.
Halves(t) ==
    LET lower == SubSeq(keys[child[t]], 1, Mid(child[t]))
        upper == keys[nb[t]]
        k     == key(t)
    IN  IF Slot(t) <= Mid(child[t]) + 1
        THEN <<InsertAt(lower, Lower(lower, k), k), upper>>
        ELSE <<lower, InsertAt(upper, Lower(upper, k), k)>>

\* Both halves are in the chain, and tail follows.
Link(t) ==
    /\ next' = [next EXCEPT ![child[t]] = nb[t]]
    /\ tail' = IF next[nb[t]] = NoBin THEN nb[t] ELSE tail
    /\ keys' = [keys EXCEPT ![child[t]] = Halves(t)[1], ![nb[t]] = Halves(t)[2]]

\* History: a split goes unnoticed by a reader that has left the root and not
\* yet read its array's version.
Shifted(t) ==
    moved' = [s \in Thread |->
        \/ moved[s] \/ pc[s] = "rchild"
        \/ pc[s] = "cver" /\ child[s] = child[t]]

Split(t) ==
    /\ pc[t] = "split" /\ Len(rkeys) < RootMax
    /\ Link(t)
    /\ rkeys' = InsertAt(rkeys, slot[t], Last(Halves(t)[1]))
    /\ kids' = InsertAt(kids, slot[t] + 1, nb[t])
    /\ Bump({Root, child[t], nb[t]})
    /\ Shifted(t)
    /\ Release(t, "ok", <<child[t], nb[t], Root>>)
    /\ UNCHANGED <<live, head, locked, retr, call, child, nb, slot, known, done, before, lost, rooted>>

-----------------------------------------------------------------------------
(* con_insert without a root: only the one array is locked. *)

\* allocate_childbin, then m_headbin is looked at again.
NewHead(t) ==
    /\ pc[t] = "new"
    /\ IF head # NoBin
       THEN GoTo(t, "insert") /\ UNCHANGED <<live, child>>
       ELSE \E b \in Bin \ live :
            /\ live' = live \cup {b}
            /\ child' = [child EXCEPT ![t] = b]
            /\ GoTo(t, "publish")
    /\ UNCHANGED <<keys, next, head, tail, root, ver, locked, retr,
                   call, nb, slot, known, res, unl, done, history>>

\* m_headbin = m_tailbin = child, whatever m_headbin is by now.
PublishHead(t) ==
    /\ pc[t] = "publish"
    /\ head' = child[t] /\ tail' = child[t]
    /\ lost' = (lost \/ head # NoBin)
    /\ GoTo(t, "sver")
    /\ UNCHANGED <<live, keys, next, root, ver, locked, retr, local, before, moved, rooted>>

ReadVersion(t) ==
    /\ pc[t] = "sver"
    /\ known' = [known EXCEPT ![t] = ver[child[t]]]
    /\ GoTo(t, "slock")
    /\ UNCHANGED <<shared, call, child, nb, slot, res, unl, done, history>>

\* The array was split since its version was read: unlock it and walk on.
CheckVersion(t) ==
    /\ pc[t] = "scheck"
    /\ IF ver[child[t]] = known[t]
       THEN GoTo(t, "sput") /\ UNCHANGED <<locked, known>>
       ELSE /\ locked' = locked \ {child[t]}
            /\ known' = [known EXCEPT ![t] = ver[child[t]]]
            /\ GoTo(t, "shop")
    /\ UNCHANGED <<bins, root, ver, retr, call, child, nb, slot, res, unl, done, history>>

\* Fault for KeysStay: the last key makes room for the new one.
PutOver(t) ==
    /\ pc[t] = "sput" /\ ~In(child[t], key(t))
    /\ IF IsFull(child[t])
       THEN GoTo(t, "ssplit") /\ UNCHANGED keys
       ELSE /\ keys' = [keys EXCEPT ![child[t]] =
                           IF @ = <<>> THEN <<key(t)>> ELSE Front(Inserted(t))]
            /\ GoTo(t, "sroot")
    /\ UNCHANGED <<live, next, head, tail, root, ver, locked, retr, local, history>>

PutAlone(t) ==
    /\ pc[t] = "sput" /\ ~In(child[t], key(t))
    /\ IF IsFull(child[t])
       THEN GoTo(t, "ssplit") /\ UNCHANGED keys
       ELSE /\ keys' = [keys EXCEPT ![child[t]] = Inserted(t)]
            /\ GoTo(t, "sroot")
    /\ UNCHANGED <<live, next, head, tail, root, ver, locked, retr, local, history>>

\* A root appeared meanwhile, and the new key is the last one of its array.
NewLast(t) == HasRoot /\ Last(keys[child[t]]) = key(t) /\ slot[t] \in DOMAIN rkeys

\* No separator to change: the root is not locked, yet unlocked in the end.
SkipSeparator(t) ==
    /\ pc[t] = "sroot" /\ ~NewLast(t)
    /\ Bump(IF HasRoot THEN {child[t], Root} ELSE {child[t]})
    /\ Release(t, "ok", IF HasRoot THEN <<child[t], Root>> ELSE <<child[t]>>)
    /\ UNCHANGED <<bins, root, locked, retr, call, child, nb, slot, known, done, history>>

WantSeparator(t) ==
    /\ pc[t] = "sroot" /\ NewLast(t)
    /\ GoTo(t, "srlock")
    /\ UNCHANGED <<shared, local, history>>

\* The root is locked after the array: the other inserts lock it before.
SetSeparator(t) ==
    /\ pc[t] = "srlock" /\ Root \notin locked
    /\ locked' = locked \cup {Root}
    /\ rkeys' = [rkeys EXCEPT ![slot[t]] = key(t)]
    /\ Bump({child[t], Root})
    /\ Release(t, "ok", <<child[t], Root>>)
    /\ UNCHANGED <<bins, kids, retr, call, child, nb, slot, known, done, history>>

\* con_split_child_bin finds a root it did not expect, and returns with both
\* arrays locked; the new one is not in the chain.
GiveUp(t) ==
    /\ pc[t] = "ssplit" /\ HasRoot
    /\ \E b \in Bin \ live :
        /\ live' = live \cup {b}
        /\ locked' = locked \cup {b}
    /\ Finish(t, "failed")
    /\ UNCHANGED <<keys, next, head, tail, root, ver, retr,
                   call, child, nb, slot, known, unl, done, history>>

\* m_root is looked at again.  A root appeared: the new array is given back.
\* There is none yet: another thread may store one before this one does.
LookAgain(t) ==
    /\ pc[t] = "grow"
    /\ IF HasRoot
       THEN /\ locked' = locked \ {child[t], nb[t]}
            /\ live' = live \ {nb[t]}
            /\ keys' = [keys EXCEPT ![nb[t]] = <<>>]
            /\ next' = [next EXCEPT ![nb[t]] = NoBin]
            /\ GoTo(t, "insert")
       ELSE GoTo(t, "raise") /\ UNCHANGED <<locked, live, keys, next>>
    /\ UNCHANGED <<root, head, tail, ver, retr, local, history>>

\* The first root is stored, with its lock set.
StoreRoot(t) ==
    /\ pc[t] = "raise" /\ ~HasRoot
    /\ rkeys' = <<keys[child[t]][Mid(child[t])]>>
    /\ kids' = <<child[t], nb[t]>>
    /\ locked' = locked \cup {Root}
    /\ GoTo(t, "halve")
    /\ UNCHANGED <<bins, ver, retr, local, history>>

SplitAlone(t) ==
    /\ pc[t] = "halve"
    /\ Link(t)
    /\ rkeys' = [rkeys EXCEPT ![1] = Last(Halves(t)[1])]
    /\ Bump({Root, child[t], nb[t]})
    /\ Shifted(t)
    /\ Release(t, "ok", <<child[t], nb[t], Root>>)
    /\ UNCHANGED <<live, head, kids, locked, retr, call, child, nb, slot, known, done, before, lost, rooted>>

-----------------------------------------------------------------------------
\* A check that no longer holds.  The left neighbour was filled, or the root:
\* the code writes behind the end of slotkey and slotdata.  Or a root was
\* stored: the code stores its own over it.
Stale(t) ==
    \/ pc[t] = "borrow" /\ ~StillRoom(t)
    \/ pc[t] = "split" /\ Len(rkeys) = RootMax
    \/ pc[t] = "raise" /\ HasRoot

\* The thread acts on it.  What it writes then is not modelled: it stands there
\* with its locks, as if it had been suspended right before.
Overrun(t) ==
    /\ Stale(t)
    /\ GoTo(t, "overrun")
    /\ UNCHANGED <<shared, local, history>>
Defined == \A t \in Thread : pc[t] # "overrun"

Step(t) ==
    \/ Return(t) \/ Unlock(t)
    \/ FindStart(t) \/ ReadRootVersion(t) \/ ReadRootSlot(t) \/ CheckRoot(t)
    \/ ReadChild(t) \/ ReadChildVersion(t) \/ ReadKeys(t) \/ CheckChild(t) \/ Hop(t)
    \/ InsertStart(t) \/ LockRoot(t) \/ LockChild(t) \/ Duplicate(t) \/ PutInChild(t)
    \/ ChooseLeft(t) \/ LockLeft(t) \/ Borrow(t)
    \/ NeedRetrain(t) \/ NewChild(t) \/ Split(t)
    \/ NewHead(t) \/ PublishHead(t) \/ ReadVersion(t) \/ CheckVersion(t)
    \/ PutAlone(t) \/ SkipSeparator(t) \/ WantSeparator(t) \/ SetSeparator(t)
    \/ GiveUp(t) \/ LookAgain(t) \/ StoreRoot(t) \/ SplitAlone(t)
    \/ Overrun(t)

Next == \E t \in Thread : Call(t) \/ Step(t)
Spec == Init /\ [][Next]_vars

\* A thread that runs keeps running.
Fairness == \A t \in Thread : WF_vars(Step(t))
FairSpec == Spec /\ Fairness

-----------------------------------------------------------------------------
(* Properties. *)

\* Every variable keeps its type.
Labels ==
    {"idle", "find", "rver", "rslot", "rcheck", "rchild", "cver", "ckeys", "ccheck", "renew", "hop",
     "insert", "wroot", "wchild", "put", "wprev", "borrow", "split",
     "new", "publish", "sver", "slock", "scheck", "shop", "sput", "ssplit", "sroot", "srlock",
     "grow", "raise", "halve", "overrun", "unlock", "return"}
TypeOK ==
    /\ live \subseteq Bin /\ locked \subseteq live \cup {Root}
    /\ keys \in [Bin -> Seq(Key)]
    /\ next \in [Bin -> live \cup {NoBin}] /\ {head, tail} \subseteq live \cup {NoBin}
    /\ rkeys \in Seq(Key)
    /\ kids \in Seq(live) /\ Len(kids) = (IF HasRoot THEN Len(rkeys) + 1 ELSE 0)
    /\ ver \in [Bin \cup {Root} -> Nat]
    /\ {retr, lost, rooted} \subseteq BOOLEAN
    /\ pc \in [Thread -> Labels]
    /\ call \in [Thread -> [op : {"none", "find", "insert"}, key : Key \cup {0}]]
    /\ child \in [Thread -> Bin \cup {NoBin}] /\ nb \in [Thread -> Bin \cup {NoBin}]
    /\ slot \in [Thread -> Nat] /\ known \in [Thread -> Nat] /\ done \in [Thread -> Nat]
    /\ res \in [Thread -> {"none", "ok", "failed", "retry", "retrain"}]
    /\ unl \in [Thread -> Seq(live \cup {Root})]
    /\ before \in [Thread -> BOOLEAN] /\ moved \in [Thread -> BOOLEAN]

\* assert(root->locked == 1) in the split (line 824): the thread locked the
\* root before and nobody else unlocks it.
RootStaysLocked == \A t \in Thread : pc[t] = "split" => Root \in locked

\* No pointer leads to an array that was given back, whichever thread published
\* the first array and the first root (free_childbin, lines 888 and 983).
HasTwo(t) == pc[t] \in {"wprev", "borrow", "split", "grow", "raise", "halve"}
NothingDangles ==
    /\ {head, tail} \subseteq live \cup {NoBin}
    /\ \A b \in Bin : next[b] \in live \cup {NoBin}
    /\ \A i \in DOMAIN kids : kids[i] \in live
    /\ \A t \in Thread : child[t] \in live \cup {NoBin} /\ (HasTwo(t) => nb[t] \in live)

\* self_check (lines 366-391) and the chain: the arrays the root points to are
\* the chain, ascend from end to end, and each separator is the last key of
\* its array.  So every stored key is where find_lower sends a search for it.
\* No array holds more than it has room for, and no thread acts on a check that
\* no longer holds (the room left of an array is looked at before its lock is
\* taken, line 753).  With a root and without, nothing dangles.
Structure ==
    /\ TypeOK /\ NothingDangles
    /\ rooted =>
         /\ Defined
         /\ Len(rkeys) <= RootMax /\ \A b \in Bin : Len(keys[b]) <= ChildMax
         /\ head = kids[1] /\ tail = Last(kids) /\ next[tail] = NoBin
         /\ \A i \in DOMAIN rkeys :
                /\ next[kids[i]] = kids[i + 1]
                /\ rkeys[i] = Last(keys[kids[i]])
                /\ rkeys[i] < keys[kids[i + 1]][1]
         /\ \A i \in DOMAIN kids : Ascending(keys[kids[i]])

\* No two threads change the same child array: each holds its lock, with a
\* root and without.  Where there was a root from the start it stays locked
\* while an array is split; without one an insert unlocks it for another.
Changes(t) ==
    IF pc[t] \in {"put", "wprev", "split", "sput", "ssplit", "sroot", "srlock", "scheck"}
    THEN {child[t]}
    ELSE IF pc[t] \in {"borrow", "grow", "raise", "halve"} THEN {child[t], nb[t]} ELSE {}
WritersExclude ==
    /\ \A s, t \in Thread : s # t => Changes(s) \cap Changes(t) = {}
    /\ rooted => RootStaysLocked

\* A find that returns true found a stored key.  One that returns false was
\* called before the key was stored, unless keys moved to the left, or a split
\* fell between its check of the root and its reading the array's version.
\* After a change of the array it only looks to the right (lines 533-542),
\* which is enough for every other split.  An insert that returns ok, or failed
\* because the key was there, leaves it stored.
FindIsTrue(t)   == IF res[t] = "ok" THEN key(t) \in Stored ELSE ~before[t] \/ moved[t]
InsertIsTrue(t) == res[t] \in {"ok", "failed"} => key(t) \in Stored
AnswersAreTrue ==
    rooted => \A t \in Thread : pc[t] = "return" =>
        IF call[t].op = "find" THEN FindIsTrue(t) ELSE InsertIsTrue(t)

\* What is in the chain stays there, in any bin, as long as neither the first
\* array was overwritten (line 892) nor a thread acted on a check that no longer
\* held (line 753): either can lose keys.
KeysStay == [][~lost' /\ Defined' => Stored \subseteq Stored']_vars

\* self_check (lines 366-391) holds whenever no call is under way: arrays ascend,
\* a separator is the last key of its array, head and tail are the ends.
SelfCheck ==
    LET arrays == IF HasRoot THEN kids ELSE IF head = NoBin THEN <<>> ELSE <<head>>
    IN  /\ \A i \in DOMAIN arrays : Ascending(keys[arrays[i]])
        /\ \A i \in DOMAIN rkeys : rkeys[i] = Last(keys[kids[i]])
        /\ arrays # <<>> => head = arrays[1] /\ tail = Last(arrays)
QuietSelfCheck == (\A t \in Thread : pc[t] = "idle") => SelfCheck

\* Every call returns: no lock is left behind by an insert with a root, and no
\* two threads wait for each other.
CallsReturn == \A t \in Thread : pc[t] # "idle" ~> pc[t] = "idle"
=============================================================================
