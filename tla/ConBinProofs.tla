---------------------------- MODULE ConBinProofs ----------------------------
(***************************************************************************)
(* What holds of the con_ protocol for any number of threads and arrays.   *)
(***************************************************************************)
EXTENDS ConBin, Basics

\* With a root an insert holds the root and the arrays below it; without one
\* it holds an array and, once that is split, the new one.
AtRoot  == {"wchild", "put", "wprev", "borrow", "split"}
AtTwo   == {"wprev", "borrow", "split", "grow", "raise", "halve"}
Alone   == {"new", "publish", "sver", "slock", "scheck", "shop", "sput", "ssplit", "sroot", "srlock",
            "grow", "raise", "halve"}
AtChild == {"cver", "ckeys", "ccheck", "renew", "hop"} \cup AtRoot \cup (Alone \ {"new"})

\* The child arrays whose locks a thread has set and not yet released.
Owns(t) ==
    IF pc[t] = "unlock" THEN ToSet(unl[t]) \ {Root}
    ELSE IF pc[t] = "split" THEN {child[t], nb[t]} ELSE Changes(t)
LockInv ==
    \A t \in Thread :
        /\ Owns(t) \subseteq locked
        /\ \A s \in Thread : s # t => Owns(s) \cap Owns(t) = {}

\* The arrays somebody can come to; a new one is not yet among them.
Named ==
    {head, tail} \cup {kids[i] : i \in DOMAIN kids} \cup {next[b] : b \in Bin}
    \cup {child[s] : s \in Thread} \cup {nb[s] : s \in {r \in Thread : pc[r] = "wprev"}}

\* Where a thread is, and what it knows of the arrays there.
ThreadOK(t) ==
    /\ pc[t] # "idle" => key(t) \in Key
    /\ child[t] \in live \cup {NoBin} /\ (pc[t] \in AtChild => child[t] \in live)
    /\ pc[t] \in AtTwo => nb[t] \in live
    /\ pc[t] \in {"borrow", "split", "grow", "raise", "halve"} => child[t] # nb[t]
    /\ pc[t] \in {"rver", "rslot", "wroot", "halve"} => HasRoot
    /\ pc[t] \in AtRoot \cup {"rcheck", "rchild"} => slot[t] \in 1 .. Len(kids)
    /\ pc[t] \in {"ssplit", "split", "grow", "raise", "halve"} => Len(keys[child[t]]) = ChildMax
    /\ IsInjective(unl[t]) /\ (pc[t] = "unlock" <=> unl[t] # <<>>)
    /\ pc[t] \in {"grow", "raise"} => nb[t] \notin Named

\* Who has locked the root of a bin that has had one from the start.
HoldsRoot(t) == pc[t] \in AtRoot \/ (pc[t] = "unlock" /\ Root \in ToSet(unl[t]))
RootInv ==
    rooted =>
        /\ HasRoot
        /\ \A t \in Thread :
            /\ pc[t] \notin Alone
            /\ HoldsRoot(t) => Root \in locked
            /\ \A s \in Thread : HoldsRoot(s) /\ HoldsRoot(t) => s = t

IInv == TypeOK /\ LockInv /\ (\A t \in Thread : ThreadOK(t)) /\ RootInv

-----------------------------------------------------------------------------
(* What a step leaves to the other threads. *)

OthersStay(t) ==
    \A s \in Thread \ {t} :
        /\ pc'[s] = pc[s] /\ call'[s] = call[s] /\ child'[s] = child[s] /\ nb'[s] = nb[s]
        /\ slot'[s] = slot[s] /\ unl'[s] = unl[s]
LocksStay(t) ==
    /\ locked \ locked' \subseteq Owns(t) \cup {Root}
    /\ Owns(t)' \subseteq locked' /\ Owns(t)' \cap locked \subseteq Owns(t)
NamesStay(t) == Named' \subseteq Named \cup Owns(t) \cup (Bin \ live) \cup {NoBin}
ArraysStay(t) ==
    /\ live \ live' \subseteq {b \in {nb[t]} : pc[t] = "grow"}
    /\ (HasRoot => HasRoot') /\ Len(kids') >= Len(kids)
    /\ \A b \in live \ Owns(t) : keys'[b] = keys[b]
Keeps(t) == OthersStay(t) /\ LocksStay(t) /\ NamesStay(t) /\ ArraysStay(t)

\* Only who holds the root unlocks it.
RootStep(t) ==
    /\ rooted' = rooted
    /\ rooted =>
        /\ pc'[t] \notin Alone
        /\ HoldsRoot(t)' => Root \in locked' /\ (HoldsRoot(t) \/ Root \notin locked)
        /\ Root \in locked \ locked' => HoldsRoot(t)

\* What such a step leaves of the other threads' knowledge.
LEMMA OtherThreadOK ==
    ASSUME IInv, TypeOK', NEW t \in Thread, Keeps(t), NEW s \in Thread \ {t}
    PROVE  ThreadOK(s)'
<1>1. /\ pc'[s] = pc[s] /\ call'[s] = call[s] /\ child'[s] = child[s] /\ nb'[s] = nb[s]
      /\ slot'[s] = slot[s] /\ unl'[s] = unl[s]
  BY DEF Keeps, OthersStay
<1>2. ThreadOK(s) /\ Owns(s) \cap Owns(t) = {} /\ child[s] \in Named
  BY DEF IInv, LockInv, Named
<1>3. child[s] \in live => child[s] \in live'
  BY <1>2 DEF Keeps, ArraysStay, IInv, ThreadOK
<1>4. pc[s] \in AtTwo => nb[s] \in live'
  <2>1. CASE pc[s] = "wprev"
    BY <1>2, <2>1 DEF Keeps, ArraysStay, IInv, ThreadOK, Named, AtTwo
  <2>2. CASE pc[s] \in {"borrow", "split", "grow", "raise", "halve"}
    BY <1>2, <2>2 DEF Keeps, ArraysStay, ThreadOK, Owns, Changes, AtTwo
  <2>3. QED
    BY <2>1, <2>2 DEF AtTwo
<1>5. pc[s] \in {"ssplit", "split", "grow", "raise", "halve"} => keys'[child[s]] = keys[child[s]]
  BY <1>2 DEF Keeps, ArraysStay, ThreadOK, Owns, Changes, AtChild, Alone, AtRoot
<1>6. pc[s] \in {"grow", "raise"} => nb[s] \notin Named'
  <2>1. pc[s] \in {"grow", "raise"} => nb[s] \in Owns(s) /\ nb[s] \in live /\ nb[s] \notin Named
    BY <1>2 DEF ThreadOK, Owns, Changes, AtTwo
  <2>2. QED
    BY <1>2, <2>1, NameAssumption DEF NameAssumption, Keeps, NamesStay, IInv, TypeOK
<1>7. Len(kids) \in Nat /\ Len(kids') \in Nat /\ Len(kids') >= Len(kids) /\ (HasRoot => HasRoot')
  <2>1. kids \in Seq(live) /\ kids' \in Seq(live')
    BY DEF IInv, TypeOK
  <2>2. QED
    BY <2>1 DEF Keeps, ArraysStay
<1>8. child[s] \in live' \cup {NoBin} /\ (pc[s] \in AtChild => child[s] \in live')
  BY <1>2, <1>3 DEF ThreadOK
<1>9. QED
  BY <1>1, <1>2, <1>4, <1>5, <1>6, <1>7, <1>8 DEF ThreadOK, HasRoot, key

LEMMA LocksKept ==
    ASSUME IInv, NEW t \in Thread, Keeps(t)
    PROVE  LockInv'
<1>1. \A s \in Thread \ {t} : Owns(s)' = Owns(s)
  BY DEF Keeps, OthersStay, Owns, Changes
<1>2. \A s \in Thread \ {t} : Owns(s) \subseteq locked' /\ Owns(s) \cap Owns(t)' = {}
  <2> SUFFICES ASSUME NEW s \in Thread \ {t} PROVE Owns(s) \subseteq locked' /\ Owns(s) \cap Owns(t)' = {}
    OBVIOUS
  <2>1. Owns(s) \subseteq locked /\ Owns(s) \cap Owns(t) = {}
    BY DEF IInv, LockInv
  <2>2. Root \notin Owns(s)
    BY NameAssumption DEF NameAssumption, IInv, TypeOK, ThreadOK, Owns, Changes, AtTwo, AtChild, Alone, AtRoot
  <2>3. QED
    BY <2>1, <2>2 DEF Keeps, LocksStay
<1>3. \A r, s \in Thread \ {t} : r # s => Owns(r) \cap Owns(s) = {}
  BY DEF IInv, LockInv
<1>4. QED
  BY <1>1, <1>2, <1>3 DEF LockInv, Keeps, LocksStay

LEMMA RootKept ==
    ASSUME IInv, NEW t \in Thread, Keeps(t), RootStep(t)
    PROVE  RootInv'
<1>1. SUFFICES ASSUME rooted' PROVE HasRoot' /\ (\A s \in Thread :
            /\ pc'[s] \notin Alone
            /\ HoldsRoot(s)' => Root \in locked'
            /\ \A r \in Thread : HoldsRoot(r)' /\ HoldsRoot(s)' => r = s)
  BY DEF RootInv
<1>2. rooted
  BY <1>1 DEF RootStep
<1>3. \A s \in Thread \ {t} : pc'[s] = pc[s] /\ (HoldsRoot(s)' <=> HoldsRoot(s))
  BY DEF Keeps, OthersStay, HoldsRoot
<1>4. \A s \in Thread \ {t} : HoldsRoot(s) => Root \in locked' /\ ~HoldsRoot(t)'
  BY <1>2 DEF IInv, RootInv, RootStep
<1>5. QED
  BY <1>2, <1>3, <1>4 DEF IInv, RootInv, RootStep, Keeps, ArraysStay

LEMMA StepKeeps ==
    ASSUME IInv, NEW t \in Thread, TypeOK', ThreadOK(t)', Keeps(t), RootStep(t)
    PROVE  IInv'
  BY OtherThreadOK, LocksKept, RootKept DEF IInv

\* A step that changes no array and not the root.
LEMMA NoArrayChanges ==
    ASSUME IInv, NEW t \in Thread, UNCHANGED <<bins, root>>, OthersStay(t), LocksStay(t),
           child'[t] \in Named \cup {NoBin}, pc'[t] = "wprev" => nb'[t] \in Named
    PROVE  Keeps(t)
<1>1. NamesStay(t)
  <2>1. \A s \in Thread : child'[s] \in Named \cup {NoBin} /\ (pc'[s] = "wprev" => nb'[s] \in Named)
    BY DEF OthersStay, Named
  <2>2. QED
    BY <2>1 DEF NamesStay, Named, bins, root
<1>2. ArraysStay(t)
  BY DEF ArraysStay, bins, root, HasRoot, IInv, TypeOK
<1>3. QED
  BY <1>1, <1>2 DEF Keeps

-----------------------------------------------------------------------------
(* The lists of locks to release. *)

LEMMA OneLock ==
    ASSUME NEW S, NEW a \in S
    PROVE  <<a>> \in Seq(S) /\ <<a>> # <<>> /\ ToSet(<<a>>) = {a} /\ IsInjective(<<a>>)
  BY DEF ToSet, IsInjective

LEMMA TwoLocks ==
    ASSUME NEW S, NEW a \in S, NEW b \in S, a # b
    PROVE  <<a, b>> \in Seq(S) /\ <<a, b>> # <<>> /\ ToSet(<<a, b>>) = {a, b} /\ IsInjective(<<a, b>>)
  BY DEF ToSet, IsInjective

LEMMA ThreeLocks ==
    ASSUME NEW S, NEW a \in S, NEW b \in S, NEW c \in S, a # b, a # c, b # c
    PROVE  /\ <<a, b, c>> \in Seq(S) /\ <<a, b, c>> # <<>> /\ ToSet(<<a, b, c>>) = {a, b, c}
           /\ IsInjective(<<a, b, c>>)
  BY DEF ToSet, IsInjective

LEMMA TailOfLocks ==
    ASSUME NEW S, NEW s \in Seq(S), IsInjective(s), s # <<>>
    PROVE  /\ Tail(s) \in Seq(S) /\ IsInjective(Tail(s)) /\ Head(s) \in ToSet(s)
           /\ ToSet(Tail(s)) = ToSet(s) \ {Head(s)}
           /\ Tail(s) = <<>> <=> Len(s) = 1
<1>1. /\ Len(s) \in Nat \ {0} /\ DOMAIN s = 1 .. Len(s) /\ Tail(s) \in Seq(S) /\ Len(Tail(s)) = Len(s) - 1
      /\ DOMAIN Tail(s) = 1 .. Len(s) - 1 /\ \A i \in 1 .. Len(s) - 1 : Tail(s)[i] = s[i + 1]
      /\ Head(s) = s[1]
  OBVIOUS
<1>2. IsInjective(Tail(s))
  BY <1>1 DEF IsInjective
<1>3. \A x \in ToSet(s) : x = Head(s) \/ x \in ToSet(Tail(s))
  <2> SUFFICES ASSUME NEW i \in 1 .. Len(s), s[i] # Head(s) PROVE s[i] \in ToSet(Tail(s))
    BY <1>1 DEF ToSet
  <2>1. i - 1 \in 1 .. Len(s) - 1 /\ Tail(s)[i - 1] = s[i]
    BY <1>1
  <2>2. QED
    BY <1>1, <2>1 DEF ToSet
<1>4. \A x \in ToSet(Tail(s)) : x \in ToSet(s) /\ x # Head(s)
  BY <1>1 DEF ToSet, IsInjective
<1>5. Tail(s) = <<>> <=> Len(s) = 1
  BY <1>1
<1>6. ToSet(Tail(s)) = ToSet(s) \ {Head(s)}
  BY <1>3, <1>4
<1>7. Head(s) \in ToSet(s)
  BY <1>1 DEF ToSet
<1>8. QED
  BY <1>1, <1>2, <1>5, <1>6, <1>7

-----------------------------------------------------------------------------
(* Arrays: where a key belongs, and what they are after it was inserted. *)

LEMMA LowerBounds ==
    ASSUME NEW s \in Seq(Key), NEW k \in Key
    PROVE  Lower(s, k) \in 1 .. Len(s) + 1
<1>1. IsFiniteSet(1 .. Len(s)) /\ Cardinality(1 .. Len(s)) = Len(s)
  <2>1. Len(s) \in Nat /\ Len(s) \in Int /\ 1 \in Int
    OBVIOUS
  <2>2. /\ IsFiniteSet(1 .. Len(s))
        /\ Cardinality(1 .. Len(s)) = IF 1 > Len(s) THEN 0 ELSE Len(s) - 1 + 1
    BY <2>1, FS_Interval
  <2>3. QED
    BY <2>1, <2>2
<1>2. {i \in DOMAIN s : s[i] < k} \subseteq 1 .. Len(s)
  OBVIOUS
<1>3. QED
  BY <1>1, <1>2, FS_Subset, FS_CardinalityType DEF Lower

-----------------------------------------------------------------------------
(* What a thread knows, label by label. *)

LEMMA Knows ==
    ASSUME IInv, NEW t \in Thread
    PROVE  /\ pc[t] # "idle" => key(t) \in Key
           /\ pc[t] \in {"cver", "ckeys", "ccheck", "renew", "hop", "wchild", "put", "wprev", "borrow", "split",
                         "publish", "sver", "slock", "scheck", "shop", "sput", "ssplit", "sroot", "srlock",
                         "grow", "raise", "halve"}
                => /\ child[t] \in live /\ child[t] \in live \cup {Root} /\ child[t] # Root /\ child[t] \in Bin
                   /\ child[t] \in Named
           /\ pc[t] \in {"wprev", "borrow", "split", "grow", "raise", "halve"}
                => nb[t] \in live /\ nb[t] \in live \cup {Root} /\ nb[t] # Root /\ nb[t] \in Bin
           /\ pc[t] \in {"borrow", "split", "grow", "raise", "halve"} => nb[t] # child[t]
           /\ pc[t] \in {"rver", "rslot", "wroot", "halve"} => HasRoot /\ Len(kids) = Len(rkeys) + 1
           /\ pc[t] \in {"wchild", "put", "wprev", "borrow", "split", "rcheck", "rchild"}
                => HasRoot /\ slot[t] \in 1 .. Len(kids) /\ Len(kids) = Len(rkeys) + 1
           /\ pc[t] \in {"ssplit", "split", "grow", "raise", "halve"} => Len(keys[child[t]]) = ChildMax
           /\ pc[t] \in {"grow", "raise"} => nb[t] \notin Named
<1>1. ThreadOK(t) /\ live \subseteq Bin /\ Root \notin Bin /\ child[t] \in Named
  BY NameAssumption DEF NameAssumption, IInv, TypeOK, Named
<1>2. HasRoot => Len(kids) = Len(rkeys) + 1
  BY DEF IInv, TypeOK
<1>3. slot[t] \in 1 .. Len(kids) => HasRoot
  <2>1. kids \in Seq(live)
    BY DEF IInv, TypeOK
  <2>2. QED
    BY <2>1 DEF HasRoot
<1>4. QED
  BY <1>1, <1>2, <1>3 DEF ThreadOK, AtChild, AtTwo, AtRoot, Alone

LEMMA KidsAre ==
    ASSUME IInv, NEW i \in 1 .. Len(kids)
    PROVE  kids[i] \in live /\ kids[i] \in Named
<1>1. kids \in Seq(live)
  BY DEF IInv, TypeOK
<1>2. QED
  BY <1>1 DEF Named

LEMMA Links ==
    ASSUME IInv
    PROVE  /\ head \in live \cup {NoBin} /\ head \in Named
           /\ tail \in live \cup {NoBin} /\ tail \in Named
           /\ \A b \in Bin : next[b] \in live \cup {NoBin} /\ next[b] \in Named
  BY DEF IInv, TypeOK, Named

LEMMA HalvesAre ==
    ASSUME IInv, NEW t \in Thread, key(t) \in Key, child[t] \in Bin, nb[t] \in Bin,
           Len(keys[child[t]]) = ChildMax
    PROVE  /\ Halves(t)[1] \in Seq(Key) /\ Halves(t)[2] \in Seq(Key)
           /\ Halves(t)[1] # <<>> /\ Last(Halves(t)[1]) \in Key
           /\ Mid(child[t]) \in 1 .. Len(keys[child[t]])
<1> DEFINE lower == SubSeq(keys[child[t]], 1, Mid(child[t]))
           upper == keys[nb[t]]
           k     == key(t)
<1>1. keys[child[t]] \in Seq(Key) /\ upper \in Seq(Key)
  BY DEF IInv, TypeOK
<1>2. Mid(child[t]) \in 1 .. Len(keys[child[t]])
  BY <1>1, BoundAssumption DEF BoundAssumption, Mid
<1>3. lower \in Seq(Key) /\ Len(lower) = Mid(child[t])
  BY <1>1, <1>2, SubSeqProperties
<1> HIDE DEF lower, upper
<1>4. Lower(lower, k) \in 1 .. Len(lower) + 1 /\ Lower(upper, k) \in 1 .. Len(upper) + 1
  BY <1>1, <1>3, LowerBounds
<1>5. /\ InsertAt(lower, Lower(lower, k), k) \in Seq(Key)
      /\ Len(InsertAt(lower, Lower(lower, k), k)) = Len(lower) + 1
      /\ InsertAt(upper, Lower(upper, k), k) \in Seq(Key)
  BY <1>1, <1>3, <1>4, InsertAtIs
<1>6. Halves(t) = IF Slot(t) <= Mid(child[t]) + 1
                  THEN <<InsertAt(lower, Lower(lower, k), k), upper>>
                  ELSE <<lower, InsertAt(upper, Lower(upper, k), k)>>
  BY DEF Halves, lower, upper
<1>7. /\ Halves(t)[1] \in Seq(Key) /\ Halves(t)[2] \in Seq(Key) /\ Len(Halves(t)[1]) > 0
  BY <1>1, <1>2, <1>3, <1>5, <1>6
<1>8. QED
  BY <1>2, <1>7 DEF Last

LEMMA InsertedIs ==
    ASSUME IInv, NEW t \in Thread, key(t) \in Key, child[t] \in Bin
    PROVE  /\ Inserted(t) \in Seq(Key) /\ Len(Inserted(t)) = Len(keys[child[t]]) + 1
           /\ Inserted(t)[1] \in Key /\ Tail(Inserted(t)) \in Seq(Key)
<1>1. keys[child[t]] \in Seq(Key)
  BY DEF IInv, TypeOK
<1>2. Slot(t) \in 1 .. Len(keys[child[t]]) + 1
  BY <1>1, LowerBounds DEF Slot
<1>3. Inserted(t) \in Seq(Key) /\ Len(Inserted(t)) = Len(keys[child[t]]) + 1
  BY <1>1, <1>2, InsertAtIs DEF Inserted
<1>4. QED
  BY <1>1, <1>3

LEMMA SeparateIs ==
    ASSUME IInv, NEW i, NEW k \in Key
    PROVE  Separate(i, k) \in Seq(Key) /\ Len(Separate(i, k)) = Len(rkeys)
<1>1. rkeys \in Seq(Key)
  BY DEF IInv, TypeOK
<1>2. QED
  BY <1>1 DEF Separate

LEMMA BumpIs ==
    ASSUME ver \in [Bin \cup {Root} -> Nat], NEW S, Bump(S)
    PROVE  ver' \in [Bin \cup {Root} -> Nat]
  BY DEF Bump

LEMMA NamesFrom ==
    ASSUME NEW t \in Thread, OthersStay(t), NEW Known, Named \subseteq Known,
           head' \in Known, tail' \in Known, \A i \in DOMAIN kids' : kids'[i] \in Known,
           \A b \in Bin : next'[b] \in Known, child'[t] \in Known, pc'[t] = "wprev" => nb'[t] \in Known
    PROVE  Named' \subseteq Known
<1>1. \A s \in Thread : child'[s] \in Known /\ (pc'[s] = "wprev" => nb'[s] \in Known)
  BY DEF OthersStay, Named
<1>2. QED
  BY <1>1 DEF Named

LEMMA NamedLive ==
    ASSUME IInv
    PROVE  Named \subseteq live \cup {NoBin}
<1>1. \A s \in Thread : child[s] \in live \cup {NoBin} /\ (pc[s] = "wprev" => nb[s] \in live)
  BY DEF IInv, ThreadOK, AtTwo
<1>2. \A i \in DOMAIN kids : kids[i] \in live
  <2>1. kids \in Seq(live)
    BY DEF IInv, TypeOK
  <2>2. QED
    BY <2>1
<1>3. {head, tail} \subseteq live \cup {NoBin} /\ \A b \in Bin : next[b] \in live \cup {NoBin}
  BY DEF IInv, TypeOK
<1>4. QED
  BY <1>1, <1>2, <1>3 DEF Named

LEMMA SeqIn ==
    ASSUME NEW S, NEW T, NEW s \in Seq(S), \A i \in 1 .. Len(s) : s[i] \in T
    PROVE  s \in Seq(T)
  OBVIOUS

LEMMA SetAt ==
    ASSUME NEW S, NEW s \in Seq(S), NEW i, NEW e \in S
    PROVE  [s EXCEPT ![i] = e] \in Seq(S) /\ Len([s EXCEPT ![i] = e]) = Len(s)
<1>1. CASE i \in 1 .. Len(s)
  BY <1>1, ExceptSeq
<1>2. CASE i \notin 1 .. Len(s)
  <2>1. [s EXCEPT ![i] = e] = s
    BY <1>2
  <2>2. QED
    BY <2>1
<1>3. QED
  BY <1>1, <1>2

LEMMA InsertAtIn ==
    ASSUME NEW S, NEW s \in Seq(S), NEW e \in S, NEW n \in 1 .. Len(s) + 1,
           NEW Known, e \in Known, \A i \in 1 .. Len(s) : s[i] \in Known
    PROVE  \A i \in 1 .. Len(s) + 1 : InsertAt(s, n, e)[i] \in Known
<1> SUFFICES ASSUME NEW i \in 1 .. Len(s) + 1 PROVE InsertAt(s, n, e)[i] \in Known
  OBVIOUS
<1>1. InsertAt(s, n, e)[i] = IF i < n THEN s[i] ELSE IF i = n THEN e ELSE s[i - 1]
  BY InsertAtIs
<1>2. (i < n => i \in 1 .. Len(s)) /\ (i > n => i - 1 \in 1 .. Len(s))
  OBVIOUS
<1>3. QED
  BY <1>1, <1>2

-----------------------------------------------------------------------------
(* Each action keeps the types and what its thread knows, and leaves the others alone. *)

LEMMA CallStep ==
    ASSUME IInv, NEW t \in Thread, Call(t)
    PROVE  TypeOK' /\ ThreadOK(t)' /\ Keeps(t) /\ RootStep(t)
<1> USE NameAssumption, BoundAssumption DEF NameAssumption, BoundAssumption, GoTo, shared, bins,
   root
<1>y. /\ live \subseteq Bin
      /\ pc \in [Thread -> Labels]
      /\ call \in [Thread -> [op : {"none", "find", "insert"}, key : Key \cup {0}]]
      /\ done \in [Thread -> Nat]
      /\ before \in [Thread -> BOOLEAN]
      /\ moved \in [Thread -> BOOLEAN]
  BY DEF IInv, TypeOK
<1>z. ThreadOK(t) /\ child[t] \in Named
  BY DEF IInv, Named
<1>1. OthersStay(t)
  BY DEF Call, OthersStay, IInv, TypeOK
<1>2. TypeOK'
  <2>1. pc' \in [Thread -> Labels]
    BY <1>y DEF Call, Labels
  <2>2. call' \in [Thread -> [op : {"none", "find", "insert"}, key : Key \cup {0}]]
    BY <1>y DEF Call
  <2>3. before' \in [Thread -> BOOLEAN]
    BY <1>y DEF Call
  <2>4. moved' \in [Thread -> BOOLEAN]
    BY <1>y DEF Call
  <2>5. QED
    BY <2>1, <2>2, <2>3, <2>4 DEF Call, IInv, TypeOK, HasRoot
<1>3. ThreadOK(t)'
  <2>1. pc'[t] # "idle" => key(t)' \in Key
    BY <1>y, <1>z DEF Call, key, ThreadOK
  <2>2. /\ child'[t] \in live' \cup {NoBin} /\ (pc'[t] \in AtChild => child'[t] \in live')
       /\ (pc'[t] \in AtTwo => nb'[t] \in live')
       /\ (pc'[t] \in {"borrow", "split", "grow", "raise", "halve"} => child'[t] # nb'[t])
    BY <1>y, <1>z DEF Call, AtChild, AtRoot, AtTwo, Alone, ThreadOK
  <2>3. /\ (pc'[t] \in {"rver", "rslot", "wroot", "halve"} => HasRoot')
       /\ (pc'[t] \in AtRoot \cup {"rcheck", "rchild"} => slot'[t] \in 1 .. Len(kids'))
    BY <1>y, <1>z DEF Call, AtRoot, HasRoot, ThreadOK
  <2>4. pc'[t] \in {"ssplit", "split", "grow", "raise", "halve"} => Len(keys'[child'[t]]) = ChildMax
    BY <1>y, <1>z DEF Call, ThreadOK
  <2>5. IsInjective(unl'[t]) /\ (pc'[t] = "unlock" <=> unl'[t] # <<>>)
    BY <1>y, <1>z DEF Call, IsInjective, ThreadOK
  <2>6. pc'[t] \in {"grow", "raise"} => nb'[t] \notin Named'
    BY <1>y, <1>z DEF Call, ThreadOK
  <2>7. QED
    BY <2>1, <2>2, <2>3, <2>4, <2>5, <2>6 DEF ThreadOK
<1>o. Owns(t) = {}
  BY <1>y DEF Call, Owns, Changes
<1>4. LocksStay(t)
  <2>1. Owns(t)' = {}
    BY <1>y DEF Call, Owns, Changes
  <2>2. QED
    BY <1>o, <2>1, <1>y DEF Call, LocksStay, IInv, LockInv
<1>5. Keeps(t)
  <2>1. child'[t] \in Named \cup {NoBin} /\ (pc'[t] = "wprev" => nb'[t] \in Named)
    BY <1>y, <1>z DEF Call
  <2>2. QED
    BY <1>1, <1>4, <2>1, NoArrayChanges DEF Call
<1>8. RootStep(t)
  BY <1>y DEF Call, RootStep, HoldsRoot, Alone, AtRoot, HasRoot, IInv, RootInv
<1>9. QED
  BY <1>2, <1>3, <1>5, <1>8

LEMMA ReturnStep ==
    ASSUME IInv, NEW t \in Thread, Return(t)
    PROVE  TypeOK' /\ ThreadOK(t)' /\ Keeps(t) /\ RootStep(t)
<1> USE NameAssumption, BoundAssumption DEF NameAssumption, BoundAssumption, GoTo, shared, bins,
   root, history
<1>y. /\ live \subseteq Bin
      /\ pc \in [Thread -> Labels]
      /\ child \in [Thread -> Bin \cup {NoBin}]
      /\ nb \in [Thread -> Bin \cup {NoBin}]
      /\ slot \in [Thread -> Nat]
      /\ known \in [Thread -> Nat]
      /\ done \in [Thread -> Nat]
      /\ res \in [Thread -> {"none", "ok", "failed", "retry", "retrain"}]
  BY DEF IInv, TypeOK
<1>z. ThreadOK(t) /\ child[t] \in Named
  BY DEF IInv, Named
<1>1. OthersStay(t)
  BY DEF Return, OthersStay, IInv, TypeOK
<1>2. TypeOK'
  <2>1. pc' \in [Thread -> Labels]
    BY <1>y DEF Return, Labels
  <2>2. child' \in [Thread -> Bin \cup {NoBin}]
    BY <1>y DEF Return
  <2>3. nb' \in [Thread -> Bin \cup {NoBin}]
    BY <1>y DEF Return
  <2>4. slot' \in [Thread -> Nat]
    BY <1>y DEF Return
  <2>5. known' \in [Thread -> Nat]
    BY <1>y DEF Return
  <2>6. done' \in [Thread -> Nat]
    BY <1>y DEF Return
  <2>7. res' \in [Thread -> {"none", "ok", "failed", "retry", "retrain"}]
    BY <1>y DEF Return
  <2>8. QED
    BY <2>1, <2>2, <2>3, <2>4, <2>5, <2>6, <2>7 DEF Return, IInv, TypeOK, HasRoot
<1>3. ThreadOK(t)'
  BY <1>y, <1>z DEF Return, ThreadOK, IsInjective, AtChild, AtRoot, AtTwo, Alone, HasRoot, key
<1>4. LocksStay(t)
  BY <1>y DEF Return, LocksStay, Owns, Changes, IInv, LockInv, TypeOK
<1>5. Keeps(t)
  <2>1. child'[t] \in Named \cup {NoBin} /\ (pc'[t] = "wprev" => nb'[t] \in Named)
    BY <1>y, <1>z DEF Return
  <2>2. QED
    BY <1>1, <1>4, <2>1, NoArrayChanges DEF Return
<1>8. RootStep(t)
  BY <1>y DEF Return, RootStep, HoldsRoot, Alone, AtRoot, HasRoot, IInv, RootInv
<1>9. QED
  BY <1>2, <1>3, <1>5, <1>8

LEMMA UnlockStep ==
    ASSUME IInv, NEW t \in Thread, Unlock(t)
    PROVE  TypeOK' /\ ThreadOK(t)' /\ Keeps(t) /\ RootStep(t)
<1> USE NameAssumption, BoundAssumption DEF NameAssumption, BoundAssumption, GoTo, bins, root,
   history
<1>a. unl[t] \in Seq(live \cup {Root}) /\ IsInjective(unl[t]) /\ unl[t] # <<>>
  BY DEF Unlock, IInv, TypeOK, ThreadOK
<1>b. LET l == unl[t] IN
        /\ Tail(l) \in Seq(live \cup {Root}) /\ IsInjective(Tail(l)) /\ Head(l) \in ToSet(l)
        /\ ToSet(Tail(l)) = ToSet(l) \ {Head(l)}
        /\ Tail(l) = <<>> <=> Len(l) = 1
  BY <1>a, TailOfLocks
<1>c. unl'[t] = Tail(unl[t]) /\ pc'[t] = IF Tail(unl[t]) = <<>> THEN "return" ELSE "unlock"
  BY <1>b DEF Unlock, IInv, TypeOK
<1>y. /\ live \subseteq Bin
      /\ locked \subseteq live \cup {Root}
      /\ pc \in [Thread -> Labels]
      /\ unl \in [Thread -> Seq(live \cup {Root})]
  BY DEF IInv, TypeOK
<1>z. ThreadOK(t) /\ child[t] \in Named
  BY DEF IInv, Named
<1>1. OthersStay(t)
  BY DEF Unlock, OthersStay, IInv, TypeOK
<1>2. TypeOK'
  <2>1. locked' \subseteq live' \cup {Root}
    BY <1>a, <1>b, <1>c, <1>y DEF Unlock
  <2>2. pc' \in [Thread -> Labels]
    BY <1>c, <1>y DEF Unlock, Labels
  <2>3. unl' \in [Thread -> Seq(live' \cup {Root})]
    BY <1>a, <1>b, <1>c, <1>y DEF Unlock
  <2>4. QED
    BY <2>1, <2>2, <2>3 DEF Unlock, IInv, TypeOK, HasRoot
<1>3. ThreadOK(t)'
  <2>1. pc'[t] # "idle" => key(t)' \in Key
    BY <1>a, <1>b, <1>c, <1>y, <1>z DEF Unlock, key, ThreadOK
  <2>2. /\ child'[t] \in live' \cup {NoBin} /\ (pc'[t] \in AtChild => child'[t] \in live')
       /\ (pc'[t] \in AtTwo => nb'[t] \in live')
       /\ (pc'[t] \in {"borrow", "split", "grow", "raise", "halve"} => child'[t] # nb'[t])
    BY <1>a, <1>b, <1>c, <1>y, <1>z DEF Unlock, AtChild, AtRoot, AtTwo, Alone, ThreadOK
  <2>3. /\ (pc'[t] \in {"rver", "rslot", "wroot", "halve"} => HasRoot')
       /\ (pc'[t] \in AtRoot \cup {"rcheck", "rchild"} => slot'[t] \in 1 .. Len(kids'))
    BY <1>a, <1>b, <1>c, <1>y, <1>z DEF Unlock, AtRoot, HasRoot, ThreadOK
  <2>4. pc'[t] \in {"ssplit", "split", "grow", "raise", "halve"} => Len(keys'[child'[t]]) = ChildMax
    BY <1>a, <1>b, <1>c, <1>y, <1>z DEF Unlock, ThreadOK
  <2>5. IsInjective(unl'[t]) /\ (pc'[t] = "unlock" <=> unl'[t] # <<>>)
    BY <1>a, <1>b, <1>c, <1>y, <1>z DEF Unlock, IsInjective, ThreadOK
  <2>6. pc'[t] \in {"grow", "raise"} => nb'[t] \notin Named'
    BY <1>a, <1>b, <1>c, <1>y, <1>z DEF Unlock, ThreadOK
  <2>7. QED
    BY <2>1, <2>2, <2>3, <2>4, <2>5, <2>6 DEF ThreadOK
<1>o. Owns(t) = ToSet(unl[t]) \ {Root}
  BY <1>a, <1>b, <1>c, <1>y DEF Unlock, Owns, Changes
<1>4. LocksStay(t)
  <2>1. Owns(t)' = ToSet(Tail(unl[t])) \ {Root}
    <3>1. Tail(unl[t]) = <<>> => ToSet(Tail(unl[t])) = {}
      BY DEF ToSet
    <3>2. QED
      BY <1>c, <3>1 DEF Owns, Changes
  <2>2. QED
    BY <1>o, <2>1, <1>a, <1>b, <1>c, <1>y DEF Unlock, LocksStay, IInv, LockInv
<1>5. Keeps(t)
  <2>1. child'[t] \in Named \cup {NoBin} /\ (pc'[t] = "wprev" => nb'[t] \in Named)
    BY <1>a, <1>b, <1>c, <1>y, <1>z DEF Unlock
  <2>2. QED
    BY <1>1, <1>4, <2>1, NoArrayChanges DEF Unlock
<1>8. RootStep(t)
  BY <1>a, <1>b, <1>c, <1>y DEF Unlock, RootStep, HoldsRoot, Alone, AtRoot, HasRoot, IInv, RootInv
<1>9. QED
  BY <1>2, <1>3, <1>5, <1>8

LEMMA FindStartStep ==
    ASSUME IInv, NEW t \in Thread, FindStart(t)
    PROVE  TypeOK' /\ ThreadOK(t)' /\ Keeps(t) /\ RootStep(t)
<1> USE NameAssumption, BoundAssumption DEF NameAssumption, BoundAssumption, GoTo, Finish, shared,
   bins, root, history
<1>k. /\ key(t) \in Key
  BY Knows DEF FindStart
<1>s. head \in live \cup {NoBin} /\ head \in Named
  BY Links
<1>y. /\ live \subseteq Bin
      /\ pc \in [Thread -> Labels]
      /\ child \in [Thread -> Bin \cup {NoBin}]
      /\ res \in [Thread -> {"none", "ok", "failed", "retry", "retrain"}]
  BY DEF IInv, TypeOK
<1>z. ThreadOK(t) /\ child[t] \in Named
  BY DEF IInv, Named
<1>1. OthersStay(t)
  BY DEF FindStart, OthersStay, IInv, TypeOK
<1>2. TypeOK'
  <2>1. pc' \in [Thread -> Labels]
    BY <1>y DEF FindStart, Labels
  <2>2. child' \in [Thread -> Bin \cup {NoBin}]
    BY <1>k, <1>s, <1>y DEF FindStart
  <2>3. res' \in [Thread -> {"none", "ok", "failed", "retry", "retrain"}]
    BY <1>k, <1>s, <1>y DEF FindStart
  <2>4. QED
    BY <2>1, <2>2, <2>3 DEF FindStart, IInv, TypeOK, HasRoot
<1>3. ThreadOK(t)'
  <2>1. pc'[t] # "idle" => key(t)' \in Key
    BY <1>k, <1>s, <1>y, <1>z DEF FindStart, key, ThreadOK
  <2>2. /\ child'[t] \in live' \cup {NoBin} /\ (pc'[t] \in AtChild => child'[t] \in live')
       /\ (pc'[t] \in AtTwo => nb'[t] \in live')
       /\ (pc'[t] \in {"borrow", "split", "grow", "raise", "halve"} => child'[t] # nb'[t])
    BY <1>k, <1>s, <1>y, <1>z DEF FindStart, AtChild, AtRoot, AtTwo, Alone, ThreadOK
  <2>3. /\ (pc'[t] \in {"rver", "rslot", "wroot", "halve"} => HasRoot')
       /\ (pc'[t] \in AtRoot \cup {"rcheck", "rchild"} => slot'[t] \in 1 .. Len(kids'))
    BY <1>k, <1>s, <1>y, <1>z DEF FindStart, AtRoot, HasRoot, ThreadOK
  <2>4. pc'[t] \in {"ssplit", "split", "grow", "raise", "halve"} => Len(keys'[child'[t]]) = ChildMax
    BY <1>k, <1>s, <1>y, <1>z DEF FindStart, ThreadOK
  <2>5. IsInjective(unl'[t]) /\ (pc'[t] = "unlock" <=> unl'[t] # <<>>)
    BY <1>k, <1>s, <1>y, <1>z DEF FindStart, IsInjective, ThreadOK
  <2>6. pc'[t] \in {"grow", "raise"} => nb'[t] \notin Named'
    BY <1>k, <1>s, <1>y, <1>z DEF FindStart, ThreadOK
  <2>7. QED
    BY <2>1, <2>2, <2>3, <2>4, <2>5, <2>6 DEF ThreadOK
<1>o. Owns(t) = {}
  BY <1>k, <1>s, <1>y DEF FindStart, Owns, Changes
<1>4. LocksStay(t)
  <2>1. Owns(t)' = {}
    BY <1>k, <1>s, <1>y DEF FindStart, Owns, Changes
  <2>2. QED
    BY <1>o, <2>1, <1>k, <1>s, <1>y DEF FindStart, LocksStay, IInv, LockInv
<1>5. Keeps(t)
  <2>1. child'[t] \in Named \cup {NoBin} /\ (pc'[t] = "wprev" => nb'[t] \in Named)
    BY <1>k, <1>s, <1>y, <1>z DEF FindStart
  <2>2. QED
    BY <1>1, <1>4, <2>1, NoArrayChanges DEF FindStart
<1>8. RootStep(t)
  BY <1>k, <1>s, <1>y DEF FindStart, RootStep, HoldsRoot, Alone, AtRoot, HasRoot, IInv, RootInv
<1>9. QED
  BY <1>2, <1>3, <1>5, <1>8

LEMMA ReadRootVersionStep ==
    ASSUME IInv, NEW t \in Thread, ReadRootVersion(t)
    PROVE  TypeOK' /\ ThreadOK(t)' /\ Keeps(t) /\ RootStep(t)
<1> USE NameAssumption, BoundAssumption DEF NameAssumption, BoundAssumption, GoTo, shared, bins,
   root, history
<1>y. /\ live \subseteq Bin
      /\ ver \in [Bin \cup {Root} -> Nat]
      /\ pc \in [Thread -> Labels]
      /\ known \in [Thread -> Nat]
  BY DEF IInv, TypeOK
<1>z. ThreadOK(t) /\ child[t] \in Named
  BY DEF IInv, Named
<1>1. OthersStay(t)
  BY DEF ReadRootVersion, OthersStay, IInv, TypeOK
<1>2. TypeOK'
  <2>1. pc' \in [Thread -> Labels]
    BY <1>y DEF ReadRootVersion, Labels
  <2>2. known' \in [Thread -> Nat]
    BY <1>y DEF ReadRootVersion
  <2>3. QED
    BY <2>1, <2>2 DEF ReadRootVersion, IInv, TypeOK, HasRoot
<1>3. ThreadOK(t)'
  BY <1>y, <1>z DEF ReadRootVersion, ThreadOK, IsInjective, AtChild, AtRoot, AtTwo, Alone,
     HasRoot, key
<1>4. LocksStay(t)
  BY <1>y DEF ReadRootVersion, LocksStay, Owns, Changes, IInv, LockInv, TypeOK
<1>5. Keeps(t)
  <2>1. child'[t] \in Named \cup {NoBin} /\ (pc'[t] = "wprev" => nb'[t] \in Named)
    BY <1>y, <1>z DEF ReadRootVersion
  <2>2. QED
    BY <1>1, <1>4, <2>1, NoArrayChanges DEF ReadRootVersion
<1>8. RootStep(t)
  BY <1>y DEF ReadRootVersion, RootStep, HoldsRoot, Alone, AtRoot, HasRoot, IInv, RootInv
<1>9. QED
  BY <1>2, <1>3, <1>5, <1>8

LEMMA ReadRootSlotStep ==
    ASSUME IInv, NEW t \in Thread, ReadRootSlot(t)
    PROVE  TypeOK' /\ ThreadOK(t)' /\ Keeps(t) /\ RootStep(t)
<1> USE NameAssumption, BoundAssumption DEF NameAssumption, BoundAssumption, GoTo, shared, bins,
   root, history
<1>k. /\ key(t) \in Key
      /\ HasRoot /\ Len(kids) = Len(rkeys) + 1
  BY Knows DEF ReadRootSlot
<1>s. Lower(rkeys, key(t)) \in 1 .. Len(kids)
  BY <1>k, LowerBounds DEF IInv, TypeOK
<1>y. /\ live \subseteq Bin
      /\ rkeys \in Seq(Key)
      /\ pc \in [Thread -> Labels]
      /\ slot \in [Thread -> Nat]
  BY DEF IInv, TypeOK
<1>z. ThreadOK(t) /\ child[t] \in Named
  BY DEF IInv, Named
<1>1. OthersStay(t)
  BY DEF ReadRootSlot, OthersStay, IInv, TypeOK
<1>2. TypeOK'
  <2>1. pc' \in [Thread -> Labels]
    BY <1>y DEF ReadRootSlot, Labels
  <2>2. slot' \in [Thread -> Nat]
    BY <1>k, <1>s, <1>y DEF ReadRootSlot
  <2>3. QED
    BY <2>1, <2>2 DEF ReadRootSlot, IInv, TypeOK, HasRoot
<1>3. ThreadOK(t)'
  BY <1>k, <1>s, <1>y, <1>z DEF ReadRootSlot, ThreadOK, IsInjective, AtChild, AtRoot, AtTwo,
     Alone, HasRoot, key
<1>o. Owns(t) = {}
  BY <1>k, <1>s, <1>y DEF ReadRootSlot, Owns, Changes
<1>4. LocksStay(t)
  <2>1. Owns(t)' = {}
    BY <1>k, <1>s, <1>y DEF ReadRootSlot, Owns, Changes
  <2>2. QED
    BY <1>o, <2>1, <1>k, <1>s, <1>y DEF ReadRootSlot, LocksStay, IInv, LockInv
<1>5. Keeps(t)
  <2>1. child'[t] \in Named \cup {NoBin} /\ (pc'[t] = "wprev" => nb'[t] \in Named)
    BY <1>k, <1>s, <1>y, <1>z DEF ReadRootSlot
  <2>2. QED
    BY <1>1, <1>4, <2>1, NoArrayChanges DEF ReadRootSlot
<1>8. RootStep(t)
  BY <1>k, <1>s, <1>y DEF ReadRootSlot, RootStep, HoldsRoot, Alone, AtRoot, HasRoot, IInv, RootInv
<1>9. QED
  BY <1>2, <1>3, <1>5, <1>8

LEMMA CheckRootStep ==
    ASSUME IInv, NEW t \in Thread, CheckRoot(t)
    PROVE  TypeOK' /\ ThreadOK(t)' /\ Keeps(t) /\ RootStep(t)
<1> USE NameAssumption, BoundAssumption DEF NameAssumption, BoundAssumption, GoTo, shared, bins,
   root, local, history
<1>y. /\ live \subseteq Bin
      /\ locked \subseteq live \cup {Root}
      /\ ver \in [Bin \cup {Root} -> Nat]
      /\ pc \in [Thread -> Labels]
      /\ known \in [Thread -> Nat]
  BY DEF IInv, TypeOK
<1>z. ThreadOK(t) /\ child[t] \in Named
  BY DEF IInv, Named
<1>1. OthersStay(t)
  BY DEF CheckRoot, OthersStay, IInv, TypeOK
<1>2. TypeOK'
  <2>1. pc' \in [Thread -> Labels]
    BY <1>y DEF CheckRoot, Labels
  <2>2. QED
    BY <2>1 DEF CheckRoot, IInv, TypeOK, HasRoot
<1>3. ThreadOK(t)'
  BY <1>y, <1>z DEF CheckRoot, ThreadOK, IsInjective, AtChild, AtRoot, AtTwo, Alone, HasRoot, key
<1>4. LocksStay(t)
  BY <1>y DEF CheckRoot, LocksStay, Owns, Changes, IInv, LockInv, TypeOK
<1>5. Keeps(t)
  <2>1. child'[t] \in Named \cup {NoBin} /\ (pc'[t] = "wprev" => nb'[t] \in Named)
    BY <1>y, <1>z DEF CheckRoot
  <2>2. QED
    BY <1>1, <1>4, <2>1, NoArrayChanges DEF CheckRoot
<1>8. RootStep(t)
  BY <1>y DEF CheckRoot, RootStep, HoldsRoot, Alone, AtRoot, HasRoot, IInv, RootInv
<1>9. QED
  BY <1>2, <1>3, <1>5, <1>8

LEMMA ReadChildStep ==
    ASSUME IInv, NEW t \in Thread, ReadChild(t)
    PROVE  TypeOK' /\ ThreadOK(t)' /\ Keeps(t) /\ RootStep(t)
<1> USE NameAssumption, BoundAssumption DEF NameAssumption, BoundAssumption, GoTo, shared, bins,
   root, history
<1>k. /\ key(t) \in Key
      /\ HasRoot /\ slot[t] \in 1 .. Len(kids) /\ Len(kids) = Len(rkeys) + 1
  BY Knows DEF ReadChild
<1>s. kids[slot[t]] \in live /\ kids[slot[t]] \in Named
  BY <1>k, KidsAre
<1>y. /\ live \subseteq Bin
      /\ kids \in Seq(live) /\ Len(kids) = (IF HasRoot THEN Len(rkeys) + 1 ELSE 0)
      /\ pc \in [Thread -> Labels]
      /\ child \in [Thread -> Bin \cup {NoBin}]
      /\ slot \in [Thread -> Nat]
  BY DEF IInv, TypeOK
<1>z. ThreadOK(t) /\ child[t] \in Named
  BY DEF IInv, Named
<1>1. OthersStay(t)
  BY DEF ReadChild, OthersStay, IInv, TypeOK
<1>2. TypeOK'
  <2>1. pc' \in [Thread -> Labels]
    BY <1>y DEF ReadChild, Labels
  <2>2. child' \in [Thread -> Bin \cup {NoBin}]
    BY <1>k, <1>s, <1>y DEF ReadChild
  <2>3. QED
    BY <2>1, <2>2 DEF ReadChild, IInv, TypeOK, HasRoot
<1>3. ThreadOK(t)'
  BY <1>k, <1>s, <1>y, <1>z DEF ReadChild, ThreadOK, IsInjective, AtChild, AtRoot, AtTwo, Alone,
     HasRoot, key
<1>o. Owns(t) = {}
  BY <1>k, <1>s, <1>y DEF ReadChild, Owns, Changes
<1>4. LocksStay(t)
  <2>1. Owns(t)' = {}
    BY <1>k, <1>s, <1>y DEF ReadChild, Owns, Changes
  <2>2. QED
    BY <1>o, <2>1, <1>k, <1>s, <1>y DEF ReadChild, LocksStay, IInv, LockInv
<1>5. Keeps(t)
  <2>1. child'[t] \in Named \cup {NoBin} /\ (pc'[t] = "wprev" => nb'[t] \in Named)
    BY <1>k, <1>s, <1>y, <1>z DEF ReadChild
  <2>2. QED
    BY <1>1, <1>4, <2>1, NoArrayChanges DEF ReadChild
<1>8. RootStep(t)
  BY <1>k, <1>s, <1>y DEF ReadChild, RootStep, HoldsRoot, Alone, AtRoot, HasRoot, IInv, RootInv
<1>9. QED
  BY <1>2, <1>3, <1>5, <1>8

LEMMA ReadChildVersionStep ==
    ASSUME IInv, NEW t \in Thread, ReadChildVersion(t)
    PROVE  TypeOK' /\ ThreadOK(t)' /\ Keeps(t) /\ RootStep(t)
<1> USE NameAssumption, BoundAssumption DEF NameAssumption, BoundAssumption, GoTo, shared, bins,
   root, history
<1>k. /\ key(t) \in Key
      /\ child[t] \in live /\ child[t] \in live \cup {Root} /\ child[t] # Root /\ Root \in live \cup {Root}
      /\ child[t] \in Bin /\ child[t] \in Named
  BY Knows DEF ReadChildVersion
<1>y. /\ live \subseteq Bin
      /\ ver \in [Bin \cup {Root} -> Nat]
      /\ pc \in [Thread -> Labels]
      /\ child \in [Thread -> Bin \cup {NoBin}]
      /\ known \in [Thread -> Nat]
  BY DEF IInv, TypeOK
<1>z. ThreadOK(t) /\ child[t] \in Named
  BY DEF IInv, Named
<1>1. OthersStay(t)
  BY DEF ReadChildVersion, OthersStay, IInv, TypeOK
<1>2. TypeOK'
  <2>1. pc' \in [Thread -> Labels]
    BY <1>y DEF ReadChildVersion, Labels
  <2>2. known' \in [Thread -> Nat]
    BY <1>k, <1>y DEF ReadChildVersion
  <2>3. QED
    BY <2>1, <2>2 DEF ReadChildVersion, IInv, TypeOK, HasRoot
<1>3. ThreadOK(t)'
  <2>1. pc'[t] # "idle" => key(t)' \in Key
    BY <1>k, <1>y, <1>z DEF ReadChildVersion, key, ThreadOK
  <2>2. /\ child'[t] \in live' \cup {NoBin} /\ (pc'[t] \in AtChild => child'[t] \in live')
       /\ (pc'[t] \in AtTwo => nb'[t] \in live')
       /\ (pc'[t] \in {"borrow", "split", "grow", "raise", "halve"} => child'[t] # nb'[t])
    BY <1>k, <1>y, <1>z DEF ReadChildVersion, AtChild, AtRoot, AtTwo, Alone, ThreadOK
  <2>3. /\ (pc'[t] \in {"rver", "rslot", "wroot", "halve"} => HasRoot')
       /\ (pc'[t] \in AtRoot \cup {"rcheck", "rchild"} => slot'[t] \in 1 .. Len(kids'))
    BY <1>k, <1>y, <1>z DEF ReadChildVersion, AtRoot, HasRoot, ThreadOK
  <2>4. pc'[t] \in {"ssplit", "split", "grow", "raise", "halve"} => Len(keys'[child'[t]]) = ChildMax
    BY <1>k, <1>y, <1>z DEF ReadChildVersion, ThreadOK
  <2>5. IsInjective(unl'[t]) /\ (pc'[t] = "unlock" <=> unl'[t] # <<>>)
    BY <1>k, <1>y, <1>z DEF ReadChildVersion, IsInjective, ThreadOK
  <2>6. pc'[t] \in {"grow", "raise"} => nb'[t] \notin Named'
    BY <1>k, <1>y, <1>z DEF ReadChildVersion, ThreadOK
  <2>7. QED
    BY <2>1, <2>2, <2>3, <2>4, <2>5, <2>6 DEF ThreadOK
<1>o. Owns(t) = {}
  BY <1>k, <1>y DEF ReadChildVersion, Owns, Changes
<1>4. LocksStay(t)
  <2>1. Owns(t)' = {}
    BY <1>k, <1>y DEF ReadChildVersion, Owns, Changes
  <2>2. QED
    BY <1>o, <2>1, <1>k, <1>y DEF ReadChildVersion, LocksStay, IInv, LockInv
<1>5. Keeps(t)
  <2>1. child'[t] \in Named \cup {NoBin} /\ (pc'[t] = "wprev" => nb'[t] \in Named)
    BY <1>k, <1>y, <1>z DEF ReadChildVersion
  <2>2. QED
    BY <1>1, <1>4, <2>1, NoArrayChanges DEF ReadChildVersion
<1>8. RootStep(t)
  BY <1>k, <1>y DEF ReadChildVersion, RootStep, HoldsRoot, Alone, AtRoot, HasRoot, IInv, RootInv
<1>9. QED
  BY <1>2, <1>3, <1>5, <1>8

LEMMA ReadKeysStep ==
    ASSUME IInv, NEW t \in Thread, ReadKeys(t)
    PROVE  TypeOK' /\ ThreadOK(t)' /\ Keeps(t) /\ RootStep(t)
<1> USE NameAssumption, BoundAssumption DEF NameAssumption, BoundAssumption, GoTo, shared, bins,
   root, history
<1>y. /\ live \subseteq Bin
      /\ pc \in [Thread -> Labels]
      /\ child \in [Thread -> Bin \cup {NoBin}]
      /\ res \in [Thread -> {"none", "ok", "failed", "retry", "retrain"}]
  BY DEF IInv, TypeOK
<1>z. ThreadOK(t) /\ child[t] \in Named
  BY DEF IInv, Named
<1>1. OthersStay(t)
  BY DEF ReadKeys, OthersStay, IInv, TypeOK
<1>2. TypeOK'
  <2>1. pc' \in [Thread -> Labels]
    BY <1>y DEF ReadKeys, Labels
  <2>2. res' \in [Thread -> {"none", "ok", "failed", "retry", "retrain"}]
    BY <1>y DEF ReadKeys
  <2>3. QED
    BY <2>1, <2>2 DEF ReadKeys, IInv, TypeOK, HasRoot
<1>3. ThreadOK(t)'
  BY <1>y, <1>z DEF ReadKeys, ThreadOK, IsInjective, AtChild, AtRoot, AtTwo, Alone, HasRoot, key
<1>4. LocksStay(t)
  BY <1>y DEF ReadKeys, LocksStay, Owns, Changes, IInv, LockInv, TypeOK
<1>5. Keeps(t)
  <2>1. child'[t] \in Named \cup {NoBin} /\ (pc'[t] = "wprev" => nb'[t] \in Named)
    BY <1>y, <1>z DEF ReadKeys
  <2>2. QED
    BY <1>1, <1>4, <2>1, NoArrayChanges DEF ReadKeys
<1>8. RootStep(t)
  BY <1>y DEF ReadKeys, RootStep, HoldsRoot, Alone, AtRoot, HasRoot, IInv, RootInv
<1>9. QED
  BY <1>2, <1>3, <1>5, <1>8

LEMMA CheckChildStep ==
    ASSUME IInv, NEW t \in Thread, CheckChild(t)
    PROVE  TypeOK' /\ ThreadOK(t)' /\ Keeps(t) /\ RootStep(t)
<1> USE NameAssumption, BoundAssumption DEF NameAssumption, BoundAssumption, GoTo, shared, bins,
   root, local, history
<1>y. /\ live \subseteq Bin
      /\ locked \subseteq live \cup {Root}
      /\ ver \in [Bin \cup {Root} -> Nat]
      /\ pc \in [Thread -> Labels]
      /\ child \in [Thread -> Bin \cup {NoBin}]
      /\ known \in [Thread -> Nat]
  BY DEF IInv, TypeOK
<1>z. ThreadOK(t) /\ child[t] \in Named
  BY DEF IInv, Named
<1>1. OthersStay(t)
  BY DEF CheckChild, OthersStay, IInv, TypeOK
<1>2. TypeOK'
  <2>1. pc' \in [Thread -> Labels]
    BY <1>y DEF CheckChild, Labels
  <2>2. QED
    BY <2>1 DEF CheckChild, IInv, TypeOK, HasRoot
<1>3. ThreadOK(t)'
  BY <1>y, <1>z DEF CheckChild, ThreadOK, IsInjective, AtChild, AtRoot, AtTwo, Alone, HasRoot, key
<1>4. LocksStay(t)
  BY <1>y DEF CheckChild, LocksStay, Owns, Changes, IInv, LockInv, TypeOK
<1>5. Keeps(t)
  <2>1. child'[t] \in Named \cup {NoBin} /\ (pc'[t] = "wprev" => nb'[t] \in Named)
    BY <1>y, <1>z DEF CheckChild
  <2>2. QED
    BY <1>1, <1>4, <2>1, NoArrayChanges DEF CheckChild
<1>8. RootStep(t)
  BY <1>y DEF CheckChild, RootStep, HoldsRoot, Alone, AtRoot, HasRoot, IInv, RootInv
<1>9. QED
  BY <1>2, <1>3, <1>5, <1>8

LEMMA HopStep ==
    ASSUME IInv, NEW t \in Thread, Hop(t)
    PROVE  TypeOK' /\ ThreadOK(t)' /\ Keeps(t) /\ RootStep(t)
<1> USE NameAssumption, BoundAssumption DEF NameAssumption, BoundAssumption, GoTo, Beyond, shared,
   bins, root, history
<1>k. /\ key(t) \in Key
      /\ child[t] \in live /\ child[t] \in live \cup {Root} /\ child[t] # Root /\ Root \in live \cup {Root}
      /\ child[t] \in Bin /\ child[t] \in Named
  BY Knows DEF Hop
<1>s. next[child[t]] \in live \cup {NoBin} /\ next[child[t]] \in Named
  BY <1>k, Links
<1>y. /\ live \subseteq Bin
      /\ next \in [Bin -> live \cup {NoBin}]
      /\ ver \in [Bin \cup {Root} -> Nat]
      /\ pc \in [Thread -> Labels]
      /\ child \in [Thread -> Bin \cup {NoBin}]
      /\ slot \in [Thread -> Nat]
      /\ known \in [Thread -> Nat]
  BY DEF IInv, TypeOK
<1>z. ThreadOK(t) /\ child[t] \in Named
  BY DEF IInv, Named
<1>1. OthersStay(t)
  BY DEF Hop, OthersStay, IInv, TypeOK
<1>2. TypeOK'
  <2>1. pc' \in [Thread -> Labels]
    BY <1>y DEF Hop, Labels
  <2>2. child' \in [Thread -> Bin \cup {NoBin}]
    BY <1>k, <1>s, <1>y DEF Hop
  <2>3. slot' \in [Thread -> Nat]
    BY SMTT(60), <1>k, <1>s, <1>y DEF Hop
  <2>4. known' \in [Thread -> Nat]
    BY <1>k, <1>s, <1>y DEF Hop
  <2>5. QED
    BY <2>1, <2>2, <2>3, <2>4 DEF Hop, IInv, TypeOK, HasRoot
<1>3. ThreadOK(t)'
  <2>1. pc'[t] # "idle" => key(t)' \in Key
    BY <1>k, <1>s, <1>y, <1>z DEF Hop, key, ThreadOK
  <2>2. /\ child'[t] \in live' \cup {NoBin} /\ (pc'[t] \in AtChild => child'[t] \in live')
       /\ (pc'[t] \in AtTwo => nb'[t] \in live')
       /\ (pc'[t] \in {"borrow", "split", "grow", "raise", "halve"} => child'[t] # nb'[t])
    BY <1>k, <1>s, <1>y, <1>z DEF Hop, AtChild, AtRoot, AtTwo, Alone, ThreadOK
  <2>3. /\ (pc'[t] \in {"rver", "rslot", "wroot", "halve"} => HasRoot')
       /\ (pc'[t] \in AtRoot \cup {"rcheck", "rchild"} => slot'[t] \in 1 .. Len(kids'))
    BY <1>k, <1>s, <1>y, <1>z DEF Hop, AtRoot, HasRoot, ThreadOK
  <2>4. pc'[t] \in {"ssplit", "split", "grow", "raise", "halve"} => Len(keys'[child'[t]]) = ChildMax
    BY <1>k, <1>s, <1>y, <1>z DEF Hop, ThreadOK
  <2>5. IsInjective(unl'[t]) /\ (pc'[t] = "unlock" <=> unl'[t] # <<>>)
    BY <1>k, <1>s, <1>y, <1>z DEF Hop, IsInjective, ThreadOK
  <2>6. pc'[t] \in {"grow", "raise"} => nb'[t] \notin Named'
    BY <1>k, <1>s, <1>y, <1>z DEF Hop, ThreadOK
  <2>7. QED
    BY <2>1, <2>2, <2>3, <2>4, <2>5, <2>6 DEF ThreadOK
<1>o. Owns(t) = {}
  BY <1>k, <1>s, <1>y DEF Hop, Owns, Changes
<1>4. LocksStay(t)
  <2>1. Owns(t)' = {}
    BY <1>k, <1>s, <1>y DEF Hop, Owns, Changes
  <2>2. QED
    BY <1>o, <2>1, <1>k, <1>s, <1>y DEF Hop, LocksStay, IInv, LockInv
<1>5. Keeps(t)
  <2>1. child'[t] \in Named \cup {NoBin} /\ (pc'[t] = "wprev" => nb'[t] \in Named)
    BY <1>k, <1>s, <1>y, <1>z DEF Hop
  <2>2. QED
    BY <1>1, <1>4, <2>1, NoArrayChanges DEF Hop
<1>8. RootStep(t)
  BY <1>k, <1>s, <1>y DEF Hop, RootStep, HoldsRoot, Alone, AtRoot, HasRoot, IInv, RootInv
<1>9. QED
  BY <1>2, <1>3, <1>5, <1>8

LEMMA InsertStartStep ==
    ASSUME IInv, NEW t \in Thread, InsertStart(t)
    PROVE  TypeOK' /\ ThreadOK(t)' /\ Keeps(t) /\ RootStep(t)
<1> USE NameAssumption, BoundAssumption DEF NameAssumption, BoundAssumption, GoTo, Finish, shared,
   bins, root, history
<1>k. /\ key(t) \in Key
  BY Knows DEF InsertStart
<1>s. head \in live \cup {NoBin} /\ head \in Named
  BY Links
<1>y. /\ live \subseteq Bin
      /\ retr \in BOOLEAN
      /\ pc \in [Thread -> Labels]
      /\ child \in [Thread -> Bin \cup {NoBin}]
      /\ slot \in [Thread -> Nat]
      /\ res \in [Thread -> {"none", "ok", "failed", "retry", "retrain"}]
  BY DEF IInv, TypeOK
<1>z. ThreadOK(t) /\ child[t] \in Named
  BY DEF IInv, Named
<1>1. OthersStay(t)
  BY DEF InsertStart, OthersStay, IInv, TypeOK
<1>2. TypeOK'
  <2>1. pc' \in [Thread -> Labels]
    BY <1>y DEF InsertStart, Labels
  <2>2. child' \in [Thread -> Bin \cup {NoBin}]
    BY <1>k, <1>s, <1>y DEF InsertStart
  <2>3. slot' \in [Thread -> Nat]
    BY <1>k, <1>s, <1>y DEF InsertStart
  <2>4. res' \in [Thread -> {"none", "ok", "failed", "retry", "retrain"}]
    BY <1>k, <1>s, <1>y DEF InsertStart
  <2>5. QED
    BY <2>1, <2>2, <2>3, <2>4 DEF InsertStart, IInv, TypeOK, HasRoot
<1>3. ThreadOK(t)'
  <2>1. pc'[t] # "idle" => key(t)' \in Key
    BY <1>k, <1>s, <1>y, <1>z DEF InsertStart, key, ThreadOK
  <2>2. /\ child'[t] \in live' \cup {NoBin} /\ (pc'[t] \in AtChild => child'[t] \in live')
       /\ (pc'[t] \in AtTwo => nb'[t] \in live')
       /\ (pc'[t] \in {"borrow", "split", "grow", "raise", "halve"} => child'[t] # nb'[t])
    BY <1>k, <1>s, <1>y, <1>z DEF InsertStart, AtChild, AtRoot, AtTwo, Alone, ThreadOK
  <2>3. /\ (pc'[t] \in {"rver", "rslot", "wroot", "halve"} => HasRoot')
       /\ (pc'[t] \in AtRoot \cup {"rcheck", "rchild"} => slot'[t] \in 1 .. Len(kids'))
    BY <1>k, <1>s, <1>y, <1>z DEF InsertStart, AtRoot, HasRoot, ThreadOK
  <2>4. pc'[t] \in {"ssplit", "split", "grow", "raise", "halve"} => Len(keys'[child'[t]]) = ChildMax
    BY <1>k, <1>s, <1>y, <1>z DEF InsertStart, ThreadOK
  <2>5. IsInjective(unl'[t]) /\ (pc'[t] = "unlock" <=> unl'[t] # <<>>)
    BY <1>k, <1>s, <1>y, <1>z DEF InsertStart, IsInjective, ThreadOK
  <2>6. pc'[t] \in {"grow", "raise"} => nb'[t] \notin Named'
    BY <1>k, <1>s, <1>y, <1>z DEF InsertStart, ThreadOK
  <2>7. QED
    BY <2>1, <2>2, <2>3, <2>4, <2>5, <2>6 DEF ThreadOK
<1>o. Owns(t) = {}
  BY <1>k, <1>s, <1>y DEF InsertStart, Owns, Changes
<1>4. LocksStay(t)
  <2>1. Owns(t)' = {}
    BY <1>k, <1>s, <1>y DEF InsertStart, Owns, Changes
  <2>2. QED
    BY <1>o, <2>1, <1>k, <1>s, <1>y DEF InsertStart, LocksStay, IInv, LockInv
<1>5. Keeps(t)
  <2>1. child'[t] \in Named \cup {NoBin} /\ (pc'[t] = "wprev" => nb'[t] \in Named)
    BY <1>k, <1>s, <1>y, <1>z DEF InsertStart
  <2>2. QED
    BY <1>1, <1>4, <2>1, NoArrayChanges DEF InsertStart
<1>8. RootStep(t)
  BY <1>k, <1>s, <1>y DEF InsertStart, RootStep, HoldsRoot, Alone, AtRoot, HasRoot, IInv, RootInv
<1>9. QED
  BY <1>2, <1>3, <1>5, <1>8

LEMMA LockRootStep ==
    ASSUME IInv, NEW t \in Thread, LockRoot(t)
    PROVE  TypeOK' /\ ThreadOK(t)' /\ Keeps(t) /\ RootStep(t)
<1> USE NameAssumption, BoundAssumption DEF NameAssumption, BoundAssumption, GoTo, Release, bins,
   root, history
<1>k. /\ key(t) \in Key
      /\ HasRoot /\ Len(kids) = Len(rkeys) + 1
  BY Knows DEF LockRoot
<1>r. LET l == <<Root>> IN
          l \in Seq(live \cup {Root}) /\ l # <<>> /\ ToSet(l) = {Root} /\ IsInjective(l)
  BY OneLock
<1>s. /\ Lower(rkeys, key(t)) \in 1 .. Len(kids)
      /\ kids[Lower(rkeys, key(t))] \in live /\ kids[Lower(rkeys, key(t))] \in Named
  BY <1>k, LowerBounds, KidsAre DEF IInv, TypeOK
<1>g. \/ pc' = [pc EXCEPT ![t] = "unlock"] /\ unl' = [unl EXCEPT ![t] = <<Root>>]
      \/ pc' = [pc EXCEPT ![t] = "wchild"] /\ UNCHANGED unl
  BY DEF LockRoot
<1>y. /\ live \subseteq Bin
      /\ locked \subseteq live \cup {Root}
      /\ kids \in Seq(live) /\ Len(kids) = (IF HasRoot THEN Len(rkeys) + 1 ELSE 0)
      /\ retr \in BOOLEAN
      /\ pc \in [Thread -> Labels]
      /\ child \in [Thread -> Bin \cup {NoBin}]
      /\ slot \in [Thread -> Nat]
      /\ res \in [Thread -> {"none", "ok", "failed", "retry", "retrain"}]
      /\ unl \in [Thread -> Seq(live \cup {Root})]
  BY DEF IInv, TypeOK
<1>z. ThreadOK(t) /\ child[t] \in Named
  BY DEF IInv, Named
<1>1. OthersStay(t)
  BY DEF LockRoot, OthersStay, IInv, TypeOK
<1>2. TypeOK'
  <2>1. locked' \subseteq live' \cup {Root}
    BY <1>k, <1>r, <1>s, <1>g, <1>y DEF LockRoot
  <2>2. pc' \in [Thread -> Labels]
    BY <1>g, <1>y DEF Labels
  <2>3. child' \in [Thread -> Bin \cup {NoBin}]
    BY <1>k, <1>r, <1>s, <1>g, <1>y DEF LockRoot
  <2>4. slot' \in [Thread -> Nat]
    BY <1>k, <1>r, <1>s, <1>g, <1>y DEF LockRoot
  <2>5. res' \in [Thread -> {"none", "ok", "failed", "retry", "retrain"}]
    BY <1>k, <1>r, <1>s, <1>g, <1>y DEF LockRoot
  <2>6. unl' \in [Thread -> Seq(live' \cup {Root})]
    BY <1>k, <1>r, <1>s, <1>g, <1>y DEF LockRoot
  <2>7. QED
    BY <2>1, <2>2, <2>3, <2>4, <2>5, <2>6 DEF LockRoot, IInv, TypeOK, HasRoot
<1>3. ThreadOK(t)'
  <2>1. pc'[t] # "idle" => key(t)' \in Key
    BY <1>k, <1>r, <1>s, <1>g, <1>y, <1>z DEF LockRoot, key, ThreadOK
  <2>2. /\ child'[t] \in live' \cup {NoBin} /\ (pc'[t] \in AtChild => child'[t] \in live')
       /\ (pc'[t] \in AtTwo => nb'[t] \in live')
       /\ (pc'[t] \in {"borrow", "split", "grow", "raise", "halve"} => child'[t] # nb'[t])
    BY <1>k, <1>r, <1>s, <1>g, <1>y, <1>z DEF LockRoot, AtChild, AtRoot, AtTwo, Alone, ThreadOK
  <2>3. /\ (pc'[t] \in {"rver", "rslot", "wroot", "halve"} => HasRoot')
       /\ (pc'[t] \in AtRoot \cup {"rcheck", "rchild"} => slot'[t] \in 1 .. Len(kids'))
    BY <1>k, <1>r, <1>s, <1>g, <1>y, <1>z DEF LockRoot, AtRoot, HasRoot, ThreadOK
  <2>4. pc'[t] \in {"ssplit", "split", "grow", "raise", "halve"} => Len(keys'[child'[t]]) = ChildMax
    BY <1>k, <1>r, <1>s, <1>g, <1>y, <1>z DEF LockRoot, ThreadOK
  <2>5. IsInjective(unl'[t]) /\ (pc'[t] = "unlock" <=> unl'[t] # <<>>)
    BY <1>g, <1>r, <1>y, <1>z DEF LockRoot, ThreadOK
  <2>6. pc'[t] \in {"grow", "raise"} => nb'[t] \notin Named'
    BY <1>k, <1>r, <1>s, <1>g, <1>y, <1>z DEF LockRoot, ThreadOK
  <2>7. QED
    BY <2>1, <2>2, <2>3, <2>4, <2>5, <2>6 DEF ThreadOK
<1>o. Owns(t) = {}
  BY <1>k, <1>r, <1>s, <1>g, <1>y DEF LockRoot, Owns, Changes
<1>4. LocksStay(t)
  <2>1. Owns(t)' = {}
    BY <1>k, <1>r, <1>s, <1>g, <1>y DEF LockRoot, Owns, Changes
  <2>2. QED
    BY <1>o, <2>1, <1>k, <1>r, <1>s, <1>g, <1>y DEF LockRoot, LocksStay, IInv, LockInv
<1>5. Keeps(t)
  <2>1. child'[t] \in Named \cup {NoBin} /\ (pc'[t] = "wprev" => nb'[t] \in Named)
    BY <1>k, <1>r, <1>s, <1>g, <1>y, <1>z DEF LockRoot
  <2>2. QED
    BY <1>1, <1>4, <2>1, NoArrayChanges DEF LockRoot
<1>8. RootStep(t)
  BY <1>k, <1>r, <1>s, <1>g, <1>y DEF LockRoot, RootStep, HoldsRoot, Alone, AtRoot, HasRoot, IInv,
     RootInv
<1>9. QED
  BY <1>2, <1>3, <1>5, <1>8

LEMMA LockChildStep ==
    ASSUME IInv, NEW t \in Thread, LockChild(t)
    PROVE  TypeOK' /\ ThreadOK(t)' /\ Keeps(t) /\ RootStep(t)
<1> USE NameAssumption, BoundAssumption DEF NameAssumption, BoundAssumption, GoTo, bins, root,
   local, history
<1>k. /\ key(t) \in Key
      /\ child[t] \in live /\ child[t] \in live \cup {Root} /\ child[t] # Root /\ Root \in live \cup {Root}
      /\ child[t] \in Bin /\ child[t] \in Named
  BY Knows DEF LockChild
<1>y. /\ live \subseteq Bin
      /\ locked \subseteq live \cup {Root}
      /\ pc \in [Thread -> Labels]
      /\ child \in [Thread -> Bin \cup {NoBin}]
  BY DEF IInv, TypeOK
<1>z. ThreadOK(t) /\ child[t] \in Named
  BY DEF IInv, Named
<1>1. OthersStay(t)
  BY DEF LockChild, OthersStay, IInv, TypeOK
<1>2. TypeOK'
  <2>1. locked' \subseteq live' \cup {Root}
    BY <1>k, <1>y DEF LockChild
  <2>2. pc' \in [Thread -> Labels]
    BY <1>y DEF LockChild, Labels
  <2>3. QED
    BY <2>1, <2>2 DEF LockChild, IInv, TypeOK, HasRoot
<1>3. ThreadOK(t)'
  <2>1. pc'[t] # "idle" => key(t)' \in Key
    BY <1>k, <1>y, <1>z DEF LockChild, key, ThreadOK
  <2>2. /\ child'[t] \in live' \cup {NoBin} /\ (pc'[t] \in AtChild => child'[t] \in live')
       /\ (pc'[t] \in AtTwo => nb'[t] \in live')
       /\ (pc'[t] \in {"borrow", "split", "grow", "raise", "halve"} => child'[t] # nb'[t])
    BY <1>k, <1>y, <1>z DEF LockChild, AtChild, AtRoot, AtTwo, Alone, ThreadOK
  <2>3. /\ (pc'[t] \in {"rver", "rslot", "wroot", "halve"} => HasRoot')
       /\ (pc'[t] \in AtRoot \cup {"rcheck", "rchild"} => slot'[t] \in 1 .. Len(kids'))
    BY <1>k, <1>y, <1>z DEF LockChild, AtRoot, HasRoot, ThreadOK
  <2>4. pc'[t] \in {"ssplit", "split", "grow", "raise", "halve"} => Len(keys'[child'[t]]) = ChildMax
    BY <1>k, <1>y, <1>z DEF LockChild, ThreadOK
  <2>5. IsInjective(unl'[t]) /\ (pc'[t] = "unlock" <=> unl'[t] # <<>>)
    BY <1>k, <1>y, <1>z DEF LockChild, IsInjective, ThreadOK
  <2>6. pc'[t] \in {"grow", "raise"} => nb'[t] \notin Named'
    BY <1>k, <1>y, <1>z DEF LockChild, ThreadOK
  <2>7. QED
    BY <2>1, <2>2, <2>3, <2>4, <2>5, <2>6 DEF ThreadOK
<1>o. Owns(t) = {}
  BY <1>k, <1>y DEF LockChild, Owns, Changes
<1>4. LocksStay(t)
  <2>1. Owns(t)' = {child[t]}
    BY <1>k, <1>y DEF LockChild, Owns, Changes
  <2>2. QED
    BY <1>o, <2>1, <1>k, <1>y DEF LockChild, LocksStay, IInv, LockInv
<1>5. Keeps(t)
  <2>1. child'[t] \in Named \cup {NoBin} /\ (pc'[t] = "wprev" => nb'[t] \in Named)
    BY <1>k, <1>y, <1>z DEF LockChild
  <2>2. QED
    BY <1>1, <1>4, <2>1, NoArrayChanges DEF LockChild
<1>8. RootStep(t)
  BY <1>k, <1>y DEF LockChild, RootStep, HoldsRoot, Alone, AtRoot, HasRoot, IInv, RootInv
<1>9. QED
  BY <1>2, <1>3, <1>5, <1>8

LEMMA DuplicateStep ==
    ASSUME IInv, NEW t \in Thread, Duplicate(t)
    PROVE  TypeOK' /\ ThreadOK(t)' /\ Keeps(t) /\ RootStep(t)
<1> USE NameAssumption, BoundAssumption DEF NameAssumption, BoundAssumption, Release, GoTo,
   shared, bins, root, history
<1>k. /\ key(t) \in Key
      /\ child[t] \in live /\ child[t] \in live \cup {Root} /\ child[t] # Root /\ Root \in live \cup {Root}
      /\ child[t] \in Bin /\ child[t] \in Named
  BY Knows DEF Duplicate
<1>m. LET l == <<child[t], Root>> IN
          l \in Seq(live \cup {Root}) /\ l # <<>> /\ ToSet(l) = {child[t], Root} /\ IsInjective(l)
  BY <1>k, TwoLocks
<1>n. LET l == <<child[t]>> IN
          l \in Seq(live \cup {Root}) /\ l # <<>> /\ ToSet(l) = {child[t]} /\ IsInjective(l)
  BY <1>k, OneLock
<1>y. /\ live \subseteq Bin
      /\ pc \in [Thread -> Labels]
      /\ child \in [Thread -> Bin \cup {NoBin}]
      /\ res \in [Thread -> {"none", "ok", "failed", "retry", "retrain"}]
      /\ unl \in [Thread -> Seq(live \cup {Root})]
  BY DEF IInv, TypeOK
<1>z. ThreadOK(t) /\ child[t] \in Named
  BY DEF IInv, Named
<1>1. OthersStay(t)
  BY DEF Duplicate, OthersStay, IInv, TypeOK
<1>2. TypeOK'
  <2>1. pc' \in [Thread -> Labels]
    BY <1>y DEF Duplicate, Labels
  <2>2. res' \in [Thread -> {"none", "ok", "failed", "retry", "retrain"}]
    BY <1>k, <1>m, <1>n, <1>y DEF Duplicate
  <2>3. unl' \in [Thread -> Seq(live' \cup {Root})]
    BY <1>k, <1>m, <1>n, <1>y DEF Duplicate
  <2>4. QED
    BY <2>1, <2>2, <2>3 DEF Duplicate, IInv, TypeOK, HasRoot
<1>3. ThreadOK(t)'
  BY <1>k, <1>m, <1>n, <1>y, <1>z DEF Duplicate, ThreadOK, IsInjective, AtChild, AtRoot, AtTwo,
     Alone, HasRoot, key
<1>o. Owns(t) = {child[t]}
  BY <1>k, <1>m, <1>n, <1>y DEF Duplicate, Owns, Changes
<1>4. LocksStay(t)
  <2>1. Owns(t)' = {child[t]}
    BY <1>k, <1>m, <1>n, <1>y DEF Duplicate, Owns, Changes
  <2>2. QED
    BY <1>o, <2>1, <1>k, <1>m, <1>n, <1>y DEF Duplicate, LocksStay, IInv, LockInv
<1>5. Keeps(t)
  <2>1. child'[t] \in Named \cup {NoBin} /\ (pc'[t] = "wprev" => nb'[t] \in Named)
    BY <1>k, <1>m, <1>n, <1>y, <1>z DEF Duplicate
  <2>2. QED
    BY <1>1, <1>4, <2>1, NoArrayChanges DEF Duplicate
<1>8. RootStep(t)
  BY <1>k, <1>m, <1>n, <1>y DEF Duplicate, RootStep, HoldsRoot, Alone, AtRoot, HasRoot, IInv,
     RootInv
<1>9. QED
  BY <1>2, <1>3, <1>5, <1>8

LEMMA PutInChildStep ==
    ASSUME IInv, NEW t \in Thread, PutInChild(t)
    PROVE  TypeOK' /\ ThreadOK(t)' /\ Keeps(t) /\ RootStep(t)
<1> USE NameAssumption, BoundAssumption DEF NameAssumption, BoundAssumption, Release, GoTo,
   IsFull, history
<1>k. /\ key(t) \in Key
      /\ child[t] \in live /\ child[t] \in live \cup {Root} /\ child[t] # Root /\ Root \in live \cup {Root}
      /\ child[t] \in Bin /\ child[t] \in Named
  BY Knows DEF PutInChild
<1>m. LET l == <<child[t], Root>> IN
          l \in Seq(live \cup {Root}) /\ l # <<>> /\ ToSet(l) = {child[t], Root} /\ IsInjective(l)
  BY <1>k, TwoLocks
<1>s. /\ Inserted(t) \in Seq(Key) /\ Len(Inserted(t)) = Len(keys[child[t]]) + 1
      /\ Inserted(t)[1] \in Key /\ Tail(Inserted(t)) \in Seq(Key)
  BY <1>k, InsertedIs
<1>v. Separate(slot[t], key(t)) \in Seq(Key) /\ Len(Separate(slot[t], key(t))) = Len(rkeys)
  BY <1>k, SeparateIs
<1>y. /\ live \subseteq Bin
      /\ keys \in [Bin -> Seq(Key)]
      /\ rkeys \in Seq(Key)
      /\ kids \in Seq(live) /\ Len(kids) = (IF HasRoot THEN Len(rkeys) + 1 ELSE 0)
      /\ ver \in [Bin \cup {Root} -> Nat]
      /\ pc \in [Thread -> Labels]
      /\ child \in [Thread -> Bin \cup {NoBin}]
      /\ slot \in [Thread -> Nat]
      /\ res \in [Thread -> {"none", "ok", "failed", "retry", "retrain"}]
      /\ unl \in [Thread -> Seq(live \cup {Root})]
  BY DEF IInv, TypeOK
<1>z. ThreadOK(t) /\ child[t] \in Named
  BY DEF IInv, Named
<1>1. OthersStay(t)
  BY DEF PutInChild, OthersStay, IInv, TypeOK
<1>2. TypeOK'
  <2>1. keys' \in [Bin -> Seq(Key)]
    BY <1>k, <1>m, <1>s, <1>v, <1>y DEF PutInChild
  <2>2. rkeys' \in Seq(Key)
    BY <1>k, <1>m, <1>s, <1>v, <1>y DEF PutInChild
  <2>3. kids' \in Seq(live') /\ Len(kids') = (IF HasRoot' THEN Len(rkeys') + 1 ELSE 0)
    BY <1>k, <1>m, <1>s, <1>v, <1>y DEF PutInChild, HasRoot
  <2>4. ver' \in [Bin \cup {Root} -> Nat]
    BY <1>y, BumpIs DEF PutInChild
  <2>5. pc' \in [Thread -> Labels]
    BY <1>y DEF PutInChild, Labels
  <2>6. res' \in [Thread -> {"none", "ok", "failed", "retry", "retrain"}]
    BY <1>k, <1>m, <1>s, <1>v, <1>y DEF PutInChild
  <2>7. unl' \in [Thread -> Seq(live' \cup {Root})]
    BY <1>k, <1>m, <1>s, <1>v, <1>y DEF PutInChild
  <2>8. QED
    BY <2>1, <2>2, <2>3, <2>4, <2>5, <2>6, <2>7 DEF PutInChild, IInv, TypeOK
<1>3. ThreadOK(t)'
  BY <1>k, <1>m, <1>s, <1>v, <1>y, <1>z DEF PutInChild, ThreadOK, IsInjective, AtChild, AtRoot,
     AtTwo, Alone, HasRoot, key
<1>o. Owns(t) = {child[t]}
  BY <1>k, <1>m, <1>s, <1>v, <1>y DEF PutInChild, Owns, Changes
<1>4. LocksStay(t)
  <2>1. Owns(t)' = {child[t]}
    BY <1>k, <1>m, <1>s, <1>v, <1>y DEF PutInChild, Owns, Changes
  <2>2. QED
    BY <1>o, <2>1, <1>k, <1>m, <1>s, <1>v, <1>y DEF PutInChild, LocksStay, IInv, LockInv
<1>5. NamesStay(t)
  <2> DEFINE Known == Named \cup Owns(t) \cup (Bin \ live) \cup {NoBin}
  <2>1. head' \in Known /\ tail' \in Known /\ \A b \in Bin : next'[b] \in Known
    BY <1>k, <1>m, <1>s, <1>v, <1>y, <1>o, Links DEF PutInChild
  <2>2. \A i \in DOMAIN kids' : kids'[i] \in Known
    BY <1>k, <1>m, <1>s, <1>v, <1>y, <1>o DEF PutInChild, Named
  <2>3. child'[t] \in Known /\ pc'[t] # "wprev"
    BY <1>k, <1>m, <1>s, <1>v, <1>y, <1>z DEF PutInChild
  <2>4. QED
    BY <1>1, <2>1, <2>2, <2>3, NamesFrom DEF NamesStay
<1>6. ArraysStay(t)
  <2>1. live \ live' \subseteq {b \in {nb[t]} : pc[t] = "grow"}
    BY <1>k, <1>m, <1>s, <1>v, <1>y DEF PutInChild
  <2>2. (HasRoot => HasRoot') /\ Len(kids') >= Len(kids)
    BY <1>k, <1>m, <1>s, <1>v, <1>y DEF PutInChild, HasRoot
  <2>3. \A b \in live \ Owns(t) : keys'[b] = keys[b]
    BY <1>k, <1>m, <1>s, <1>v, <1>y, <1>o DEF PutInChild
  <2>4. QED
    BY <2>1, <2>2, <2>3 DEF ArraysStay
<1>7. Keeps(t)
  BY <1>1, <1>4, <1>5, <1>6 DEF Keeps
<1>8. RootStep(t)
  BY <1>k, <1>m, <1>s, <1>v, <1>y DEF PutInChild, RootStep, HoldsRoot, Alone, AtRoot, HasRoot,
     IInv, RootInv
<1>9. QED
  BY <1>2, <1>3, <1>7, <1>8

LEMMA ChooseLeftStep ==
    ASSUME IInv, NEW t \in Thread, ChooseLeft(t)
    PROVE  TypeOK' /\ ThreadOK(t)' /\ Keeps(t) /\ RootStep(t)
<1> USE NameAssumption, BoundAssumption DEF NameAssumption, BoundAssumption, GoTo, Crowded,
   IsFull, CanBorrow, shared, bins, root, history
<1>k. /\ key(t) \in Key
      /\ child[t] \in live /\ child[t] \in live \cup {Root} /\ child[t] # Root /\ Root \in live \cup {Root}
      /\ child[t] \in Bin /\ child[t] \in Named
      /\ HasRoot /\ slot[t] \in 1 .. Len(kids) /\ Len(kids) = Len(rkeys) + 1
      /\ slot[t] - 1 \in 1 .. Len(kids)
  BY Knows DEF ChooseLeft
<1>s. kids[slot[t] - 1] \in live /\ kids[slot[t] - 1] \in Named
  BY <1>k, KidsAre
<1>y. /\ live \subseteq Bin
      /\ kids \in Seq(live) /\ Len(kids) = (IF HasRoot THEN Len(rkeys) + 1 ELSE 0)
      /\ pc \in [Thread -> Labels]
      /\ nb \in [Thread -> Bin \cup {NoBin}]
      /\ slot \in [Thread -> Nat]
  BY DEF IInv, TypeOK
<1>z. ThreadOK(t) /\ child[t] \in Named
  BY DEF IInv, Named
<1>1. OthersStay(t)
  BY DEF ChooseLeft, OthersStay, IInv, TypeOK
<1>2. TypeOK'
  <2>1. pc' \in [Thread -> Labels]
    BY <1>y DEF ChooseLeft, Labels
  <2>2. nb' \in [Thread -> Bin \cup {NoBin}]
    BY <1>k, <1>s, <1>y DEF ChooseLeft
  <2>3. QED
    BY <2>1, <2>2 DEF ChooseLeft, IInv, TypeOK, HasRoot
<1>3. ThreadOK(t)'
  BY <1>k, <1>s, <1>y, <1>z DEF ChooseLeft, ThreadOK, IsInjective, AtChild, AtRoot, AtTwo, Alone,
     HasRoot, key
<1>o. Owns(t) = {child[t]}
  BY <1>k, <1>s, <1>y DEF ChooseLeft, Owns, Changes
<1>4. LocksStay(t)
  <2>1. Owns(t)' = {child[t]}
    BY <1>k, <1>s, <1>y DEF ChooseLeft, Owns, Changes
  <2>2. QED
    BY <1>o, <2>1, <1>k, <1>s, <1>y DEF ChooseLeft, LocksStay, IInv, LockInv
<1>5. Keeps(t)
  <2>1. child'[t] \in Named \cup {NoBin} /\ (pc'[t] = "wprev" => nb'[t] \in Named)
    BY <1>k, <1>s, <1>y, <1>z DEF ChooseLeft
  <2>2. QED
    BY <1>1, <1>4, <2>1, NoArrayChanges DEF ChooseLeft
<1>8. RootStep(t)
  BY <1>k, <1>s, <1>y DEF ChooseLeft, RootStep, HoldsRoot, Alone, AtRoot, HasRoot, IInv, RootInv
<1>9. QED
  BY <1>2, <1>3, <1>5, <1>8

LEMMA LockLeftStep ==
    ASSUME IInv, NEW t \in Thread, LockLeft(t)
    PROVE  TypeOK' /\ ThreadOK(t)' /\ Keeps(t) /\ RootStep(t)
<1> USE NameAssumption, BoundAssumption DEF NameAssumption, BoundAssumption, GoTo, bins, root,
   local, history
<1>k. /\ key(t) \in Key
      /\ child[t] \in live /\ child[t] \in live \cup {Root} /\ child[t] # Root /\ Root \in live \cup {Root}
      /\ child[t] \in Bin /\ child[t] \in Named
      /\ nb[t] \in live /\ nb[t] \in live \cup {Root} /\ nb[t] # Root /\ nb[t] \in Bin
      /\ HasRoot /\ slot[t] \in 1 .. Len(kids) /\ Len(kids) = Len(rkeys) + 1
  BY Knows DEF LockLeft
<1>s. child[t] \in locked /\ child[t] # nb[t]
  <2>1. Owns(t) \subseteq locked /\ Owns(t) = {child[t]}
    BY DEF LockLeft, IInv, LockInv, Owns, Changes
  <2>2. QED
    BY <2>1 DEF LockLeft
<1>y. /\ live \subseteq Bin
      /\ locked \subseteq live \cup {Root}
      /\ pc \in [Thread -> Labels]
      /\ nb \in [Thread -> Bin \cup {NoBin}]
  BY DEF IInv, TypeOK
<1>z. ThreadOK(t) /\ child[t] \in Named
  BY DEF IInv, Named
<1>1. OthersStay(t)
  BY DEF LockLeft, OthersStay, IInv, TypeOK
<1>2. TypeOK'
  <2>1. locked' \subseteq live' \cup {Root}
    BY <1>k, <1>s, <1>y DEF LockLeft
  <2>2. pc' \in [Thread -> Labels]
    BY <1>y DEF LockLeft, Labels
  <2>3. QED
    BY <2>1, <2>2 DEF LockLeft, IInv, TypeOK, HasRoot
<1>3. ThreadOK(t)'
  <2>1. pc'[t] # "idle" => key(t)' \in Key
    BY <1>k, <1>s, <1>y, <1>z DEF LockLeft, key, ThreadOK
  <2>2. /\ child'[t] \in live' \cup {NoBin} /\ (pc'[t] \in AtChild => child'[t] \in live')
       /\ (pc'[t] \in AtTwo => nb'[t] \in live')
       /\ (pc'[t] \in {"borrow", "split", "grow", "raise", "halve"} => child'[t] # nb'[t])
    BY <1>k, <1>s, <1>y, <1>z DEF LockLeft, AtChild, AtRoot, AtTwo, Alone, ThreadOK
  <2>3. /\ (pc'[t] \in {"rver", "rslot", "wroot", "halve"} => HasRoot')
       /\ (pc'[t] \in AtRoot \cup {"rcheck", "rchild"} => slot'[t] \in 1 .. Len(kids'))
    BY <1>k, <1>s, <1>y, <1>z DEF LockLeft, AtRoot, HasRoot, ThreadOK
  <2>4. pc'[t] \in {"ssplit", "split", "grow", "raise", "halve"} => Len(keys'[child'[t]]) = ChildMax
    BY <1>k, <1>s, <1>y, <1>z DEF LockLeft, ThreadOK
  <2>5. IsInjective(unl'[t]) /\ (pc'[t] = "unlock" <=> unl'[t] # <<>>)
    BY <1>k, <1>s, <1>y, <1>z DEF LockLeft, IsInjective, ThreadOK
  <2>6. pc'[t] \in {"grow", "raise"} => nb'[t] \notin Named'
    BY <1>k, <1>s, <1>y, <1>z DEF LockLeft, ThreadOK
  <2>7. QED
    BY <2>1, <2>2, <2>3, <2>4, <2>5, <2>6 DEF ThreadOK
<1>o. Owns(t) = {child[t]}
  BY <1>k, <1>s, <1>y DEF LockLeft, Owns, Changes
<1>4. LocksStay(t)
  <2>1. Owns(t)' = {child[t], nb[t]}
    BY <1>k, <1>s, <1>y DEF LockLeft, Owns, Changes
  <2>2. QED
    BY <1>o, <2>1, <1>k, <1>s, <1>y DEF LockLeft, LocksStay, IInv, LockInv
<1>5. Keeps(t)
  <2>1. child'[t] \in Named \cup {NoBin} /\ (pc'[t] = "wprev" => nb'[t] \in Named)
    BY <1>k, <1>s, <1>y, <1>z DEF LockLeft
  <2>2. QED
    BY <1>1, <1>4, <2>1, NoArrayChanges DEF LockLeft
<1>8. RootStep(t)
  BY <1>k, <1>s, <1>y DEF LockLeft, RootStep, HoldsRoot, Alone, AtRoot, HasRoot, IInv, RootInv
<1>9. QED
  BY <1>2, <1>3, <1>5, <1>8

LEMMA BorrowStep ==
    ASSUME IInv, NEW t \in Thread, Borrow(t)
    PROVE  TypeOK' /\ ThreadOK(t)' /\ Keeps(t) /\ RootStep(t)
<1> USE NameAssumption, BoundAssumption DEF NameAssumption, BoundAssumption, Release, GoTo,
   MovedLeft
<1>k. /\ key(t) \in Key
      /\ child[t] \in live /\ child[t] \in live \cup {Root} /\ child[t] # Root /\ Root \in live \cup {Root}
      /\ child[t] \in Bin /\ child[t] \in Named
      /\ nb[t] \in live /\ nb[t] \in live \cup {Root} /\ nb[t] # Root /\ nb[t] \in Bin
      /\ nb[t] # child[t]
      /\ HasRoot /\ slot[t] \in 1 .. Len(kids) /\ Len(kids) = Len(rkeys) + 1
  BY Knows DEF Borrow
<1>m. LET l == <<nb[t], child[t], Root>> IN
          l \in Seq(live \cup {Root}) /\ l # <<>> /\ ToSet(l) = {nb[t], child[t], Root} /\ IsInjective(l)
  BY <1>k, ThreeLocks
<1>s. /\ Inserted(t) \in Seq(Key) /\ Len(Inserted(t)) = Len(keys[child[t]]) + 1
      /\ Inserted(t)[1] \in Key /\ Tail(Inserted(t)) \in Seq(Key)
  BY <1>k, InsertedIs
<1>b. /\ keys' = [keys EXCEPT ![nb[t]] = Append(@, Inserted(t)[1]), ![child[t]] = Tail(Inserted(t))]
      /\ Append(keys[nb[t]], Inserted(t)[1]) \in Seq(Key)
  BY <1>k, <1>s DEF Borrow, IInv, TypeOK
<1>v. rkeys' \in Seq(Key) /\ Len(rkeys') = Len(rkeys)
  <2> DEFINE left == Separate(slot[t] - 1, Inserted(t)[1])
  <2>1. left \in Seq(Key) /\ Len(left) = Len(rkeys)
    BY <1>s, SeparateIs
  <2>2. rkeys' = left \/ rkeys' = [left EXCEPT ![slot[t]] = key(t)]
    BY DEF Borrow
  <2> HIDE DEF left
  <2>3. QED
    BY <1>k, <2>1, <2>2
<1>y. /\ live \subseteq Bin
      /\ keys \in [Bin -> Seq(Key)]
      /\ rkeys \in Seq(Key)
      /\ kids \in Seq(live) /\ Len(kids) = (IF HasRoot THEN Len(rkeys) + 1 ELSE 0)
      /\ ver \in [Bin \cup {Root} -> Nat]
      /\ pc \in [Thread -> Labels]
      /\ child \in [Thread -> Bin \cup {NoBin}]
      /\ nb \in [Thread -> Bin \cup {NoBin}]
      /\ slot \in [Thread -> Nat]
      /\ res \in [Thread -> {"none", "ok", "failed", "retry", "retrain"}]
      /\ unl \in [Thread -> Seq(live \cup {Root})]
      /\ moved \in [Thread -> BOOLEAN]
  BY DEF IInv, TypeOK
<1>z. ThreadOK(t) /\ child[t] \in Named
  BY DEF IInv, Named
<1>1. OthersStay(t)
  BY DEF Borrow, OthersStay, IInv, TypeOK
<1>2. TypeOK'
  <2>1. keys' \in [Bin -> Seq(Key)]
    BY <1>k, <1>m, <1>s, <1>b, <1>v, <1>y DEF Borrow
  <2>2. rkeys' \in Seq(Key)
    BY <1>k, <1>m, <1>s, <1>b, <1>v, <1>y DEF Borrow
  <2>3. kids' \in Seq(live') /\ Len(kids') = (IF HasRoot' THEN Len(rkeys') + 1 ELSE 0)
    BY <1>k, <1>m, <1>s, <1>b, <1>v, <1>y DEF Borrow, HasRoot
  <2>4. ver' \in [Bin \cup {Root} -> Nat]
    BY <1>y, BumpIs DEF Borrow
  <2>5. pc' \in [Thread -> Labels]
    BY <1>y DEF Borrow, Labels
  <2>6. res' \in [Thread -> {"none", "ok", "failed", "retry", "retrain"}]
    BY <1>k, <1>m, <1>s, <1>b, <1>v, <1>y DEF Borrow
  <2>7. unl' \in [Thread -> Seq(live' \cup {Root})]
    BY <1>k, <1>m, <1>s, <1>b, <1>v, <1>y DEF Borrow
  <2>8. moved' \in [Thread -> BOOLEAN]
    BY <1>k, <1>m, <1>s, <1>b, <1>v, <1>y DEF Borrow
  <2>9. QED
    BY <2>1, <2>2, <2>3, <2>4, <2>5, <2>6, <2>7, <2>8 DEF Borrow, IInv, TypeOK
<1>3. ThreadOK(t)'
  BY ZenonT(60), <1>k, <1>m, <1>s, <1>b, <1>v, <1>y, <1>z DEF Borrow, ThreadOK, IsInjective, AtChild, AtRoot,
     AtTwo, Alone, HasRoot, key
<1>o. Owns(t) = {child[t], nb[t]}
  BY <1>k, <1>m, <1>s, <1>b, <1>v, <1>y DEF Borrow, Owns, Changes
<1>4. LocksStay(t)
  <2>1. Owns(t)' = {child[t], nb[t]}
    BY <1>k, <1>m, <1>s, <1>b, <1>v, <1>y DEF Borrow, Owns, Changes
  <2>2. QED
    BY <1>o, <2>1, <1>k, <1>m, <1>s, <1>b, <1>v, <1>y DEF Borrow, LocksStay, IInv, LockInv
<1>5. NamesStay(t)
  <2> DEFINE Known == Named \cup Owns(t) \cup (Bin \ live) \cup {NoBin}
  <2>1. head' \in Known /\ tail' \in Known /\ \A b \in Bin : next'[b] \in Known
    BY <1>k, <1>m, <1>s, <1>b, <1>v, <1>y, <1>o, Links DEF Borrow
  <2>2. \A i \in DOMAIN kids' : kids'[i] \in Known
    BY <1>k, <1>m, <1>s, <1>b, <1>v, <1>y, <1>o DEF Borrow, Named
  <2>3. child'[t] \in Known /\ pc'[t] # "wprev"
    BY <1>k, <1>m, <1>s, <1>b, <1>v, <1>y, <1>z DEF Borrow
  <2>4. QED
    BY <1>1, <2>1, <2>2, <2>3, NamesFrom DEF NamesStay
<1>6. ArraysStay(t)
  <2>1. live \ live' \subseteq {b \in {nb[t]} : pc[t] = "grow"}
    BY <1>k, <1>m, <1>s, <1>b, <1>v, <1>y DEF Borrow
  <2>2. (HasRoot => HasRoot') /\ Len(kids') >= Len(kids)
    BY <1>k, <1>m, <1>s, <1>b, <1>v, <1>y DEF Borrow, HasRoot
  <2>3. \A b \in live \ Owns(t) : keys'[b] = keys[b]
    BY <1>k, <1>m, <1>s, <1>b, <1>v, <1>y, <1>o DEF Borrow
  <2>4. QED
    BY <2>1, <2>2, <2>3 DEF ArraysStay
<1>7. Keeps(t)
  BY <1>1, <1>4, <1>5, <1>6 DEF Keeps
<1>8. RootStep(t)
  BY <1>k, <1>m, <1>s, <1>b, <1>v, <1>y DEF Borrow, RootStep, HoldsRoot, Alone, AtRoot, HasRoot,
     IInv, RootInv
<1>9. QED
  BY <1>2, <1>3, <1>7, <1>8

LEMMA NeedRetrainStep ==
    ASSUME IInv, NEW t \in Thread, NeedRetrain(t)
    PROVE  TypeOK' /\ ThreadOK(t)' /\ Keeps(t) /\ RootStep(t)
<1> USE NameAssumption, BoundAssumption DEF NameAssumption, BoundAssumption, Release, GoTo,
   Crowded, IsFull, CanBorrow, bins, root, history
<1>k. /\ key(t) \in Key
      /\ child[t] \in live /\ child[t] \in live \cup {Root} /\ child[t] # Root /\ Root \in live \cup {Root}
      /\ child[t] \in Bin /\ child[t] \in Named
  BY Knows DEF NeedRetrain
<1>m. LET l == <<child[t], Root>> IN
          l \in Seq(live \cup {Root}) /\ l # <<>> /\ ToSet(l) = {child[t], Root} /\ IsInjective(l)
  BY <1>k, TwoLocks
<1>y. /\ live \subseteq Bin
      /\ rkeys \in Seq(Key)
      /\ retr \in BOOLEAN
      /\ pc \in [Thread -> Labels]
      /\ child \in [Thread -> Bin \cup {NoBin}]
      /\ res \in [Thread -> {"none", "ok", "failed", "retry", "retrain"}]
      /\ unl \in [Thread -> Seq(live \cup {Root})]
  BY DEF IInv, TypeOK
<1>z. ThreadOK(t) /\ child[t] \in Named
  BY DEF IInv, Named
<1>1. OthersStay(t)
  BY DEF NeedRetrain, OthersStay, IInv, TypeOK
<1>2. TypeOK'
  <2>1. retr' \in BOOLEAN
    BY <1>k, <1>m, <1>y DEF NeedRetrain
  <2>2. pc' \in [Thread -> Labels]
    BY <1>y DEF NeedRetrain, Labels
  <2>3. res' \in [Thread -> {"none", "ok", "failed", "retry", "retrain"}]
    BY <1>k, <1>m, <1>y DEF NeedRetrain
  <2>4. unl' \in [Thread -> Seq(live' \cup {Root})]
    BY <1>k, <1>m, <1>y DEF NeedRetrain
  <2>5. QED
    BY <2>1, <2>2, <2>3, <2>4 DEF NeedRetrain, IInv, TypeOK, HasRoot
<1>3. ThreadOK(t)'
  BY <1>k, <1>m, <1>y, <1>z DEF NeedRetrain, ThreadOK, IsInjective, AtChild, AtRoot, AtTwo, Alone,
     HasRoot, key
<1>o. Owns(t) = {child[t]}
  BY <1>k, <1>m, <1>y DEF NeedRetrain, Owns, Changes
<1>4. LocksStay(t)
  <2>1. Owns(t)' = {child[t]}
    BY <1>k, <1>m, <1>y DEF NeedRetrain, Owns, Changes
  <2>2. QED
    BY <1>o, <2>1, <1>k, <1>m, <1>y DEF NeedRetrain, LocksStay, IInv, LockInv
<1>5. Keeps(t)
  <2>1. child'[t] \in Named \cup {NoBin} /\ (pc'[t] = "wprev" => nb'[t] \in Named)
    BY <1>k, <1>m, <1>y, <1>z DEF NeedRetrain
  <2>2. QED
    BY <1>1, <1>4, <2>1, NoArrayChanges DEF NeedRetrain
<1>8. RootStep(t)
  BY <1>k, <1>m, <1>y DEF NeedRetrain, RootStep, HoldsRoot, Alone, AtRoot, HasRoot, IInv, RootInv
<1>9. QED
  BY <1>2, <1>3, <1>5, <1>8

LEMMA NewChildStep ==
    ASSUME IInv, NEW t \in Thread, NewChild(t)
    PROVE  TypeOK' /\ ThreadOK(t)' /\ Keeps(t) /\ RootStep(t)
<1> USE NameAssumption, BoundAssumption DEF NameAssumption, BoundAssumption, GoTo, Crowded,
   IsFull, CanBorrow, root, history
<1>k. /\ key(t) \in Key
      /\ child[t] \in live /\ child[t] \in live \cup {Root} /\ child[t] # Root /\ Root \in live \cup {Root}
      /\ child[t] \in Bin /\ child[t] \in Named
  BY Knows DEF NewChild
<1>b. PICK b \in Bin \ live :
        /\ live' = live \cup {b} /\ locked' = locked \cup {b} /\ nb' = [nb EXCEPT ![t] = b]
        /\ keys' = [keys EXCEPT ![b] = SubSeq(keys[child[t]], Mid(child[t]) + 1, Len(keys[child[t]]))]
        /\ next' = [next EXCEPT ![b] = next[child[t]]]
  BY DEF NewChild
<1>g. /\ \/ /\ pc[t] = "put" /\ pc' = [pc EXCEPT ![t] = "split"] /\ IsFull(child[t])
           /\ HasRoot /\ slot[t] \in 1 .. Len(kids)
         \/ pc[t] = "ssplit" /\ pc' = [pc EXCEPT ![t] = "grow"] /\ IsFull(child[t])
      /\ UNCHANGED <<head, tail, rkeys, kids, ver, retr, call, child, slot, known, res, unl, done, before,
                     moved, lost, rooted>>
  BY Knows DEF NewChild
<1>s. /\ keys[child[t]] \in Seq(Key)
      /\ SubSeq(keys[child[t]], Mid(child[t]) + 1, Len(keys[child[t]])) \in Seq(Key)
  <2>1. keys[child[t]] \in Seq(Key)
    BY <1>k DEF IInv, TypeOK
  <2>2. Mid(child[t]) \in Nat
    <3>1. Len(keys[child[t]]) = ChildMax
      BY <1>g
    <3>2. QED
      BY <3>1 DEF Mid
  <2>3. QED
    BY <2>1, <2>2, SubSeqProperties
<1>y. /\ live \subseteq Bin
      /\ locked \subseteq live \cup {Root}
      /\ keys \in [Bin -> Seq(Key)]
      /\ next \in [Bin -> live \cup {NoBin}]
      /\ head \in live \cup {NoBin}
      /\ tail \in live \cup {NoBin}
      /\ rkeys \in Seq(Key)
      /\ kids \in Seq(live) /\ Len(kids) = (IF HasRoot THEN Len(rkeys) + 1 ELSE 0)
      /\ pc \in [Thread -> Labels]
      /\ child \in [Thread -> Bin \cup {NoBin}]
      /\ nb \in [Thread -> Bin \cup {NoBin}]
      /\ unl \in [Thread -> Seq(live \cup {Root})]
  BY DEF IInv, TypeOK
<1>z. ThreadOK(t) /\ child[t] \in Named
  BY DEF IInv, Named
<1>1. OthersStay(t)
  BY <1>b, <1>g DEF OthersStay, IInv, TypeOK
<1>n. Named' \subseteq Named /\ b \notin Named
  <2>1. \A c \in Bin : next'[c] \in Named
    BY <1>b, <1>k, <1>y, Links
  <2>2. head' \in Named /\ tail' \in Named /\ (\A i \in DOMAIN kids' : kids'[i] \in Named)
    BY <1>g, Links DEF Named
  <2>3. child'[t] \in Named /\ pc'[t] # "wprev"
    BY <1>g, <1>k, <1>y
  <2>4. QED
    BY <1>1, <1>b, <2>1, <2>2, <2>3, NamesFrom, NamedLive
<1>2. TypeOK'
  <2>1. live' \subseteq Bin
    BY <1>k, <1>b, <1>g, <1>s, <1>y
  <2>2. locked' \subseteq live' \cup {Root}
    BY <1>k, <1>b, <1>g, <1>s, <1>y
  <2>3. keys' \in [Bin -> Seq(Key)]
    BY <1>k, <1>b, <1>g, <1>s, <1>y
  <2>4. next' \in [Bin -> live' \cup {NoBin}]
    BY <1>k, <1>b, <1>g, <1>s, <1>y
  <2>5. head' \in live' \cup {NoBin}
    BY <1>k, <1>b, <1>g, <1>s, <1>y
  <2>6. tail' \in live' \cup {NoBin}
    BY <1>k, <1>b, <1>g, <1>s, <1>y
  <2>7. kids' \in Seq(live') /\ Len(kids') = (IF HasRoot' THEN Len(rkeys') + 1 ELSE 0)
    BY <1>k, <1>b, <1>g, <1>s, <1>y DEF HasRoot
  <2>8. pc' \in [Thread -> Labels]
    BY ZenonT(60), <1>g, <1>y DEF Labels
  <2>9. nb' \in [Thread -> Bin \cup {NoBin}]
    BY <1>k, <1>b, <1>g, <1>s, <1>y
  <2>10. unl' \in [Thread -> Seq(live' \cup {Root})]
    BY <1>k, <1>b, <1>g, <1>s, <1>y
  <2>11. QED
    BY ZenonT(60), <2>1, <2>2, <2>3, <2>4, <2>5, <2>6, <2>7, <2>8, <2>9, <2>10, <1>b, <1>g DEF IInv, TypeOK
<1>3. ThreadOK(t)'
  <2>1. pc'[t] # "idle" => key(t)' \in Key
    BY <1>k, <1>b, <1>g, <1>s, <1>y, <1>z DEF key, ThreadOK
  <2>2. /\ child'[t] \in live' \cup {NoBin} /\ (pc'[t] \in AtChild => child'[t] \in live')
       /\ (pc'[t] \in AtTwo => nb'[t] \in live')
       /\ (pc'[t] \in {"borrow", "split", "grow", "raise", "halve"} => child'[t] # nb'[t])
    BY <1>k, <1>b, <1>g, <1>s, <1>y, <1>z DEF AtChild, AtRoot, AtTwo, Alone, ThreadOK
  <2>3. /\ (pc'[t] \in {"rver", "rslot", "wroot", "halve"} => HasRoot')
       /\ (pc'[t] \in AtRoot \cup {"rcheck", "rchild"} => slot'[t] \in 1 .. Len(kids'))
    BY <1>k, <1>b, <1>g, <1>s, <1>y, <1>z DEF AtRoot, HasRoot, ThreadOK
  <2>4. pc'[t] \in {"ssplit", "split", "grow", "raise", "halve"} => Len(keys'[child'[t]]) = ChildMax
    BY <1>k, <1>b, <1>g, <1>s, <1>y, <1>z DEF ThreadOK
  <2>5. IsInjective(unl'[t]) /\ (pc'[t] = "unlock" <=> unl'[t] # <<>>)
    BY <1>k, <1>b, <1>g, <1>s, <1>y, <1>z DEF IsInjective, ThreadOK
  <2>6. pc'[t] \in {"grow", "raise"} => nb'[t] \notin Named'
    BY <1>b, <1>n, <1>y
  <2>7. QED
    BY <2>1, <2>2, <2>3, <2>4, <2>5, <2>6 DEF ThreadOK
<1>o. Owns(t) = {child[t]}
  BY <1>k, <1>b, <1>g, <1>s, <1>y DEF Owns, Changes
<1>4. LocksStay(t)
  <2>1. Owns(t)' = {child[t], nb'[t]}
    BY <1>k, <1>b, <1>g, <1>s, <1>y DEF Owns, Changes
  <2>2. QED
    BY <1>o, <2>1, <1>k, <1>b, <1>g, <1>s, <1>y DEF LocksStay, IInv, LockInv
<1>5. NamesStay(t)
  BY <1>n DEF NamesStay
<1>6. ArraysStay(t)
  <2>1. live \ live' \subseteq {c \in {nb[t]} : pc[t] = "grow"}
    BY <1>k, <1>b, <1>g, <1>s, <1>y
  <2>2. (HasRoot => HasRoot') /\ Len(kids') >= Len(kids)
    BY <1>k, <1>b, <1>g, <1>s, <1>y DEF HasRoot
  <2>3. \A c \in live \ Owns(t) : keys'[c] = keys[c]
    BY <1>k, <1>b, <1>g, <1>s, <1>y, <1>o
  <2>4. QED
    BY <2>1, <2>2, <2>3 DEF ArraysStay
<1>7. Keeps(t)
  BY <1>1, <1>4, <1>5, <1>6 DEF Keeps
<1>8. RootStep(t)
  BY <1>b, <1>g, <1>y DEF RootStep, HoldsRoot, AtRoot, Alone, IInv, RootInv
<1>9. QED
  BY <1>2, <1>3, <1>7, <1>8

LEMMA SplitStep ==
    ASSUME IInv, NEW t \in Thread, Split(t)
    PROVE  TypeOK' /\ ThreadOK(t)' /\ Keeps(t) /\ RootStep(t)
<1> USE NameAssumption, BoundAssumption DEF NameAssumption, BoundAssumption, Release, GoTo, Link,
   Shifted
<1>k. /\ key(t) \in Key
      /\ child[t] \in live /\ child[t] \in live \cup {Root} /\ child[t] # Root /\ Root \in live \cup {Root}
      /\ child[t] \in Bin /\ child[t] \in Named
      /\ nb[t] \in live /\ nb[t] \in live \cup {Root} /\ nb[t] # Root /\ nb[t] \in Bin
      /\ nb[t] # child[t]
      /\ HasRoot /\ slot[t] \in 1 .. Len(kids) /\ Len(kids) = Len(rkeys) + 1
      /\ Len(keys[child[t]]) = ChildMax
  BY Knows DEF Split
<1>m. LET l == <<child[t], nb[t], Root>> IN
          l \in Seq(live \cup {Root}) /\ l # <<>> /\ ToSet(l) = {child[t], nb[t], Root} /\ IsInjective(l)
  BY <1>k, ThreeLocks
<1>h. /\ Halves(t)[1] \in Seq(Key) /\ Halves(t)[2] \in Seq(Key) /\ Last(Halves(t)[1]) \in Key
  BY <1>k, HalvesAre
<1>i. /\ kids \in Seq(live) /\ slot[t] + 1 \in 1 .. Len(kids) + 1
      /\ InsertAt(kids, slot[t] + 1, nb[t]) \in Seq(live)
      /\ Len(InsertAt(kids, slot[t] + 1, nb[t])) = Len(kids) + 1
      /\ InsertAt(rkeys, slot[t], Last(Halves(t)[1])) \in Seq(Key)
      /\ Len(InsertAt(rkeys, slot[t], Last(Halves(t)[1]))) = Len(rkeys) + 1
  <2>1. kids \in Seq(live) /\ rkeys \in Seq(Key) /\ Len(kids) \in Nat
    BY DEF IInv, TypeOK
  <2>2. slot[t] + 1 \in 1 .. Len(kids) + 1 /\ slot[t] \in 1 .. Len(rkeys) + 1
    BY <1>k, <2>1
  <2>3. QED
    <3>1. nb[t] \in live
      BY <1>k
    <3>2. /\ InsertAt(kids, slot[t] + 1, nb[t]) \in Seq(live)
          /\ Len(InsertAt(kids, slot[t] + 1, nb[t])) = Len(kids) + 1
      BY <2>1, <2>2, <3>1, InsertAtIs
    <3>3. Last(Halves(t)[1]) \in Key
      BY <1>h
    <3>4. QED
      BY <2>1, <2>2, <3>2, <3>3, InsertAtIs
<1>y. /\ live \subseteq Bin
      /\ keys \in [Bin -> Seq(Key)]
      /\ next \in [Bin -> live \cup {NoBin}]
      /\ tail \in live \cup {NoBin}
      /\ rkeys \in Seq(Key)
      /\ kids \in Seq(live) /\ Len(kids) = (IF HasRoot THEN Len(rkeys) + 1 ELSE 0)
      /\ ver \in [Bin \cup {Root} -> Nat]
      /\ pc \in [Thread -> Labels]
      /\ child \in [Thread -> Bin \cup {NoBin}]
      /\ nb \in [Thread -> Bin \cup {NoBin}]
      /\ slot \in [Thread -> Nat]
      /\ res \in [Thread -> {"none", "ok", "failed", "retry", "retrain"}]
      /\ unl \in [Thread -> Seq(live \cup {Root})]
      /\ moved \in [Thread -> BOOLEAN]
  BY DEF IInv, TypeOK
<1>z. ThreadOK(t) /\ child[t] \in Named
  BY DEF IInv, Named
<1>1. OthersStay(t)
  BY DEF Split, OthersStay, IInv, TypeOK
<1>2. TypeOK'
  <2>1. keys' \in [Bin -> Seq(Key)]
    BY <1>k, <1>m, <1>h, <1>i, <1>y DEF Split
  <2>2. next' \in [Bin -> live' \cup {NoBin}]
    BY <1>k, <1>m, <1>h, <1>i, <1>y DEF Split
  <2>3. tail' \in live' \cup {NoBin}
    BY <1>k, <1>m, <1>h, <1>i, <1>y DEF Split
  <2>4. rkeys' \in Seq(Key)
    BY <1>k, <1>m, <1>h, <1>i, <1>y DEF Split
  <2>5. kids' \in Seq(live') /\ Len(kids') = (IF HasRoot' THEN Len(rkeys') + 1 ELSE 0)
    BY <1>k, <1>m, <1>h, <1>i, <1>y DEF Split, HasRoot
  <2>6. ver' \in [Bin \cup {Root} -> Nat]
    BY <1>y, BumpIs DEF Split
  <2>7. pc' \in [Thread -> Labels]
    BY <1>y DEF Split, Labels
  <2>8. res' \in [Thread -> {"none", "ok", "failed", "retry", "retrain"}]
    BY <1>k, <1>m, <1>h, <1>i, <1>y DEF Split
  <2>9. unl' \in [Thread -> Seq(live' \cup {Root})]
    BY <1>k, <1>m, <1>h, <1>i, <1>y DEF Split
  <2>10. moved' \in [Thread -> BOOLEAN]
    BY <1>k, <1>m, <1>h, <1>i, <1>y DEF Split
  <2>11. QED
    BY ZenonT(60), <2>1, <2>2, <2>3, <2>4, <2>5, <2>6, <2>7, <2>8, <2>9, <2>10 DEF Split, IInv, TypeOK
<1>3. ThreadOK(t)'
  BY <1>k, <1>m, <1>h, <1>i, <1>y, <1>z DEF Split, ThreadOK, IsInjective, AtChild, AtRoot, AtTwo,
     Alone, HasRoot, key
<1>o. Owns(t) = {child[t], nb[t]}
  BY <1>k, <1>m, <1>h, <1>i, <1>y DEF Split, Owns, Changes
<1>4. LocksStay(t)
  <2>1. Owns(t)' = {child[t], nb[t]}
    BY <1>k, <1>m, <1>h, <1>i, <1>y DEF Split, Owns, Changes
  <2>2. QED
    BY <1>o, <2>1, <1>k, <1>m, <1>h, <1>i, <1>y DEF Split, LocksStay, IInv, LockInv
<1>5. NamesStay(t)
  <2> DEFINE Known == Named \cup Owns(t) \cup (Bin \ live) \cup {NoBin}
  <2>1. head' \in Known /\ tail' \in Known /\ \A b \in Bin : next'[b] \in Known
    BY <1>k, <1>m, <1>h, <1>i, <1>y, <1>o, Links DEF Split
  <2>2. \A i \in DOMAIN kids' : kids'[i] \in Known
    <3>1. nb[t] \in Known /\ nb[t] \in live /\ \A i \in 1 .. Len(kids) : kids[i] \in Known
      BY <1>k, <1>o, KidsAre
    <3> HIDE DEF Known
    <3>2. \A i \in 1 .. Len(kids) + 1 : InsertAt(kids, slot[t] + 1, nb[t])[i] \in Known
      BY <1>i, <3>1, InsertAtIn
    <3>3. DOMAIN kids' = 1 .. Len(kids) + 1
      BY <1>i DEF Split
    <3>4. QED
      BY <3>2, <3>3 DEF Split
  <2>3. child'[t] \in Known /\ pc'[t] # "wprev"
    BY <1>k, <1>m, <1>h, <1>i, <1>y, <1>z DEF Split
  <2>4. QED
    BY <1>1, <2>1, <2>2, <2>3, NamesFrom DEF NamesStay
<1>6. ArraysStay(t)
  <2>1. live \ live' \subseteq {b \in {nb[t]} : pc[t] = "grow"}
    BY <1>k, <1>m, <1>h, <1>i, <1>y DEF Split
  <2>2. (HasRoot => HasRoot') /\ Len(kids') >= Len(kids)
    BY <1>k, <1>m, <1>h, <1>i, <1>y DEF Split, HasRoot
  <2>3. \A b \in live \ Owns(t) : keys'[b] = keys[b]
    BY <1>k, <1>m, <1>h, <1>i, <1>y, <1>o DEF Split
  <2>4. QED
    BY <2>1, <2>2, <2>3 DEF ArraysStay
<1>7. Keeps(t)
  BY <1>1, <1>4, <1>5, <1>6 DEF Keeps
<1>8. RootStep(t)
  BY <1>k, <1>m, <1>h, <1>i, <1>y DEF Split, RootStep, HoldsRoot, Alone, AtRoot, HasRoot, IInv,
     RootInv
<1>9. QED
  BY <1>2, <1>3, <1>7, <1>8

LEMMA NewHeadStep ==
    ASSUME IInv, NEW t \in Thread, NewHead(t)
    PROVE  TypeOK' /\ ThreadOK(t)' /\ Keeps(t) /\ RootStep(t)
<1> USE NameAssumption, BoundAssumption DEF NameAssumption, BoundAssumption, GoTo, root, history
<1>k. /\ key(t) \in Key
  BY Knows DEF NewHead
<1>y. /\ live \subseteq Bin
      /\ locked \subseteq live \cup {Root}
      /\ next \in [Bin -> live \cup {NoBin}]
      /\ head \in live \cup {NoBin}
      /\ tail \in live \cup {NoBin}
      /\ kids \in Seq(live) /\ Len(kids) = (IF HasRoot THEN Len(rkeys) + 1 ELSE 0)
      /\ pc \in [Thread -> Labels]
      /\ child \in [Thread -> Bin \cup {NoBin}]
      /\ unl \in [Thread -> Seq(live \cup {Root})]
  BY DEF IInv, TypeOK
<1>z. ThreadOK(t) /\ child[t] \in Named
  BY DEF IInv, Named
<1>1. OthersStay(t)
  BY DEF NewHead, OthersStay, IInv, TypeOK
<1>2. TypeOK'
  <2>1. live' \subseteq Bin
    BY <1>k, <1>y DEF NewHead
  <2>2. locked' \subseteq live' \cup {Root}
    BY <1>k, <1>y DEF NewHead
  <2>3. next' \in [Bin -> live' \cup {NoBin}]
    BY <1>k, <1>y DEF NewHead
  <2>4. head' \in live' \cup {NoBin}
    BY <1>k, <1>y DEF NewHead
  <2>5. tail' \in live' \cup {NoBin}
    BY <1>k, <1>y DEF NewHead
  <2>6. kids' \in Seq(live') /\ Len(kids') = (IF HasRoot' THEN Len(rkeys') + 1 ELSE 0)
    BY <1>k, <1>y DEF NewHead, HasRoot
  <2>7. pc' \in [Thread -> Labels]
    BY ZenonT(60), <1>y DEF NewHead, Labels
  <2>8. child' \in [Thread -> Bin \cup {NoBin}]
    BY <1>k, <1>y DEF NewHead
  <2>9. unl' \in [Thread -> Seq(live' \cup {Root})]
    BY <1>k, <1>y DEF NewHead
  <2>10. QED
    BY <2>1, <2>2, <2>3, <2>4, <2>5, <2>6, <2>7, <2>8, <2>9 DEF NewHead, IInv, TypeOK
<1>3. ThreadOK(t)'
  <2>1. pc'[t] # "idle" => key(t)' \in Key
    BY <1>k, <1>y, <1>z DEF NewHead, key, ThreadOK
  <2>2. /\ child'[t] \in live' \cup {NoBin} /\ (pc'[t] \in AtChild => child'[t] \in live')
       /\ (pc'[t] \in AtTwo => nb'[t] \in live')
       /\ (pc'[t] \in {"borrow", "split", "grow", "raise", "halve"} => child'[t] # nb'[t])
    BY <1>k, <1>y, <1>z DEF NewHead, AtChild, AtRoot, AtTwo, Alone, ThreadOK
  <2>3. /\ (pc'[t] \in {"rver", "rslot", "wroot", "halve"} => HasRoot')
       /\ (pc'[t] \in AtRoot \cup {"rcheck", "rchild"} => slot'[t] \in 1 .. Len(kids'))
    BY <1>k, <1>y, <1>z DEF NewHead, AtRoot, HasRoot, ThreadOK
  <2>4. pc'[t] \in {"ssplit", "split", "grow", "raise", "halve"} => Len(keys'[child'[t]]) = ChildMax
    BY <1>k, <1>y, <1>z DEF NewHead, ThreadOK
  <2>5. IsInjective(unl'[t]) /\ (pc'[t] = "unlock" <=> unl'[t] # <<>>)
    BY <1>k, <1>y, <1>z DEF NewHead, IsInjective, ThreadOK
  <2>6. pc'[t] \in {"grow", "raise"} => nb'[t] \notin Named'
    BY <1>k, <1>y, <1>z DEF NewHead, ThreadOK
  <2>7. QED
    BY <2>1, <2>2, <2>3, <2>4, <2>5, <2>6 DEF ThreadOK
<1>o. Owns(t) = {}
  BY <1>k, <1>y DEF NewHead, Owns, Changes
<1>4. LocksStay(t)
  <2>1. Owns(t)' = {}
    BY <1>k, <1>y DEF NewHead, Owns, Changes
  <2>2. QED
    BY <1>o, <2>1, <1>k, <1>y DEF NewHead, LocksStay, IInv, LockInv
<1>5. NamesStay(t)
  <2> DEFINE Known == Named \cup Owns(t) \cup (Bin \ live) \cup {NoBin}
  <2>1. head' \in Known /\ tail' \in Known /\ \A b \in Bin : next'[b] \in Known
    BY <1>k, <1>y, <1>o, Links DEF NewHead
  <2>2. \A i \in DOMAIN kids' : kids'[i] \in Known
    BY <1>k, <1>y, <1>o DEF NewHead, Named
  <2>3. child'[t] \in Known /\ pc'[t] # "wprev"
    BY <1>k, <1>y, <1>z DEF NewHead
  <2>4. QED
    BY <1>1, <2>1, <2>2, <2>3, NamesFrom DEF NamesStay
<1>6. ArraysStay(t)
  <2>1. live \ live' \subseteq {b \in {nb[t]} : pc[t] = "grow"}
    BY <1>k, <1>y DEF NewHead
  <2>2. (HasRoot => HasRoot') /\ Len(kids') >= Len(kids)
    BY <1>k, <1>y DEF NewHead, HasRoot
  <2>3. \A b \in live \ Owns(t) : keys'[b] = keys[b]
    BY <1>k, <1>y, <1>o DEF NewHead
  <2>4. QED
    BY <2>1, <2>2, <2>3 DEF ArraysStay
<1>7. Keeps(t)
  BY <1>1, <1>4, <1>5, <1>6 DEF Keeps
<1>8. RootStep(t)
  BY <1>k, <1>y DEF NewHead, RootStep, HoldsRoot, Alone, AtRoot, HasRoot, IInv, RootInv
<1>9. QED
  BY <1>2, <1>3, <1>7, <1>8

LEMMA PublishHeadStep ==
    ASSUME IInv, NEW t \in Thread, PublishHead(t)
    PROVE  TypeOK' /\ ThreadOK(t)' /\ Keeps(t) /\ RootStep(t)
<1> USE NameAssumption, BoundAssumption DEF NameAssumption, BoundAssumption, GoTo, root, local
<1>k. /\ key(t) \in Key
      /\ child[t] \in live /\ child[t] \in live \cup {Root} /\ child[t] # Root /\ Root \in live \cup {Root}
      /\ child[t] \in Bin /\ child[t] \in Named
  BY Knows DEF PublishHead
<1>y. /\ live \subseteq Bin
      /\ head \in live \cup {NoBin}
      /\ tail \in live \cup {NoBin}
      /\ lost \in BOOLEAN
      /\ pc \in [Thread -> Labels]
      /\ child \in [Thread -> Bin \cup {NoBin}]
  BY DEF IInv, TypeOK
<1>z. ThreadOK(t) /\ child[t] \in Named
  BY DEF IInv, Named
<1>1. OthersStay(t)
  BY DEF PublishHead, OthersStay, IInv, TypeOK
<1>2. TypeOK'
  <2>1. head' \in live' \cup {NoBin}
    BY <1>k, <1>y DEF PublishHead
  <2>2. tail' \in live' \cup {NoBin}
    BY <1>k, <1>y DEF PublishHead
  <2>3. lost' \in BOOLEAN
    BY <1>k, <1>y DEF PublishHead
  <2>4. pc' \in [Thread -> Labels]
    BY <1>y DEF PublishHead, Labels
  <2>5. QED
    BY <2>1, <2>2, <2>3, <2>4 DEF PublishHead, IInv, TypeOK, HasRoot
<1>3. ThreadOK(t)'
  BY <1>k, <1>y, <1>z DEF PublishHead, ThreadOK, IsInjective, AtChild, AtRoot, AtTwo, Alone,
     HasRoot, key
<1>o. Owns(t) = {}
  BY <1>k, <1>y DEF PublishHead, Owns, Changes
<1>4. LocksStay(t)
  <2>1. Owns(t)' = {}
    BY <1>k, <1>y DEF PublishHead, Owns, Changes
  <2>2. QED
    BY <1>o, <2>1, <1>k, <1>y DEF PublishHead, LocksStay, IInv, LockInv
<1>5. NamesStay(t)
  <2> DEFINE Known == Named \cup Owns(t) \cup (Bin \ live) \cup {NoBin}
  <2>1. head' \in Known /\ tail' \in Known /\ \A b \in Bin : next'[b] \in Known
    BY <1>k, <1>y, <1>o, Links DEF PublishHead
  <2>2. \A i \in DOMAIN kids' : kids'[i] \in Known
    BY <1>k, <1>y, <1>o DEF PublishHead, Named
  <2>3. child'[t] \in Known /\ pc'[t] # "wprev"
    BY <1>k, <1>y, <1>z DEF PublishHead
  <2>4. QED
    BY <1>1, <2>1, <2>2, <2>3, NamesFrom DEF NamesStay
<1>6. ArraysStay(t)
  <2>1. live \ live' \subseteq {b \in {nb[t]} : pc[t] = "grow"}
    BY <1>k, <1>y DEF PublishHead
  <2>2. (HasRoot => HasRoot') /\ Len(kids') >= Len(kids)
    BY <1>k, <1>y DEF PublishHead, HasRoot
  <2>3. \A b \in live \ Owns(t) : keys'[b] = keys[b]
    BY <1>k, <1>y, <1>o DEF PublishHead
  <2>4. QED
    BY <2>1, <2>2, <2>3 DEF ArraysStay
<1>7. Keeps(t)
  BY <1>1, <1>4, <1>5, <1>6 DEF Keeps
<1>8. RootStep(t)
  BY <1>k, <1>y DEF PublishHead, RootStep, HoldsRoot, Alone, AtRoot, HasRoot, IInv, RootInv
<1>9. QED
  BY <1>2, <1>3, <1>7, <1>8

LEMMA ReadVersionStep ==
    ASSUME IInv, NEW t \in Thread, ReadVersion(t)
    PROVE  TypeOK' /\ ThreadOK(t)' /\ Keeps(t) /\ RootStep(t)
<1> USE NameAssumption, BoundAssumption DEF NameAssumption, BoundAssumption, GoTo, shared, bins,
   root, history
<1>k. /\ key(t) \in Key
      /\ child[t] \in live /\ child[t] \in live \cup {Root} /\ child[t] # Root /\ Root \in live \cup {Root}
      /\ child[t] \in Bin /\ child[t] \in Named
  BY Knows DEF ReadVersion
<1>y. /\ live \subseteq Bin
      /\ ver \in [Bin \cup {Root} -> Nat]
      /\ pc \in [Thread -> Labels]
      /\ child \in [Thread -> Bin \cup {NoBin}]
      /\ known \in [Thread -> Nat]
  BY DEF IInv, TypeOK
<1>z. ThreadOK(t) /\ child[t] \in Named
  BY DEF IInv, Named
<1>1. OthersStay(t)
  BY DEF ReadVersion, OthersStay, IInv, TypeOK
<1>2. TypeOK'
  <2>1. pc' \in [Thread -> Labels]
    BY <1>y DEF ReadVersion, Labels
  <2>2. known' \in [Thread -> Nat]
    BY <1>k, <1>y DEF ReadVersion
  <2>3. QED
    BY <2>1, <2>2 DEF ReadVersion, IInv, TypeOK, HasRoot
<1>3. ThreadOK(t)'
  BY <1>k, <1>y, <1>z DEF ReadVersion, ThreadOK, IsInjective, AtChild, AtRoot, AtTwo, Alone,
     HasRoot, key
<1>o. Owns(t) = {}
  BY <1>k, <1>y DEF ReadVersion, Owns, Changes
<1>4. LocksStay(t)
  <2>1. Owns(t)' = {}
    BY <1>k, <1>y DEF ReadVersion, Owns, Changes
  <2>2. QED
    BY <1>o, <2>1, <1>k, <1>y DEF ReadVersion, LocksStay, IInv, LockInv
<1>5. Keeps(t)
  <2>1. child'[t] \in Named \cup {NoBin} /\ (pc'[t] = "wprev" => nb'[t] \in Named)
    BY <1>k, <1>y, <1>z DEF ReadVersion
  <2>2. QED
    BY <1>1, <1>4, <2>1, NoArrayChanges DEF ReadVersion
<1>8. RootStep(t)
  BY <1>k, <1>y DEF ReadVersion, RootStep, HoldsRoot, Alone, AtRoot, HasRoot, IInv, RootInv
<1>9. QED
  BY <1>2, <1>3, <1>5, <1>8

LEMMA CheckVersionStep ==
    ASSUME IInv, NEW t \in Thread, CheckVersion(t)
    PROVE  TypeOK' /\ ThreadOK(t)' /\ Keeps(t) /\ RootStep(t)
<1> USE NameAssumption, BoundAssumption DEF NameAssumption, BoundAssumption, GoTo, bins, root,
   history
<1>k. /\ key(t) \in Key
      /\ child[t] \in live /\ child[t] \in live \cup {Root} /\ child[t] # Root /\ Root \in live \cup {Root}
      /\ child[t] \in Bin /\ child[t] \in Named
  BY Knows DEF CheckVersion
<1>y. /\ live \subseteq Bin
      /\ locked \subseteq live \cup {Root}
      /\ ver \in [Bin \cup {Root} -> Nat]
      /\ pc \in [Thread -> Labels]
      /\ child \in [Thread -> Bin \cup {NoBin}]
      /\ known \in [Thread -> Nat]
  BY DEF IInv, TypeOK
<1>z. ThreadOK(t) /\ child[t] \in Named
  BY DEF IInv, Named
<1>1. OthersStay(t)
  BY DEF CheckVersion, OthersStay, IInv, TypeOK
<1>2. TypeOK'
  <2>1. locked' \subseteq live' \cup {Root}
    BY <1>k, <1>y DEF CheckVersion
  <2>2. pc' \in [Thread -> Labels]
    BY <1>y DEF CheckVersion, Labels
  <2>3. known' \in [Thread -> Nat]
    BY <1>k, <1>y DEF CheckVersion
  <2>4. QED
    BY <2>1, <2>2, <2>3 DEF CheckVersion, IInv, TypeOK, HasRoot
<1>3. ThreadOK(t)'
  BY <1>k, <1>y, <1>z DEF CheckVersion, ThreadOK, IsInjective, AtChild, AtRoot, AtTwo, Alone,
     HasRoot, key
<1>o. Owns(t) = {child[t]}
  BY <1>k, <1>y DEF CheckVersion, Owns, Changes
<1>4. LocksStay(t)
  <2>1. Owns(t)' = IF pc'[t] = "sput" THEN {child[t]} ELSE {}
    BY <1>k, <1>y DEF CheckVersion, Owns, Changes
  <2>2. QED
    BY SMTT(60), <1>o, <2>1, <1>k, <1>y DEF CheckVersion, LocksStay, IInv, LockInv, TypeOK, Labels
<1>5. Keeps(t)
  <2>1. child'[t] \in Named \cup {NoBin} /\ (pc'[t] = "wprev" => nb'[t] \in Named)
    BY <1>k, <1>y, <1>z DEF CheckVersion
  <2>2. QED
    BY <1>1, <1>4, <2>1, NoArrayChanges DEF CheckVersion
<1>8. RootStep(t)
  BY <1>k, <1>y DEF CheckVersion, RootStep, HoldsRoot, Alone, AtRoot, HasRoot, IInv, RootInv
<1>9. QED
  BY <1>2, <1>3, <1>5, <1>8

LEMMA PutAloneStep ==
    ASSUME IInv, NEW t \in Thread, PutAlone(t)
    PROVE  TypeOK' /\ ThreadOK(t)' /\ Keeps(t) /\ RootStep(t)
<1> USE NameAssumption, BoundAssumption DEF NameAssumption, BoundAssumption, GoTo, IsFull, root,
   local, history
<1>k. /\ key(t) \in Key
      /\ child[t] \in live /\ child[t] \in live \cup {Root} /\ child[t] # Root /\ Root \in live \cup {Root}
      /\ child[t] \in Bin /\ child[t] \in Named
  BY Knows DEF PutAlone
<1>s. /\ Inserted(t) \in Seq(Key) /\ Len(Inserted(t)) = Len(keys[child[t]]) + 1
      /\ Inserted(t)[1] \in Key /\ Tail(Inserted(t)) \in Seq(Key)
  BY <1>k, InsertedIs
<1>y. /\ live \subseteq Bin
      /\ keys \in [Bin -> Seq(Key)]
      /\ pc \in [Thread -> Labels]
      /\ child \in [Thread -> Bin \cup {NoBin}]
  BY DEF IInv, TypeOK
<1>z. ThreadOK(t) /\ child[t] \in Named
  BY DEF IInv, Named
<1>1. OthersStay(t)
  BY DEF PutAlone, OthersStay, IInv, TypeOK
<1>2. TypeOK'
  <2>1. keys' \in [Bin -> Seq(Key)]
    BY <1>k, <1>s, <1>y DEF PutAlone
  <2>2. pc' \in [Thread -> Labels]
    BY <1>y DEF PutAlone, Labels
  <2>3. QED
    BY <2>1, <2>2 DEF PutAlone, IInv, TypeOK, HasRoot
<1>3. ThreadOK(t)'
  BY <1>k, <1>s, <1>y, <1>z DEF PutAlone, ThreadOK, IsInjective, AtChild, AtRoot, AtTwo, Alone,
     HasRoot, key
<1>o. Owns(t) = {child[t]}
  BY <1>k, <1>s, <1>y DEF PutAlone, Owns, Changes
<1>4. LocksStay(t)
  <2>1. Owns(t)' = {child[t]}
    BY <1>k, <1>s, <1>y DEF PutAlone, Owns, Changes
  <2>2. QED
    BY <1>o, <2>1, <1>k, <1>s, <1>y DEF PutAlone, LocksStay, IInv, LockInv
<1>5. NamesStay(t)
  <2> DEFINE Known == Named \cup Owns(t) \cup (Bin \ live) \cup {NoBin}
  <2>1. head' \in Known /\ tail' \in Known /\ \A b \in Bin : next'[b] \in Known
    BY <1>k, <1>s, <1>y, <1>o, Links DEF PutAlone
  <2>2. \A i \in DOMAIN kids' : kids'[i] \in Known
    BY <1>k, <1>s, <1>y, <1>o DEF PutAlone, Named
  <2>3. child'[t] \in Known /\ pc'[t] # "wprev"
    BY <1>k, <1>s, <1>y, <1>z DEF PutAlone
  <2>4. QED
    BY <1>1, <2>1, <2>2, <2>3, NamesFrom DEF NamesStay
<1>6. ArraysStay(t)
  <2>1. live \ live' \subseteq {b \in {nb[t]} : pc[t] = "grow"}
    BY <1>k, <1>s, <1>y DEF PutAlone
  <2>2. (HasRoot => HasRoot') /\ Len(kids') >= Len(kids)
    BY <1>k, <1>s, <1>y DEF PutAlone, HasRoot
  <2>3. \A b \in live \ Owns(t) : keys'[b] = keys[b]
    BY <1>k, <1>s, <1>y, <1>o DEF PutAlone
  <2>4. QED
    BY <2>1, <2>2, <2>3 DEF ArraysStay
<1>7. Keeps(t)
  BY <1>1, <1>4, <1>5, <1>6 DEF Keeps
<1>8. RootStep(t)
  BY <1>k, <1>s, <1>y DEF PutAlone, RootStep, HoldsRoot, Alone, AtRoot, HasRoot, IInv, RootInv
<1>9. QED
  BY <1>2, <1>3, <1>7, <1>8

LEMMA SkipSeparatorStep ==
    ASSUME IInv, NEW t \in Thread, SkipSeparator(t)
    PROVE  TypeOK' /\ ThreadOK(t)' /\ Keeps(t) /\ RootStep(t)
<1> USE NameAssumption, BoundAssumption DEF NameAssumption, BoundAssumption, Release, GoTo,
   NewLast, bins, root, history
<1>k. /\ key(t) \in Key
      /\ child[t] \in live /\ child[t] \in live \cup {Root} /\ child[t] # Root /\ Root \in live \cup {Root}
      /\ child[t] \in Bin /\ child[t] \in Named
  BY Knows DEF SkipSeparator
<1>m. LET l == <<child[t], Root>> IN
          l \in Seq(live \cup {Root}) /\ l # <<>> /\ ToSet(l) = {child[t], Root} /\ IsInjective(l)
  BY <1>k, TwoLocks
<1>n. LET l == <<child[t]>> IN
          l \in Seq(live \cup {Root}) /\ l # <<>> /\ ToSet(l) = {child[t]} /\ IsInjective(l)
  BY <1>k, OneLock
<1>y. /\ live \subseteq Bin
      /\ ver \in [Bin \cup {Root} -> Nat]
      /\ pc \in [Thread -> Labels]
      /\ child \in [Thread -> Bin \cup {NoBin}]
      /\ res \in [Thread -> {"none", "ok", "failed", "retry", "retrain"}]
      /\ unl \in [Thread -> Seq(live \cup {Root})]
  BY DEF IInv, TypeOK
<1>z. ThreadOK(t) /\ child[t] \in Named
  BY DEF IInv, Named
<1>1. OthersStay(t)
  BY DEF SkipSeparator, OthersStay, IInv, TypeOK
<1>2. TypeOK'
  <2>1. ver' \in [Bin \cup {Root} -> Nat]
    BY <1>y, BumpIs DEF SkipSeparator
  <2>2. pc' \in [Thread -> Labels]
    BY <1>y DEF SkipSeparator, Labels
  <2>3. res' \in [Thread -> {"none", "ok", "failed", "retry", "retrain"}]
    BY <1>k, <1>m, <1>n, <1>y DEF SkipSeparator
  <2>4. unl' \in [Thread -> Seq(live' \cup {Root})]
    BY <1>k, <1>m, <1>n, <1>y DEF SkipSeparator
  <2>5. QED
    BY <2>1, <2>2, <2>3, <2>4 DEF SkipSeparator, IInv, TypeOK, HasRoot
<1>3. ThreadOK(t)'
  BY <1>k, <1>m, <1>n, <1>y, <1>z DEF SkipSeparator, ThreadOK, IsInjective, AtChild, AtRoot,
     AtTwo, Alone, HasRoot, key
<1>o. Owns(t) = {child[t]}
  BY <1>k, <1>m, <1>n, <1>y DEF SkipSeparator, Owns, Changes
<1>4. LocksStay(t)
  <2>1. Owns(t)' = {child[t]}
    BY <1>k, <1>m, <1>n, <1>y DEF SkipSeparator, Owns, Changes
  <2>2. QED
    BY <1>o, <2>1, <1>k, <1>m, <1>n, <1>y DEF SkipSeparator, LocksStay, IInv, LockInv
<1>5. Keeps(t)
  <2>1. child'[t] \in Named \cup {NoBin} /\ (pc'[t] = "wprev" => nb'[t] \in Named)
    BY <1>k, <1>m, <1>n, <1>y, <1>z DEF SkipSeparator
  <2>2. QED
    BY <1>1, <1>4, <2>1, NoArrayChanges DEF SkipSeparator
<1>8. RootStep(t)
  BY <1>k, <1>m, <1>n, <1>y DEF SkipSeparator, RootStep, HoldsRoot, Alone, AtRoot, HasRoot, IInv,
     RootInv
<1>9. QED
  BY <1>2, <1>3, <1>5, <1>8

LEMMA WantSeparatorStep ==
    ASSUME IInv, NEW t \in Thread, WantSeparator(t)
    PROVE  TypeOK' /\ ThreadOK(t)' /\ Keeps(t) /\ RootStep(t)
<1> USE NameAssumption, BoundAssumption DEF NameAssumption, BoundAssumption, GoTo, NewLast,
   shared, bins, root, local, history
<1>k. /\ key(t) \in Key
      /\ child[t] \in live /\ child[t] \in live \cup {Root} /\ child[t] # Root /\ Root \in live \cup {Root}
      /\ child[t] \in Bin /\ child[t] \in Named
  BY Knows DEF WantSeparator
<1>y. /\ live \subseteq Bin
      /\ pc \in [Thread -> Labels]
  BY DEF IInv, TypeOK
<1>z. ThreadOK(t) /\ child[t] \in Named
  BY DEF IInv, Named
<1>1. OthersStay(t)
  BY DEF WantSeparator, OthersStay, IInv, TypeOK
<1>2. TypeOK'
  <2>1. pc' \in [Thread -> Labels]
    BY <1>y DEF WantSeparator, Labels
  <2>2. QED
    BY <2>1 DEF WantSeparator, IInv, TypeOK, HasRoot
<1>3. ThreadOK(t)'
  BY <1>k, <1>y, <1>z DEF WantSeparator, ThreadOK, IsInjective, AtChild, AtRoot, AtTwo, Alone,
     HasRoot, key
<1>o. Owns(t) = {child[t]}
  BY <1>k, <1>y DEF WantSeparator, Owns, Changes
<1>4. LocksStay(t)
  <2>1. Owns(t)' = {child[t]}
    BY <1>k, <1>y DEF WantSeparator, Owns, Changes
  <2>2. QED
    BY <1>o, <2>1, <1>k, <1>y DEF WantSeparator, LocksStay, IInv, LockInv
<1>5. Keeps(t)
  <2>1. child'[t] \in Named \cup {NoBin} /\ (pc'[t] = "wprev" => nb'[t] \in Named)
    BY <1>k, <1>y, <1>z DEF WantSeparator
  <2>2. QED
    BY <1>1, <1>4, <2>1, NoArrayChanges DEF WantSeparator
<1>8. RootStep(t)
  BY <1>k, <1>y DEF WantSeparator, RootStep, HoldsRoot, Alone, AtRoot, HasRoot, IInv, RootInv
<1>9. QED
  BY <1>2, <1>3, <1>5, <1>8

LEMMA SetSeparatorStep ==
    ASSUME IInv, NEW t \in Thread, SetSeparator(t)
    PROVE  TypeOK' /\ ThreadOK(t)' /\ Keeps(t) /\ RootStep(t)
<1> USE NameAssumption, BoundAssumption DEF NameAssumption, BoundAssumption, Release, GoTo, bins,
   history
<1>k. /\ key(t) \in Key
      /\ child[t] \in live /\ child[t] \in live \cup {Root} /\ child[t] # Root /\ Root \in live \cup {Root}
      /\ child[t] \in Bin /\ child[t] \in Named
  BY Knows DEF SetSeparator
<1>m. LET l == <<child[t], Root>> IN
          l \in Seq(live \cup {Root}) /\ l # <<>> /\ ToSet(l) = {child[t], Root} /\ IsInjective(l)
  BY <1>k, TwoLocks
<1>y. /\ live \subseteq Bin
      /\ locked \subseteq live \cup {Root}
      /\ rkeys \in Seq(Key)
      /\ kids \in Seq(live) /\ Len(kids) = (IF HasRoot THEN Len(rkeys) + 1 ELSE 0)
      /\ ver \in [Bin \cup {Root} -> Nat]
      /\ pc \in [Thread -> Labels]
      /\ child \in [Thread -> Bin \cup {NoBin}]
      /\ slot \in [Thread -> Nat]
      /\ res \in [Thread -> {"none", "ok", "failed", "retry", "retrain"}]
      /\ unl \in [Thread -> Seq(live \cup {Root})]
  BY DEF IInv, TypeOK
<1>z. ThreadOK(t) /\ child[t] \in Named
  BY DEF IInv, Named
<1>1. OthersStay(t)
  BY DEF SetSeparator, OthersStay, IInv, TypeOK
<1>2. TypeOK'
  <2>1. locked' \subseteq live' \cup {Root}
    BY <1>k, <1>m, <1>y DEF SetSeparator
  <2>2. rkeys' \in Seq(Key)
    BY <1>k, <1>y, SetAt DEF SetSeparator
  <2>3. kids' \in Seq(live') /\ Len(kids') = (IF HasRoot' THEN Len(rkeys') + 1 ELSE 0)
    BY <1>k, <1>m, <1>y DEF SetSeparator, HasRoot
  <2>4. ver' \in [Bin \cup {Root} -> Nat]
    BY <1>y, BumpIs DEF SetSeparator
  <2>5. pc' \in [Thread -> Labels]
    BY <1>y DEF SetSeparator, Labels
  <2>6. res' \in [Thread -> {"none", "ok", "failed", "retry", "retrain"}]
    BY <1>k, <1>m, <1>y DEF SetSeparator
  <2>7. unl' \in [Thread -> Seq(live' \cup {Root})]
    BY <1>k, <1>m, <1>y DEF SetSeparator
  <2>8. QED
    BY <2>1, <2>2, <2>3, <2>4, <2>5, <2>6, <2>7 DEF SetSeparator, IInv, TypeOK
<1>3. ThreadOK(t)'
  BY <1>k, <1>m, <1>y, <1>z DEF SetSeparator, ThreadOK, IsInjective, AtChild, AtRoot, AtTwo,
     Alone, HasRoot, key
<1>o. Owns(t) = {child[t]}
  BY <1>k, <1>m, <1>y DEF SetSeparator, Owns, Changes
<1>4. LocksStay(t)
  <2>1. Owns(t)' = {child[t]}
    BY <1>k, <1>m, <1>y DEF SetSeparator, Owns, Changes
  <2>2. QED
    BY <1>o, <2>1, <1>k, <1>m, <1>y DEF SetSeparator, LocksStay, IInv, LockInv
<1>5. NamesStay(t)
  <2> DEFINE Known == Named \cup Owns(t) \cup (Bin \ live) \cup {NoBin}
  <2>1. head' \in Known /\ tail' \in Known /\ \A b \in Bin : next'[b] \in Known
    BY <1>k, <1>m, <1>y, <1>o, Links DEF SetSeparator
  <2>2. \A i \in DOMAIN kids' : kids'[i] \in Known
    BY <1>k, <1>m, <1>y, <1>o DEF SetSeparator, Named
  <2>3. child'[t] \in Known /\ pc'[t] # "wprev"
    BY <1>k, <1>m, <1>y, <1>z DEF SetSeparator
  <2>4. QED
    BY <1>1, <2>1, <2>2, <2>3, NamesFrom DEF NamesStay
<1>6. ArraysStay(t)
  <2>1. live \ live' \subseteq {b \in {nb[t]} : pc[t] = "grow"}
    BY <1>k, <1>m, <1>y DEF SetSeparator
  <2>2. (HasRoot => HasRoot') /\ Len(kids') >= Len(kids)
    BY <1>k, <1>m, <1>y DEF SetSeparator, HasRoot
  <2>3. \A b \in live \ Owns(t) : keys'[b] = keys[b]
    BY <1>k, <1>m, <1>y, <1>o DEF SetSeparator
  <2>4. QED
    BY <2>1, <2>2, <2>3 DEF ArraysStay
<1>7. Keeps(t)
  BY <1>1, <1>4, <1>5, <1>6 DEF Keeps
<1>8. RootStep(t)
  BY <1>k, <1>m, <1>y DEF SetSeparator, RootStep, HoldsRoot, Alone, AtRoot, HasRoot, IInv, RootInv
<1>9. QED
  BY <1>2, <1>3, <1>7, <1>8

LEMMA GiveUpStep ==
    ASSUME IInv, NEW t \in Thread, GiveUp(t)
    PROVE  TypeOK' /\ ThreadOK(t)' /\ Keeps(t) /\ RootStep(t)
<1> USE NameAssumption, BoundAssumption DEF NameAssumption, BoundAssumption, Finish, GoTo, root,
   history
<1>k. /\ key(t) \in Key
      /\ child[t] \in live /\ child[t] \in live \cup {Root} /\ child[t] # Root /\ Root \in live \cup {Root}
      /\ child[t] \in Bin /\ child[t] \in Named
  BY Knows DEF GiveUp
<1>y. /\ live \subseteq Bin
      /\ locked \subseteq live \cup {Root}
      /\ next \in [Bin -> live \cup {NoBin}]
      /\ head \in live \cup {NoBin}
      /\ tail \in live \cup {NoBin}
      /\ kids \in Seq(live) /\ Len(kids) = (IF HasRoot THEN Len(rkeys) + 1 ELSE 0)
      /\ pc \in [Thread -> Labels]
      /\ res \in [Thread -> {"none", "ok", "failed", "retry", "retrain"}]
      /\ unl \in [Thread -> Seq(live \cup {Root})]
  BY DEF IInv, TypeOK
<1>z. ThreadOK(t) /\ child[t] \in Named
  BY DEF IInv, Named
<1>1. OthersStay(t)
  BY DEF GiveUp, OthersStay, IInv, TypeOK
<1>2. TypeOK'
  <2>1. live' \subseteq Bin
    BY <1>k, <1>y DEF GiveUp
  <2>2. locked' \subseteq live' \cup {Root}
    BY <1>k, <1>y DEF GiveUp
  <2>3. next' \in [Bin -> live' \cup {NoBin}]
    BY <1>k, <1>y DEF GiveUp
  <2>4. head' \in live' \cup {NoBin}
    BY <1>k, <1>y DEF GiveUp
  <2>5. tail' \in live' \cup {NoBin}
    BY <1>k, <1>y DEF GiveUp
  <2>6. kids' \in Seq(live') /\ Len(kids') = (IF HasRoot' THEN Len(rkeys') + 1 ELSE 0)
    BY <1>k, <1>y DEF GiveUp, HasRoot
  <2>7. pc' \in [Thread -> Labels]
    BY <1>y DEF GiveUp, Labels
  <2>8. res' \in [Thread -> {"none", "ok", "failed", "retry", "retrain"}]
    BY <1>k, <1>y DEF GiveUp
  <2>9. unl' \in [Thread -> Seq(live' \cup {Root})]
    BY <1>k, <1>y DEF GiveUp
  <2>10. QED
    BY <2>1, <2>2, <2>3, <2>4, <2>5, <2>6, <2>7, <2>8, <2>9 DEF GiveUp, IInv, TypeOK
<1>3. ThreadOK(t)'
  BY <1>k, <1>y, <1>z DEF GiveUp, ThreadOK, IsInjective, AtChild, AtRoot, AtTwo, Alone, HasRoot, key
<1>o. Owns(t) = {child[t]}
  BY <1>k, <1>y DEF GiveUp, Owns, Changes
<1>4. LocksStay(t)
  <2>1. Owns(t)' = {}
    BY <1>k, <1>y DEF GiveUp, Owns, Changes
  <2>2. QED
    BY <1>o, <2>1, <1>k, <1>y DEF GiveUp, LocksStay, IInv, LockInv
<1>5. NamesStay(t)
  <2> DEFINE Known == Named \cup Owns(t) \cup (Bin \ live) \cup {NoBin}
  <2>1. head' \in Known /\ tail' \in Known /\ \A b \in Bin : next'[b] \in Known
    BY <1>k, <1>y, <1>o, Links DEF GiveUp
  <2>2. \A i \in DOMAIN kids' : kids'[i] \in Known
    BY <1>k, <1>y, <1>o DEF GiveUp, Named
  <2>3. child'[t] \in Known /\ pc'[t] # "wprev"
    BY <1>k, <1>y, <1>z DEF GiveUp
  <2>4. QED
    BY <1>1, <2>1, <2>2, <2>3, NamesFrom DEF NamesStay
<1>6. ArraysStay(t)
  <2>1. live \ live' \subseteq {b \in {nb[t]} : pc[t] = "grow"}
    BY <1>k, <1>y DEF GiveUp
  <2>2. (HasRoot => HasRoot') /\ Len(kids') >= Len(kids)
    BY <1>k, <1>y DEF GiveUp, HasRoot
  <2>3. \A b \in live \ Owns(t) : keys'[b] = keys[b]
    BY <1>k, <1>y, <1>o DEF GiveUp
  <2>4. QED
    BY <2>1, <2>2, <2>3 DEF ArraysStay
<1>7. Keeps(t)
  BY <1>1, <1>4, <1>5, <1>6 DEF Keeps
<1>8. RootStep(t)
  BY <1>k, <1>y DEF GiveUp, RootStep, HoldsRoot, Alone, AtRoot, HasRoot, IInv, RootInv
<1>9. QED
  BY <1>2, <1>3, <1>7, <1>8

\* The two cases of looking at the root again.
GiveBack(t) ==
    /\ pc[t] = "grow" /\ HasRoot
    /\ locked' = locked \ {child[t], nb[t]}
    /\ live' = live \ {nb[t]}
    /\ keys' = [keys EXCEPT ![nb[t]] = <<>>]
    /\ next' = [next EXCEPT ![nb[t]] = NoBin]
    /\ GoTo(t, "insert")
    /\ UNCHANGED <<root, head, tail, ver, retr, local, history>>

SeeNoRoot(t) ==
    /\ pc[t] = "grow" /\ ~HasRoot
    /\ GoTo(t, "raise")
    /\ UNCHANGED <<shared, local, history>>

LEMMA LookAgainIs == \A t \in Thread : LookAgain(t) <=> GiveBack(t) \/ SeeNoRoot(t)
<1>1. SUFFICES ASSUME NEW t \in Thread PROVE LookAgain(t) <=> GiveBack(t) \/ SeeNoRoot(t)
  OBVIOUS
<1>2. CASE HasRoot
  BY <1>2 DEF LookAgain, GiveBack, SeeNoRoot
<1>3. CASE ~HasRoot
  BY <1>3 DEF LookAgain, GiveBack, SeeNoRoot, shared, bins
<1>4. QED
  BY <1>2, <1>3

LEMMA GiveBackStep ==
    ASSUME IInv, NEW t \in Thread, GiveBack(t)
    PROVE  TypeOK' /\ ThreadOK(t)' /\ Keeps(t) /\ RootStep(t)
<1> USE NameAssumption, BoundAssumption DEF NameAssumption, BoundAssumption, root, local, history
<1>k. /\ key(t) \in Key
      /\ child[t] \in live /\ child[t] \in live \cup {Root} /\ child[t] # Root /\ Root \in live \cup {Root}
      /\ child[t] \in Bin /\ child[t] \in Named
      /\ nb[t] \in live /\ nb[t] \in live \cup {Root} /\ nb[t] # Root /\ nb[t] \in Bin
      /\ nb[t] # child[t]
      /\ Len(keys[child[t]]) = ChildMax
      /\ nb[t] \notin Named
  BY Knows DEF GiveBack
<1>g. /\ live' = live \ {nb[t]} /\ locked' = locked \ {child[t], nb[t]}
      /\ keys' = [keys EXCEPT ![nb[t]] = <<>>] /\ next' = [next EXCEPT ![nb[t]] = NoBin]
      /\ pc[t] = "grow" /\ pc' = [pc EXCEPT ![t] = "insert"]
      /\ UNCHANGED <<rkeys, kids, head, tail, ver, retr, local, history>>
  BY DEF GiveBack, GoTo
<1>e. /\ head \in live' \cup {NoBin} /\ tail \in live' \cup {NoBin}
      /\ \A b \in Bin : next[b] \in live' \cup {NoBin}
  BY <1>g, <1>k, Links
<1>y. /\ live \subseteq Bin
      /\ locked \subseteq live \cup {Root}
      /\ keys \in [Bin -> Seq(Key)]
      /\ next \in [Bin -> live \cup {NoBin}]
      /\ head \in live \cup {NoBin}
      /\ tail \in live \cup {NoBin}
      /\ kids \in Seq(live) /\ Len(kids) = (IF HasRoot THEN Len(rkeys) + 1 ELSE 0)
      /\ pc \in [Thread -> Labels]
      /\ child \in [Thread -> Bin \cup {NoBin}]
      /\ nb \in [Thread -> Bin \cup {NoBin}]
      /\ unl \in [Thread -> Seq(live \cup {Root})]
  BY DEF IInv, TypeOK
<1>z. ThreadOK(t) /\ child[t] \in Named
  BY DEF IInv, Named
<1>1. OthersStay(t)
  BY <1>g DEF OthersStay, IInv, TypeOK
<1>2. TypeOK'
  <2>1. live' \subseteq Bin
    BY <1>k, <1>g, <1>e, <1>y
  <2>2. locked' \subseteq live' \cup {Root}
    BY <1>k, <1>g, <1>e, <1>y
  <2>3. keys' \in [Bin -> Seq(Key)]
    BY <1>k, <1>g, <1>e, <1>y
  <2>4. next' \in [Bin -> live' \cup {NoBin}]
    BY <1>k, <1>g, <1>e, <1>y
  <2>5. head' \in live' \cup {NoBin}
    BY <1>k, <1>g, <1>e, <1>y
  <2>6. tail' \in live' \cup {NoBin}
    BY <1>k, <1>g, <1>e, <1>y
  <2>7. kids' \in Seq(live') /\ Len(kids') = (IF HasRoot' THEN Len(rkeys') + 1 ELSE 0)
    <3>1. kids \in Seq(live) /\ \A i \in 1 .. Len(kids) : kids[i] \in Named /\ kids[i] \in live
      BY <1>y, KidsAre
    <3>2. kids \in Seq(live')
      BY <1>g, <1>k, <3>1, SeqIn
    <3>3. QED
      BY <1>g, <1>y, <3>2 DEF HasRoot
  <2>8. pc' \in [Thread -> Labels]
    BY <1>g, <1>y DEF Labels
  <2>9. unl' \in [Thread -> Seq(live' \cup {Root})]
    <3>1. SUFFICES ASSUME NEW s \in Thread PROVE unl[s] \in Seq(live' \cup {Root})
      BY <1>g, <1>y
    <3>2. unl[s] \in Seq(live \cup {Root}) /\ \A i \in 1 .. Len(unl[s]) : unl[s][i] \in live \cup {Root}
      BY <1>y
    <3>3. \A i \in 1 .. Len(unl[s]) : unl[s][i] # nb[t]
      <4>1. CASE unl[s] = <<>>
        BY <4>1
      <4>2. CASE unl[s] # <<>>
        <5>1. pc[s] = "unlock" /\ s # t
          BY <1>g, <4>2 DEF IInv, ThreadOK
        <5>2. Owns(s) = ToSet(unl[s]) \ {Root} /\ nb[t] \in Owns(t)
          BY <1>g, <5>1 DEF Owns, Changes
        <5>3. nb[t] \notin ToSet(unl[s])
          BY <1>k, <5>1, <5>2 DEF IInv, LockInv
        <5>4. QED
          BY <3>2, <5>3 DEF ToSet
      <4>3. QED
        BY <4>1, <4>2
    <3>4. QED
      BY <1>g, <3>2, <3>3, SeqIn
  <2>10. /\ rkeys' \in Seq(Key)
        /\ ver' \in [Bin \cup {Root} -> Nat]
        /\ retr' \in BOOLEAN
        /\ lost' \in BOOLEAN
        /\ rooted' \in BOOLEAN
    BY <1>g DEF IInv, TypeOK
  <2>11. /\ call' \in [Thread -> [op : {"none", "find", "insert"}, key : Key \cup {0}]]
        /\ child' \in [Thread -> Bin \cup {NoBin}]
        /\ nb' \in [Thread -> Bin \cup {NoBin}]
        /\ slot' \in [Thread -> Nat]
        /\ known' \in [Thread -> Nat]
        /\ done' \in [Thread -> Nat]
        /\ res' \in [Thread -> {"none", "ok", "failed", "retry", "retrain"}]
        /\ before' \in [Thread -> BOOLEAN]
        /\ moved' \in [Thread -> BOOLEAN]
    BY <1>g DEF IInv, TypeOK
  <2>12. QED
    BY <2>1, <2>2, <2>3, <2>4, <2>5, <2>6, <2>7, <2>8, <2>9, <2>10, <2>11 DEF TypeOK
<1>3. ThreadOK(t)'
  <2>1. pc'[t] # "idle" => key(t)' \in Key
    BY <1>k, <1>g, <1>e, <1>y, <1>z DEF key, ThreadOK
  <2>2. /\ child'[t] \in live' \cup {NoBin} /\ (pc'[t] \in AtChild => child'[t] \in live')
       /\ (pc'[t] \in AtTwo => nb'[t] \in live')
       /\ (pc'[t] \in {"borrow", "split", "grow", "raise", "halve"} => child'[t] # nb'[t])
    BY <1>k, <1>g, <1>e, <1>y, <1>z DEF AtChild, AtRoot, AtTwo, Alone, ThreadOK
  <2>3. /\ (pc'[t] \in {"rver", "rslot", "wroot", "halve"} => HasRoot')
       /\ (pc'[t] \in AtRoot \cup {"rcheck", "rchild"} => slot'[t] \in 1 .. Len(kids'))
    BY <1>k, <1>g, <1>e, <1>y, <1>z DEF AtRoot, HasRoot, ThreadOK
  <2>4. pc'[t] \in {"ssplit", "split", "grow", "raise", "halve"} => Len(keys'[child'[t]]) = ChildMax
    BY <1>k, <1>g, <1>e, <1>y, <1>z DEF ThreadOK
  <2>5. IsInjective(unl'[t]) /\ (pc'[t] = "unlock" <=> unl'[t] # <<>>)
    BY <1>k, <1>g, <1>e, <1>y, <1>z DEF IsInjective, ThreadOK
  <2>6. pc'[t] \in {"grow", "raise"} => nb'[t] \notin Named'
    BY <1>k, <1>g, <1>e, <1>y, <1>z DEF ThreadOK
  <2>7. QED
    BY <2>1, <2>2, <2>3, <2>4, <2>5, <2>6 DEF ThreadOK
<1>o. Owns(t) = {child[t], nb[t]}
  BY <1>k, <1>g, <1>e, <1>y DEF Owns, Changes
<1>4. LocksStay(t)
  <2>1. Owns(t)' = {}
    BY <1>k, <1>g, <1>e, <1>y DEF Owns, Changes
  <2>2. QED
    BY <1>o, <2>1, <1>k, <1>g, <1>e, <1>y DEF LocksStay, IInv, LockInv
<1>5. NamesStay(t)
  <2> DEFINE Known == Named \cup Owns(t) \cup (Bin \ live) \cup {NoBin}
  <2>1. head' \in Known /\ tail' \in Known /\ \A b \in Bin : next'[b] \in Known
    BY <1>k, <1>g, <1>e, <1>y, <1>o, Links
  <2>2. \A i \in DOMAIN kids' : kids'[i] \in Known
    BY <1>k, <1>g, <1>e, <1>y, <1>o DEF Named
  <2>3. child'[t] \in Known /\ pc'[t] # "wprev"
    BY <1>k, <1>g, <1>e, <1>y, <1>z
  <2>4. QED
    BY <1>1, <2>1, <2>2, <2>3, NamesFrom DEF NamesStay
<1>6. ArraysStay(t)
  <2>1. live \ live' \subseteq {b \in {nb[t]} : pc[t] = "grow"}
    BY <1>k, <1>g, <1>e, <1>y
  <2>2. (HasRoot => HasRoot') /\ Len(kids') >= Len(kids)
    BY <1>k, <1>g, <1>e, <1>y DEF HasRoot
  <2>3. \A b \in live \ Owns(t) : keys'[b] = keys[b]
    BY <1>k, <1>g, <1>e, <1>y, <1>o
  <2>4. QED
    BY <2>1, <2>2, <2>3 DEF ArraysStay
<1>7. Keeps(t)
  BY <1>1, <1>4, <1>5, <1>6 DEF Keeps
<1>8. RootStep(t)
  BY <1>k, <1>g, <1>e, <1>y DEF RootStep, HoldsRoot, Alone, AtRoot, HasRoot, IInv, RootInv
<1>9. QED
  BY <1>2, <1>3, <1>7, <1>8

LEMMA SeeNoRootStep ==
    ASSUME IInv, NEW t \in Thread, SeeNoRoot(t)
    PROVE  TypeOK' /\ ThreadOK(t)' /\ Keeps(t) /\ RootStep(t)
<1> USE NameAssumption, BoundAssumption DEF NameAssumption, BoundAssumption, GoTo,
   shared, bins, root, local, history
<1>k. /\ key(t) \in Key
      /\ child[t] \in live /\ child[t] \in live \cup {Root} /\ child[t] # Root /\ Root \in live \cup {Root}
      /\ child[t] \in Bin /\ child[t] \in Named
      /\ nb[t] \in live /\ nb[t] \in Bin /\ nb[t] # child[t]
  BY Knows DEF SeeNoRoot
<1>y. /\ live \subseteq Bin
      /\ pc \in [Thread -> Labels]
  BY DEF IInv, TypeOK
<1>z. ThreadOK(t) /\ child[t] \in Named
  BY DEF IInv, Named
<1>1. OthersStay(t)
  BY DEF SeeNoRoot, OthersStay, IInv, TypeOK
<1>2. TypeOK'
  <2>1. pc' \in [Thread -> Labels]
    BY <1>y DEF SeeNoRoot, Labels
  <2>2. QED
    BY <2>1 DEF SeeNoRoot, IInv, TypeOK, HasRoot
<1>3. ThreadOK(t)'
  <2>1. Named' = Named /\ nb[t] \notin Named
    BY <1>y, <1>z DEF SeeNoRoot, Named, ThreadOK
  <2>2. QED
    BY <2>1, <1>k, <1>y, <1>z DEF SeeNoRoot, ThreadOK, IsInjective, AtChild, AtRoot, AtTwo, Alone,
       HasRoot, key
<1>o. Owns(t) = {child[t], nb[t]}
  BY <1>k, <1>y DEF SeeNoRoot, Owns, Changes
<1>4. LocksStay(t)
  <2>1. Owns(t)' = {child[t], nb[t]}
    BY <1>k, <1>y DEF SeeNoRoot, Owns, Changes
  <2>2. QED
    BY <1>o, <2>1, <1>k, <1>y DEF SeeNoRoot, LocksStay, IInv, LockInv
<1>5. Keeps(t)
  <2>1. child'[t] \in Named \cup {NoBin} /\ (pc'[t] = "wprev" => nb'[t] \in Named)
    BY <1>k, <1>y, <1>z DEF SeeNoRoot
  <2>2. QED
    BY <1>1, <1>4, <2>1, NoArrayChanges DEF SeeNoRoot
<1>8. RootStep(t)
  BY <1>k, <1>y DEF SeeNoRoot, RootStep, HoldsRoot, Alone, AtRoot, HasRoot, IInv, RootInv
<1>9. QED
  BY <1>2, <1>3, <1>5, <1>8

LEMMA StoreRootStep ==
    ASSUME IInv, NEW t \in Thread, StoreRoot(t)
    PROVE  TypeOK' /\ ThreadOK(t)' /\ Keeps(t) /\ RootStep(t)
<1> USE NameAssumption, BoundAssumption DEF NameAssumption, BoundAssumption, root, local, history
<1>k. /\ key(t) \in Key
      /\ child[t] \in live /\ child[t] \in live \cup {Root} /\ child[t] # Root /\ Root \in live \cup {Root}
      /\ child[t] \in Bin /\ child[t] \in Named
      /\ nb[t] \in live /\ nb[t] \in live \cup {Root} /\ nb[t] # Root /\ nb[t] \in Bin
      /\ nb[t] # child[t]
      /\ Len(keys[child[t]]) = ChildMax
  BY Knows DEF StoreRoot
<1>g. /\ ~HasRoot /\ rkeys' = <<keys[child[t]][Mid(child[t])]>> /\ kids' = <<child[t], nb[t]>>
      /\ locked' = locked \cup {Root} /\ pc[t] = "raise" /\ pc' = [pc EXCEPT ![t] = "halve"]
      /\ UNCHANGED <<live, keys, next, head, tail, ver, retr, local, history>>
  BY DEF StoreRoot, bins, GoTo
<1>s. keys[child[t]] \in Seq(Key) /\ keys[child[t]][Mid(child[t])] \in Key
  <2>1. keys[child[t]] \in Seq(Key)
    BY <1>k DEF IInv, TypeOK
  <2>2. QED
    BY <1>k, <2>1, HalvesAre
<1>r. /\ rkeys' \in Seq(Key) /\ Len(rkeys') = 1
      /\ kids' \in Seq(live) /\ Len(kids') = 2 /\ kids' # <<>> /\ Len(kids) = 0
      /\ \A i \in DOMAIN kids' : kids'[i] \in {child[t], nb[t]}
  <2>1. Len(kids) = 0
    BY <1>g DEF IInv, TypeOK
  <2>2. QED
    BY <1>g, <1>k, <1>s, <2>1
<1>y. /\ live \subseteq Bin
      /\ locked \subseteq live \cup {Root}
      /\ keys \in [Bin -> Seq(Key)]
      /\ next \in [Bin -> live \cup {NoBin}]
      /\ rkeys \in Seq(Key)
      /\ kids \in Seq(live) /\ Len(kids) = (IF HasRoot THEN Len(rkeys) + 1 ELSE 0)
      /\ pc \in [Thread -> Labels]
      /\ child \in [Thread -> Bin \cup {NoBin}]
      /\ nb \in [Thread -> Bin \cup {NoBin}]
  BY DEF IInv, TypeOK
<1>z. ThreadOK(t) /\ child[t] \in Named
  BY DEF IInv, Named
<1>1. OthersStay(t)
  BY <1>g DEF OthersStay, IInv, TypeOK
<1>2. TypeOK'
  <2>1. locked' \subseteq live' \cup {Root}
    BY <1>k, <1>g, <1>s, <1>r, <1>y
  <2>2. rkeys' \in Seq(Key)
    BY <1>k, <1>g, <1>s, <1>r, <1>y
  <2>3. kids' \in Seq(live') /\ Len(kids') = (IF HasRoot' THEN Len(rkeys') + 1 ELSE 0)
    BY <1>k, <1>g, <1>s, <1>r, <1>y DEF HasRoot
  <2>4. pc' \in [Thread -> Labels]
    BY <1>g, <1>y DEF Labels
  <2>5. QED
    BY <2>1, <2>2, <2>3, <2>4, <1>g DEF IInv, TypeOK
<1>3. ThreadOK(t)'
  <2>1. pc'[t] # "idle" => key(t)' \in Key
    BY <1>k, <1>g, <1>s, <1>r, <1>y, <1>z DEF key, ThreadOK
  <2>2. /\ child'[t] \in live' \cup {NoBin} /\ (pc'[t] \in AtChild => child'[t] \in live')
       /\ (pc'[t] \in AtTwo => nb'[t] \in live')
       /\ (pc'[t] \in {"borrow", "split", "grow", "raise", "halve"} => child'[t] # nb'[t])
    BY <1>k, <1>g, <1>s, <1>r, <1>y, <1>z DEF AtChild, AtRoot, AtTwo, Alone, ThreadOK
  <2>3. /\ (pc'[t] \in {"rver", "rslot", "wroot", "halve"} => HasRoot')
       /\ (pc'[t] \in AtRoot \cup {"rcheck", "rchild"} => slot'[t] \in 1 .. Len(kids'))
    BY <1>k, <1>g, <1>s, <1>r, <1>y, <1>z DEF AtRoot, HasRoot, ThreadOK
  <2>4. pc'[t] \in {"ssplit", "split", "grow", "raise", "halve"} => Len(keys'[child'[t]]) = ChildMax
    BY <1>k, <1>g, <1>s, <1>r, <1>y, <1>z DEF ThreadOK
  <2>5. IsInjective(unl'[t]) /\ (pc'[t] = "unlock" <=> unl'[t] # <<>>)
    BY <1>k, <1>g, <1>s, <1>r, <1>y, <1>z DEF IsInjective, ThreadOK
  <2>6. pc'[t] \in {"grow", "raise"} => nb'[t] \notin Named'
    BY <1>k, <1>g, <1>s, <1>r, <1>y, <1>z DEF ThreadOK
  <2>7. QED
    BY <2>1, <2>2, <2>3, <2>4, <2>5, <2>6 DEF ThreadOK
<1>o. Owns(t) = {child[t], nb[t]}
  BY <1>k, <1>g, <1>s, <1>r, <1>y DEF Owns, Changes
<1>4. LocksStay(t)
  <2>1. Owns(t)' = {child[t], nb[t]}
    BY <1>k, <1>g, <1>s, <1>r, <1>y DEF Owns, Changes
  <2>2. QED
    BY <1>o, <2>1, <1>k, <1>g, <1>s, <1>r, <1>y DEF LocksStay, IInv, LockInv
<1>5. NamesStay(t)
  <2> DEFINE Known == Named \cup Owns(t) \cup (Bin \ live) \cup {NoBin}
  <2>1. head' \in Known /\ tail' \in Known /\ \A b \in Bin : next'[b] \in Known
    BY <1>k, <1>g, <1>s, <1>r, <1>y, <1>o, Links
  <2>2. \A i \in DOMAIN kids' : kids'[i] \in Known
    BY <1>k, <1>g, <1>s, <1>r, <1>y, <1>o DEF Named
  <2>3. child'[t] \in Known /\ pc'[t] # "wprev"
    BY <1>k, <1>g, <1>s, <1>r, <1>y, <1>z
  <2>4. QED
    BY <1>1, <2>1, <2>2, <2>3, NamesFrom DEF NamesStay
<1>6. ArraysStay(t)
  <2>1. live \ live' \subseteq {b \in {nb[t]} : pc[t] = "grow"}
    BY <1>k, <1>g, <1>s, <1>r, <1>y
  <2>2. (HasRoot => HasRoot') /\ Len(kids') >= Len(kids)
    BY <1>k, <1>g, <1>s, <1>r, <1>y DEF HasRoot
  <2>3. \A b \in live \ Owns(t) : keys'[b] = keys[b]
    BY <1>k, <1>g, <1>s, <1>r, <1>y, <1>o
  <2>4. QED
    BY <2>1, <2>2, <2>3 DEF ArraysStay
<1>7. Keeps(t)
  BY <1>1, <1>4, <1>5, <1>6 DEF Keeps
<1>8. RootStep(t)
  BY <1>k, <1>g, <1>s, <1>r, <1>y DEF RootStep, HoldsRoot, Alone, AtRoot, HasRoot, IInv, RootInv
<1>9. QED
  BY <1>2, <1>3, <1>7, <1>8

LEMMA SplitAloneStep ==
    ASSUME IInv, NEW t \in Thread, SplitAlone(t)
    PROVE  TypeOK' /\ ThreadOK(t)' /\ Keeps(t) /\ RootStep(t)
<1> USE NameAssumption, BoundAssumption DEF NameAssumption, BoundAssumption, Release, GoTo, Link,
   Shifted
<1>k. /\ key(t) \in Key
      /\ child[t] \in live /\ child[t] \in live \cup {Root} /\ child[t] # Root /\ Root \in live \cup {Root}
      /\ child[t] \in Bin /\ child[t] \in Named
      /\ nb[t] \in live /\ nb[t] \in live \cup {Root} /\ nb[t] # Root /\ nb[t] \in Bin
      /\ nb[t] # child[t]
      /\ Len(keys[child[t]]) = ChildMax
      /\ HasRoot /\ Len(kids) = Len(rkeys) + 1
  BY Knows DEF SplitAlone
<1>m. LET l == <<child[t], nb[t], Root>> IN
          l \in Seq(live \cup {Root}) /\ l # <<>> /\ ToSet(l) = {child[t], nb[t], Root} /\ IsInjective(l)
  BY <1>k, ThreeLocks
<1>h. /\ Halves(t)[1] \in Seq(Key) /\ Halves(t)[2] \in Seq(Key) /\ Last(Halves(t)[1]) \in Key
  BY <1>k, HalvesAre
<1>y. /\ live \subseteq Bin
      /\ keys \in [Bin -> Seq(Key)]
      /\ next \in [Bin -> live \cup {NoBin}]
      /\ tail \in live \cup {NoBin}
      /\ rkeys \in Seq(Key)
      /\ kids \in Seq(live) /\ Len(kids) = (IF HasRoot THEN Len(rkeys) + 1 ELSE 0)
      /\ ver \in [Bin \cup {Root} -> Nat]
      /\ pc \in [Thread -> Labels]
      /\ child \in [Thread -> Bin \cup {NoBin}]
      /\ nb \in [Thread -> Bin \cup {NoBin}]
      /\ res \in [Thread -> {"none", "ok", "failed", "retry", "retrain"}]
      /\ unl \in [Thread -> Seq(live \cup {Root})]
      /\ moved \in [Thread -> BOOLEAN]
  BY DEF IInv, TypeOK
<1>z. ThreadOK(t) /\ child[t] \in Named
  BY DEF IInv, Named
<1>1. OthersStay(t)
  BY DEF SplitAlone, OthersStay, IInv, TypeOK
<1>2. TypeOK'
  <2>1. keys' \in [Bin -> Seq(Key)]
    BY <1>k, <1>m, <1>h, <1>y DEF SplitAlone
  <2>2. next' \in [Bin -> live' \cup {NoBin}]
    BY <1>k, <1>m, <1>h, <1>y DEF SplitAlone
  <2>3. tail' \in live' \cup {NoBin}
    BY <1>k, <1>m, <1>h, <1>y DEF SplitAlone
  <2>4. rkeys' \in Seq(Key)
    BY <1>h, <1>y, SetAt DEF SplitAlone
  <2>5. kids' \in Seq(live') /\ Len(kids') = (IF HasRoot' THEN Len(rkeys') + 1 ELSE 0)
    BY <1>k, <1>m, <1>h, <1>y DEF SplitAlone, HasRoot
  <2>6. ver' \in [Bin \cup {Root} -> Nat]
    BY <1>y, BumpIs DEF SplitAlone
  <2>7. pc' \in [Thread -> Labels]
    BY <1>y DEF SplitAlone, Labels
  <2>8. res' \in [Thread -> {"none", "ok", "failed", "retry", "retrain"}]
    BY <1>k, <1>m, <1>h, <1>y DEF SplitAlone
  <2>9. unl' \in [Thread -> Seq(live' \cup {Root})]
    BY <1>k, <1>m, <1>h, <1>y DEF SplitAlone
  <2>10. moved' \in [Thread -> BOOLEAN]
    BY <1>k, <1>m, <1>h, <1>y DEF SplitAlone
  <2>11. QED
    BY ZenonT(60), <2>1, <2>2, <2>3, <2>4, <2>5, <2>6, <2>7, <2>8, <2>9, <2>10 DEF SplitAlone, IInv, TypeOK
<1>3. ThreadOK(t)'
  <2>1. pc'[t] # "idle" => key(t)' \in Key
    BY <1>k, <1>m, <1>h, <1>y, <1>z DEF SplitAlone, key, ThreadOK
  <2>2. /\ child'[t] \in live' \cup {NoBin} /\ (pc'[t] \in AtChild => child'[t] \in live')
       /\ (pc'[t] \in AtTwo => nb'[t] \in live')
       /\ (pc'[t] \in {"borrow", "split", "grow", "raise", "halve"} => child'[t] # nb'[t])
    BY <1>k, <1>m, <1>h, <1>y, <1>z DEF SplitAlone, AtChild, AtRoot, AtTwo, Alone, ThreadOK
  <2>3. /\ (pc'[t] \in {"rver", "rslot", "wroot", "halve"} => HasRoot')
       /\ (pc'[t] \in AtRoot \cup {"rcheck", "rchild"} => slot'[t] \in 1 .. Len(kids'))
    BY <1>k, <1>m, <1>h, <1>y, <1>z DEF SplitAlone, AtRoot, HasRoot, ThreadOK
  <2>4. pc'[t] \in {"ssplit", "split", "grow", "raise", "halve"} => Len(keys'[child'[t]]) = ChildMax
    BY <1>k, <1>m, <1>h, <1>y, <1>z DEF SplitAlone, ThreadOK
  <2>5. IsInjective(unl'[t]) /\ (pc'[t] = "unlock" <=> unl'[t] # <<>>)
    BY <1>k, <1>m, <1>h, <1>y, <1>z DEF SplitAlone, IsInjective, ThreadOK
  <2>6. pc'[t] \in {"grow", "raise"} => nb'[t] \notin Named'
    BY <1>k, <1>m, <1>h, <1>y, <1>z DEF SplitAlone, ThreadOK
  <2>7. QED
    BY <2>1, <2>2, <2>3, <2>4, <2>5, <2>6 DEF ThreadOK
<1>o. Owns(t) = {child[t], nb[t]}
  BY <1>k, <1>m, <1>h, <1>y DEF SplitAlone, Owns, Changes
<1>4. LocksStay(t)
  <2>1. Owns(t)' = {child[t], nb[t]}
    BY <1>k, <1>m, <1>h, <1>y DEF SplitAlone, Owns, Changes
  <2>2. QED
    BY <1>o, <2>1, <1>k, <1>m, <1>h, <1>y DEF SplitAlone, LocksStay, IInv, LockInv
<1>5. NamesStay(t)
  <2> DEFINE Known == Named \cup Owns(t) \cup (Bin \ live) \cup {NoBin}
  <2>1. head' \in Known /\ tail' \in Known /\ \A b \in Bin : next'[b] \in Known
    BY <1>k, <1>m, <1>h, <1>y, <1>o, Links DEF SplitAlone
  <2>2. \A i \in DOMAIN kids' : kids'[i] \in Known
    BY <1>k, <1>m, <1>h, <1>y, <1>o DEF SplitAlone, Named
  <2>3. child'[t] \in Known /\ pc'[t] # "wprev"
    BY <1>k, <1>m, <1>h, <1>y, <1>z DEF SplitAlone
  <2>4. QED
    BY <1>1, <2>1, <2>2, <2>3, NamesFrom DEF NamesStay
<1>6. ArraysStay(t)
  <2>1. live \ live' \subseteq {b \in {nb[t]} : pc[t] = "grow"}
    BY <1>k, <1>m, <1>h, <1>y DEF SplitAlone
  <2>2. (HasRoot => HasRoot') /\ Len(kids') >= Len(kids)
    BY <1>k, <1>m, <1>h, <1>y DEF SplitAlone, HasRoot
  <2>3. \A b \in live \ Owns(t) : keys'[b] = keys[b]
    BY <1>k, <1>m, <1>h, <1>y, <1>o DEF SplitAlone
  <2>4. QED
    BY <2>1, <2>2, <2>3 DEF ArraysStay
<1>7. Keeps(t)
  BY <1>1, <1>4, <1>5, <1>6 DEF Keeps
<1>8. RootStep(t)
  BY <1>k, <1>m, <1>h, <1>y DEF SplitAlone, RootStep, HoldsRoot, Alone, AtRoot, HasRoot, IInv,
     RootInv
<1>9. QED
  BY <1>2, <1>3, <1>7, <1>8

LEMMA OverrunStep ==
    ASSUME IInv, NEW t \in Thread, Overrun(t)
    PROVE  TypeOK' /\ ThreadOK(t)' /\ Keeps(t) /\ RootStep(t)
<1> USE NameAssumption, BoundAssumption DEF NameAssumption, BoundAssumption, GoTo, Stale,
   shared, bins, root, local, history
<1>k. /\ key(t) \in Key
      /\ child[t] \in live /\ child[t] \in live \cup {Root} /\ child[t] # Root /\ Root \in live \cup {Root}
      /\ child[t] \in Bin /\ child[t] \in Named
      /\ nb[t] \in live /\ nb[t] \in Bin /\ nb[t] # child[t]
  BY Knows DEF Overrun
<1>y. /\ live \subseteq Bin
      /\ pc \in [Thread -> Labels]
  BY DEF IInv, TypeOK
<1>z. ThreadOK(t) /\ child[t] \in Named
  BY DEF IInv, Named
<1>1. OthersStay(t)
  BY DEF Overrun, OthersStay, IInv, TypeOK
<1>2. TypeOK'
  <2>1. pc' \in [Thread -> Labels]
    BY <1>y DEF Overrun, Labels
  <2>2. QED
    BY <2>1 DEF Overrun, IInv, TypeOK, HasRoot
<1>3. ThreadOK(t)'
  BY <1>k, <1>y, <1>z DEF Overrun, ThreadOK, IsInjective, AtChild, AtRoot, AtTwo, Alone,
     HasRoot, key
<1>o. Owns(t) = {child[t], nb[t]}
  BY <1>k, <1>y DEF Overrun, Owns, Changes
<1>4. LocksStay(t)
  <2>1. Owns(t)' = {}
    BY <1>k, <1>y DEF Overrun, Owns, Changes
  <2>2. QED
    BY <1>o, <2>1, <1>k, <1>y DEF Overrun, LocksStay, IInv, LockInv
<1>5. Keeps(t)
  <2>1. child'[t] \in Named \cup {NoBin} /\ (pc'[t] = "wprev" => nb'[t] \in Named)
    BY <1>k, <1>y, <1>z DEF Overrun
  <2>2. QED
    BY <1>1, <1>4, <2>1, NoArrayChanges DEF Overrun
<1>8. RootStep(t)
  BY <1>k, <1>y DEF Overrun, RootStep, HoldsRoot, Alone, AtRoot, HasRoot, IInv, RootInv
<1>9. QED
  BY <1>2, <1>3, <1>5, <1>8

-----------------------------------------------------------------------------
(* The invariant. *)

LEMMA AnyStep ==
    ASSUME IInv, NEW t \in Thread, Call(t) \/ Step(t)
    PROVE  TypeOK' /\ ThreadOK(t)' /\ Keeps(t) /\ RootStep(t)
  BY CallStep, ReturnStep, UnlockStep, FindStartStep, ReadRootVersionStep, ReadRootSlotStep, CheckRootStep,
     ReadChildStep, ReadChildVersionStep, ReadKeysStep, CheckChildStep, HopStep, InsertStartStep,
     LockRootStep, LockChildStep, DuplicateStep, PutInChildStep, ChooseLeftStep, LockLeftStep, BorrowStep,
     NeedRetrainStep, NewChildStep, SplitStep, NewHeadStep, PublishHeadStep, ReadVersionStep,
     CheckVersionStep, PutAloneStep, SkipSeparatorStep, WantSeparatorStep, SetSeparatorStep, GiveUpStep,
     LookAgainIs, GiveBackStep, SeeNoRootStep, StoreRootStep, SplitAloneStep, OverrunStep
     DEF Step

LEMMA NextIInv ==
    ASSUME IInv, [Next]_vars
    PROVE  IInv'
<1>1. CASE Next
  BY <1>1, AnyStep, StepKeeps DEF Next
<1>2. CASE UNCHANGED vars
  <2>1. UNCHANGED <<live, keys, next, head, tail, rkeys, kids, ver, locked, retr, pc, call, child, nb, slot,
                    known, res, unl, done, before, moved, lost, rooted>>
    BY <1>2 DEF vars, shared, bins, root, local, history
  <2>2. TypeOK' /\ LockInv'
    BY SMTT(60), <2>1 DEF IInv, TypeOK, LockInv, Owns, Changes, HasRoot
  <2>3. \A t \in Thread : ThreadOK(t)'
    <3>1. Named' = Named
      BY <2>1 DEF Named
    <3>2. QED
      BY <2>1, <3>1 DEF IInv, ThreadOK, HasRoot, key
  <2>4. RootInv'
    BY <2>1 DEF IInv, RootInv, HoldsRoot, HasRoot
  <2>5. QED
    BY <2>2, <2>3, <2>4 DEF IInv
<1>3. QED
  BY <1>1, <1>2

LEMMA InitIInv ==
    ASSUME Init
    PROVE  IInv
<1>1. PICK start \in Starts, place \in [1 .. Cardinality(Bin) -> Bin] :
        LET n == Len(start)
            At(b) == {i \in 1 .. n : place[i] = b}
        IN
        /\ IsInjective(place)
        /\ live = {place[i] : i \in 1 .. n}
        /\ keys = [b \in Bin |-> IF At(b) = {} THEN <<>> ELSE start[CHOOSE i \in At(b) : TRUE]]
        /\ next = [b \in Bin |-> IF \E i \in At(b) : i < n
                                 THEN place[1 + CHOOSE i \in At(b) : TRUE] ELSE NoBin]
        /\ head = IF n = 0 THEN NoBin ELSE place[1]
        /\ tail = IF n = 0 THEN NoBin ELSE place[n]
        /\ rkeys = IF n < 2 THEN <<>> ELSE [i \in 1 .. n - 1 |-> Last(start[i])]
        /\ kids = IF n < 2 THEN <<>> ELSE [i \in 1 .. n |-> place[i]]
        /\ rooted = (n > 1)
  BY DEF Init
<1> DEFINE n == Len(start)
           At(b) == {i \in 1 .. n : place[i] = b}
<1>r. /\ rkeys = IF n < 2 THEN <<>> ELSE [i \in 1 .. n - 1 |-> Last(start[i])]
      /\ kids = IF n < 2 THEN <<>> ELSE [i \in 1 .. n |-> place[i]]
      /\ rooted \in BOOLEAN /\ (rooted <=> n > 1)
  <2>1. rooted = (n > 1)
    BY <1>1
  <2>2. n \in Nat
    BY StartAssumption DEF StartAssumption
  <2> HIDE DEF n
  <2>3. (n > 1) \in BOOLEAN
    BY <2>2
  <2>4. rooted \in BOOLEAN /\ (rooted <=> n > 1)
    BY <2>1, <2>3, Zenon
  <2>5. QED
    BY <1>1, <2>4 DEF n
<1> HIDE DEF n
<1>2. /\ locked = {} /\ retr = FALSE /\ lost = FALSE
      /\ ver = [b \in Bin \cup {Root} |-> 0]
      /\ pc = [t \in Thread |-> "idle"] /\ call = [t \in Thread |-> [op |-> "none", key |-> 0]]
      /\ child = [t \in Thread |-> NoBin] /\ nb = [t \in Thread |-> NoBin]
      /\ slot = [t \in Thread |-> 0] /\ known = [t \in Thread |-> 0]
      /\ res = [t \in Thread |-> "none"] /\ unl = [t \in Thread |-> <<>>]
      /\ done = [t \in Thread |-> 0]
      /\ before = [t \in Thread |-> FALSE] /\ moved = [t \in Thread |-> FALSE]
  BY DEF Init
<1>3. /\ start \in Seq(Seq(Key)) /\ n \in Nat /\ n <= Cardinality(Bin)
      /\ n > 1 => \A i \in 1 .. n : start[i] # <<>>
  BY StartAssumption DEF StartAssumption, n
<1>4. \A i \in 1 .. n : i \in 1 .. Cardinality(Bin) /\ place[i] \in Bin /\ start[i] \in Seq(Key)
  <2>1. Cardinality(Bin) \in Nat
    BY NameAssumption, FS_CardinalityType DEF NameAssumption
  <2>2. \A i \in 1 .. n : i \in 1 .. Cardinality(Bin)
    BY <1>3, <2>1
  <2>3. \A i \in 1 .. n : start[i] \in Seq(Key)
    BY <1>3 DEF n
  <2>4. QED
    BY <1>1, <2>2, <2>3
<1>5. \A b \in Bin : At(b) # {} => (CHOOSE i \in At(b) : TRUE) \in At(b)
  OBVIOUS
<1>6. live \subseteq Bin
  BY <1>1, <1>4 DEF n
<1>7. keys \in [Bin -> Seq(Key)]
  <2>1. \A b \in Bin : At(b) # {} => start[CHOOSE i \in At(b) : TRUE] \in Seq(Key)
    BY <1>4, <1>5
  <2>2. QED
    BY <1>1, <2>1 DEF n
<1>8. next \in [Bin -> live \cup {NoBin}]
  <2>1. \A b \in Bin : (\E i \in At(b) : i < n) => 1 + (CHOOSE i \in At(b) : TRUE) \in 1 .. n
    <3>1. SUFFICES ASSUME NEW b \in Bin, NEW i \in At(b), i < n
                   PROVE  1 + (CHOOSE j \in At(b) : TRUE) \in 1 .. n
      OBVIOUS
    <3>2. \A j \in At(b) : j = i
      BY <1>1, <1>4 DEF IsInjective
    <3>3. (CHOOSE j \in At(b) : TRUE) = i
      BY <1>5, <3>2
    <3>4. 1 + i \in 1 .. n
      BY <1>3, <3>1
    <3>5. QED
      BY <3>3, <3>4
  <2>2. QED
    BY ZenonT(60), <1>1, <2>1 DEF n
<1>9. {head, tail} \subseteq live \cup {NoBin}
  BY <1>1, <1>3 DEF n
<1>t. /\ locked \subseteq live \cup {Root} /\ ver \in [Bin \cup {Root} -> Nat]
      /\ pc \in [Thread -> Labels]
      /\ call \in [Thread -> [op : {"none", "find", "insert"}, key : Key \cup {0}]]
      /\ child \in [Thread -> Bin \cup {NoBin}] /\ nb \in [Thread -> Bin \cup {NoBin}]
      /\ slot \in [Thread -> Nat] /\ known \in [Thread -> Nat] /\ done \in [Thread -> Nat]
      /\ res \in [Thread -> {"none", "ok", "failed", "retry", "retrain"}]
      /\ unl \in [Thread -> Seq(live \cup {Root})]
      /\ before \in [Thread -> BOOLEAN] /\ moved \in [Thread -> BOOLEAN]
  BY <1>2 DEF Labels
<1>u. {retr, lost, rooted} \subseteq BOOLEAN
  <2>1. retr \in BOOLEAN /\ lost \in BOOLEAN /\ rooted \in BOOLEAN
    BY <1>2, <1>r
  <2>2. QED
    BY <2>1, Zenon
<1>10. CASE n < 2
  <2>1. rkeys = <<>> /\ kids = <<>> /\ ~rooted
    BY <1>r, <1>3, <1>10
  <2>2. TypeOK
    <3>1. rkeys \in Seq(Key) /\ kids \in Seq(live) /\ Len(kids) = 0 /\ ~HasRoot
      BY <2>1 DEF HasRoot
    <3>2. QED
      BY <1>6, <1>7, <1>8, <1>9, <1>t, <1>u, <3>1 DEF TypeOK
  <2>3. RootInv /\ LockInv
    BY <1>2, <2>1 DEF RootInv, LockInv, Owns, Changes
  <2>4. \A t \in Thread : ThreadOK(t)
    BY <1>2 DEF ThreadOK, AtChild, AtRoot, AtTwo, Alone, IsInjective
  <2>5. QED
    BY <2>2, <2>3, <2>4 DEF IInv
<1>11. CASE n >= 2
  <2>1. /\ rkeys = [i \in 1 .. n - 1 |-> Last(start[i])] /\ kids = [i \in 1 .. n |-> place[i]]
        /\ rooted
    <3>1. n > 1 /\ ~(n < 2)
      BY <1>3, <1>11
    <3>2. QED
      BY <1>r, <3>1
  <2>2. rkeys \in Seq(Key) /\ Len(rkeys) = n - 1
    <3>1. \A i \in 1 .. n - 1 : Last(start[i]) \in Key
      BY <1>3, <1>4, <1>11 DEF Last
    <3>2. n - 1 \in Nat
      BY <1>3, <1>11
    <3>3. [i \in 1 .. n - 1 |-> Last(start[i])] \in Seq(Key)
      BY <3>1, <3>2, IsASeq
    <3>4. QED
      BY <2>1, <3>2, <3>3
  <2>3. kids \in Seq(live) /\ Len(kids) = n /\ HasRoot
    BY <1>1, <1>3, <1>11, <2>1 DEF HasRoot, n
  <2>4. TypeOK
    <3>1. Len(kids) = Len(rkeys) + 1
      BY <1>3, <2>2, <2>3
    <3>2. QED
      BY <1>6, <1>7, <1>8, <1>9, <1>t, <1>u, <2>2, <2>3, <3>1 DEF TypeOK
  <2>5. RootInv /\ LockInv
    BY <1>2, <2>1, <2>3 DEF RootInv, LockInv, Owns, Changes, HoldsRoot, AtRoot, Alone
  <2>6. \A t \in Thread : ThreadOK(t)
    BY <1>2 DEF ThreadOK, AtChild, AtRoot, AtTwo, Alone, IsInjective
  <2>7. QED
    BY <2>4, <2>5, <2>6 DEF IInv
<1>12. QED
  BY <1>3, <1>10, <1>11

\* The invariant holds in every state of every run.
THEOREM Invariance == Spec => []IInv
<1>1. Init => IInv
  BY InitIInv
<1>2. IInv /\ [Next]_vars => IInv'
  BY NextIInv
<1>3. QED
  BY <1>1, <1>2, PTL DEF Spec

LEMMA ExclusionFollows ==
    ASSUME IInv
    PROVE  WritersExclude
<1>1. \A t \in Thread : Changes(t) \subseteq Owns(t)
  BY DEF Owns, Changes
<1>2. \A s, t \in Thread : s # t => Changes(s) \cap Changes(t) = {}
  BY <1>1 DEF IInv, LockInv
<1>3. rooted => RootStaysLocked
  BY DEF IInv, RootInv, RootStaysLocked, HoldsRoot, AtRoot
<1>4. QED
  BY <1>2, <1>3 DEF WritersExclude

\* No two threads ever change the same child array, whatever number of threads
\* call con_insert, with a root and without; and a bin that has had a root from
\* the start is locked while an array is split (assert at line 824).
THEOREM WritersNeverMeet == Spec => []WritersExclude
<1>1. IInv => WritersExclude
  BY ExclusionFollows
<1>2. QED
  BY <1>1, Invariance, PTL

\* No pointer of the bin or of a thread ever leads to an array that was given
\* back, whatever number of threads store a first array and a first root over
\* each other: free_childbin (lines 888 and 983) frees what nobody can reach.
THEOREM FreedIsGone == Spec => []NothingDangles
<1>1. ASSUME IInv PROVE NothingDangles
  <2>1. /\ {head, tail} \subseteq live \cup {NoBin} /\ kids \in Seq(live)
        /\ \A b \in Bin : next[b] \in live \cup {NoBin}
    BY <1>1 DEF IInv, TypeOK
  <2>2. \A i \in DOMAIN kids : kids[i] \in live
    BY <2>1
  <2>3. \A t \in Thread : ThreadOK(t)
    BY <1>1 DEF IInv
  <2>4. \A t \in Thread : child[t] \in live \cup {NoBin}
    BY <2>3 DEF ThreadOK
  <2>5. \A t \in Thread : HasTwo(t) => nb[t] \in live
    BY <2>3 DEF ThreadOK, AtTwo, HasTwo
  <2>6. QED
    BY <2>1, <2>2, <2>4, <2>5 DEF NothingDangles
<1>2. QED
  BY <1>1, Invariance, PTL
=============================================================================
