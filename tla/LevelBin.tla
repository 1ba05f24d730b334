------------------------------ MODULE LevelBin ------------------------------
(***************************************************************************)
(* LevelBinCon (include/level_bin_con.h) as AidelModel drives it: every    *)
(* operation runs to its end under the lock of the slot that owns the bin  *)
(* (model_or_bin::lock), so one operation is one action.  A bin is either  *)
(* a single child array or a root array of separators over child arrays    *)
(* that are also chained through prevbin/nextbin.                          *)
(*                                                                         *)
(* Sequences are 1-based: the code's slot s is slot s + 1 here.  The       *)
(* per-array lock and version words have no reader outside the con_        *)
(* protocol and are left to the module of that protocol.                   *)
(***************************************************************************)
EXTENDS Integers, Sequences, FiniteSets, SequencesExt

CONSTANTS
    Key,          \* key_type, ordered by <
    Val,          \* data_type
    NoVal,        \* no value
    Bin,          \* the addresses allocate_childbin can return
    NoBin,        \* the null pointer
    RootSlotMax,  \* rootslotmax, 8 in the code
    ChildSlotMax  \* childslotmax, 16 in the code

ASSUME KeyAssumption    == Key \subseteq Int
ASSUME NullAssumption   == NoVal \notin Val /\ NoBin \notin Bin
ASSUME MemoryAssumption == IsFiniteSet(Bin)
ASSUME SlotAssumption ==
    /\ RootSlotMax \in Nat \ {0}
    /\ ChildSlotMax \in Nat \ {0, 1}
    /\ RootSlotMax <= ChildSlotMax

VARIABLES
    live,          \* child arrays allocated and not freed
    slotkey,       \* child array -> its keys; Len is its slotuse
    slotdata,      \* child array -> its values, parallel to slotkey
    prevbin,       \* child array -> its left neighbour in the chain
    nextbin,       \* child array -> its right neighbour in the chain
    rootkey,       \* m_root->slotkey, the separators
    children,      \* m_root->children; <<>> when m_root is null
    headbin,       \* m_headbin
    tailbin,       \* m_tailbin
    is_retraining,
    ret            \* the last operation and what it returned

chain == <<prevbin, nextbin, headbin, tailbin>>
root  == <<rootkey, children>>
data  == <<slotkey, slotdata>>
vars  == <<live, data, chain, root, is_retraining, ret>>

Answer(op, key, val, res) == [op |-> op, key |-> key, val |-> val, res |-> res]

Init ==
    \E b \in Bin :
        /\ live = {b}
        /\ slotkey = [c \in Bin |-> <<>>]
        /\ slotdata = [c \in Bin |-> <<>>]
        /\ prevbin = [c \in Bin |-> NoBin]
        /\ nextbin = [c \in Bin |-> NoBin]
        /\ rootkey = <<>>
        /\ children = <<>>
        /\ headbin = b
        /\ tailbin = b
        /\ is_retraining = FALSE
        /\ ret = Answer("none", NoVal, NoVal, "ok")

-----------------------------------------------------------------------------
(* Searching an array. *)

\* find_lower: the first slot whose key is not below the given key.
Lower(keys, key) ==
    {slot \in 1 .. Len(keys) + 1 :
        /\ \A i \in 1 .. slot - 1 : keys[i] < key
        /\ \A i \in slot .. Len(keys) : key <= keys[i]}

HasRoot   == children # <<>>
Used(b)   == Len(slotkey[b])

IsFull(b) == Used(b) = ChildSlotMax

\* Fault for RetrainInput: retraining starts one separator too early.
RootFullEarly == Len(rootkey) + 1 = RootSlotMax
RootFull == Len(rootkey) = RootSlotMax

\* The key is in the array at the slot find_lower gave.
At(b, slot, key) == slot <= Used(b) /\ slotkey[b][slot] = key

\* Every child array the root points to is allocated.  Where this is false
\* the program reads freed memory: its operations are not modelled there.
Intact == \A i \in DOMAIN children : children[i] \in live

\* The child array an operation on the key goes to, and its slot in the root
\* (slot 1 when there is no root).
RoutedTo(key, slot, b) ==
    \/ /\ HasRoot /\ b = children[slot] /\ slot \in Lower(rootkey, key)
    \/ /\ ~HasRoot /\ slot = 1 /\ headbin # NoBin /\ b = headbin

Defined == Intact /\ ~is_retraining

-----------------------------------------------------------------------------
(* find and update. *)

FindHit(key) ==
    /\ Defined
    /\ \E slot \in 1 .. Len(rootkey) + 1, b \in live :
        /\ RoutedTo(key, slot, b)
        /\ \E cslot \in Lower(slotkey[b], key) :
            /\ At(b, cslot, key)
            /\ ret' = Answer("find", key, slotdata[b][cslot], "ok")
    /\ UNCHANGED <<live, data, chain, root, is_retraining>>

\* No child array, or the key is not in the one the root routes to.
Misses(key) ==
    \/ ~HasRoot /\ headbin = NoBin
    \/ \E slot \in 1 .. Len(rootkey) + 1, b \in live :
        /\ RoutedTo(key, slot, b)
        /\ \E cslot \in Lower(slotkey[b], key) : ~At(b, cslot, key)

FindMiss(key) ==
    /\ Defined
    /\ Misses(key)
    /\ ret' = Answer("find", key, NoVal, "failed")
    /\ UNCHANGED <<live, data, chain, root, is_retraining>>

UpdateHit(key, val) ==
    /\ Defined
    /\ \E slot \in 1 .. Len(rootkey) + 1, b \in live :
        /\ RoutedTo(key, slot, b)
        /\ \E cslot \in Lower(slotkey[b], key) :
            /\ At(b, cslot, key)
            /\ slotdata' = [slotdata EXCEPT ![b][cslot] = val]
    /\ ret' = Answer("update", key, val, "ok")
    /\ UNCHANGED <<live, slotkey, chain, root, is_retraining>>

UpdateMiss(key, val) ==
    /\ Defined
    /\ Misses(key)
    /\ ret' = Answer("update", key, val, "failed")
    /\ UNCHANGED <<live, data, chain, root, is_retraining>>

\* Once is_retraining is set, insert fails and the others answer retrain.
Refuse(key, val) ==
    /\ Intact /\ is_retraining
    /\ ret' \in {Answer("insert", key, val, "failed"),
                 Answer("find", key, NoVal, "retrain"),
                 Answer("update", key, val, "retrain"),
                 Answer("remove", key, NoVal, "retrain")}
    /\ UNCHANGED <<live, data, chain, root, is_retraining>>

-----------------------------------------------------------------------------
(* con_insert_start_retrain. *)

Inserted(key, val)   == ret' = Answer("insert", key, val, "ok")

InsertDuplicate(key, val) ==
    /\ Defined
    /\ \E slot \in 1 .. Len(rootkey) + 1, b \in live :
        /\ RoutedTo(key, slot, b)
        /\ \E cslot \in Lower(slotkey[b], key) : At(b, cslot, key)
        \* a duplicate is noticed only on the paths that search the child
        /\ HasRoot => \/ ~IsFull(b)
                      \/ slot > 1 /\ Used(children[slot - 1]) < RootSlotMax
                      \/ ~RootFull
    /\ ret' = Answer("insert", key, val, "failed")
    /\ UNCHANGED <<live, data, chain, root, is_retraining>>

\* The bin was emptied before: m_headbin is null.
InsertFirst(key, val) ==
    /\ Defined
    /\ ~HasRoot /\ headbin = NoBin
    /\ \E b \in Bin \ live :
        /\ live' = live \cup {b}
        /\ slotkey' = [slotkey EXCEPT ![b] = <<key>>]
        /\ slotdata' = [slotdata EXCEPT ![b] = <<val>>]
        /\ headbin' = b
        /\ tailbin' = b
    /\ Inserted(key, val)
    /\ UNCHANGED <<prevbin, nextbin, root, is_retraining>>

\* insert_child_retrain on a child array that has room.
InsertInChild(key, val) ==
    /\ Defined
    /\ \E slot \in 1 .. Len(rootkey) + 1, b \in live :
        /\ RoutedTo(key, slot, b)
        /\ ~IsFull(b)
        /\ \E cslot \in Lower(slotkey[b], key) :
            /\ ~At(b, cslot, key)
            /\ slotkey' = [slotkey EXCEPT ![b] = InsertAt(@, cslot, key)]
            /\ slotdata' = [slotdata EXCEPT ![b] = InsertAt(@, cslot, val)]
    /\ Inserted(key, val)
    /\ UNCHANGED <<live, chain, root, is_retraining>>

\* The left neighbour has room, as the code decides it: against rootslotmax.
CanBorrow(slot) == slot > 1 /\ Used(children[slot - 1]) < RootSlotMax

\* The routed child is full and the key goes below all its keys: the key
\* itself is appended to the left neighbour.
AppendToLeft(key, val) ==
    /\ Defined /\ HasRoot
    /\ \E slot \in Lower(rootkey, key) :
        LET curr == children[slot]
            prev == children[slot - 1]
        IN  /\ IsFull(curr) /\ CanBorrow(slot)
            /\ key < slotkey[curr][1]
            /\ slotkey' = [slotkey EXCEPT ![prev] = Append(@, key)]
            /\ slotdata' = [slotdata EXCEPT ![prev] = Append(@, val)]
            /\ rootkey' = [rootkey EXCEPT ![slot - 1] = key]
    /\ Inserted(key, val)
    /\ UNCHANGED <<live, chain, children, is_retraining>>

\* The routed child is full and the key goes inside it: its smallest entry
\* moves to the left neighbour, and the key takes its place in the order.
ShiftToLeft(key, val) ==
    /\ Defined /\ HasRoot
    /\ \E slot \in Lower(rootkey, key) :
        LET curr == children[slot]
            prev == children[slot - 1]
        IN  /\ IsFull(curr) /\ CanBorrow(slot)
            /\ slotkey[curr][1] < key
            /\ \E cslot \in Lower(slotkey[curr], key) :
                /\ ~At(curr, cslot, key)
                /\ slotkey' = [slotkey EXCEPT
                        ![prev] = Append(@, slotkey[curr][1]),
                        ![curr] = InsertAt(Tail(@), cslot - 1, key)]
                /\ slotdata' = [slotdata EXCEPT
                        ![prev] = Append(@, slotdata[curr][1]),
                        ![curr] = InsertAt(Tail(@), cslot - 1, val)]
                /\ rootkey' = [i \in DOMAIN rootkey |->
                        IF i = slot - 1 THEN slotkey[curr][1]
                        ELSE IF i = slot /\ cslot > Used(curr) THEN key
                        ELSE rootkey[i]]
    /\ Inserted(key, val)
    /\ UNCHANGED <<live, chain, children, is_retraining>>

\* The routed child and the root are full, no entry can be moved left: the
\* bin asks to be retrained.  The child has not been searched for the key.
NeedRetrain(key, val) ==
    /\ Defined /\ HasRoot
    /\ \E slot \in Lower(rootkey, key) :
        IsFull(children[slot]) /\ ~CanBorrow(slot)
    /\ RootFull
    /\ is_retraining' = TRUE
    /\ ret' = Answer("insert", key, val, "retrain")
    /\ UNCHANGED <<live, data, chain, root>>

-----------------------------------------------------------------------------
(* split_child_bin_retrain, and the insert into the half the key belongs to. *)

Mid == ChildSlotMax \div 2

LeftHalf(s, cslot, e) ==
    LET half == SubSeq(s, 1, Mid)
    IN  IF cslot > Mid THEN half ELSE InsertAt(half, cslot, e)

RightHalf(s, cslot, e) ==
    LET half == SubSeq(s, Mid + 1, Len(s))
    IN  IF cslot > Mid THEN InsertAt(half, cslot - Mid, e) ELSE half

Halve(b, new, cslot, key, val) ==
    /\ live' = live \cup {new}
    /\ slotkey' = [slotkey EXCEPT ![b] = LeftHalf(@, cslot, key),
                                  ![new] = RightHalf(slotkey[b], cslot, key)]
    /\ slotdata' = [slotdata EXCEPT ![b] = LeftHalf(@, cslot, val),
                                    ![new] = RightHalf(slotdata[b], cslot, val)]

\* Fault for ScanIsExact: the new array forgets what followed b.
LinkNoNext(b, new) ==
    /\ nextbin' = [nextbin EXCEPT ![b] = new]
    /\ prevbin' = [c \in Bin |-> IF c = new THEN b
                                 ELSE IF c = nextbin[b] THEN new
                                 ELSE prevbin[c]]
    /\ tailbin' = IF nextbin[b] = NoBin THEN new ELSE tailbin
    /\ UNCHANGED headbin

\* The new array follows the one it was split from in the chain.
Link(b, new) ==
    /\ nextbin' = [nextbin EXCEPT ![b] = new, ![new] = nextbin[b]]
    /\ prevbin' = [c \in Bin |-> IF c = new THEN b
                                 ELSE IF c = nextbin[b] THEN new
                                 ELSE prevbin[c]]
    /\ tailbin' = IF nextbin[b] = NoBin THEN new ELSE tailbin
    /\ UNCHANGED headbin

Split(b, new, cslot, key, val) ==
    /\ Halve(b, new, cslot, key, val)
    /\ Link(b, new)

\* Fault for KeysAreRouted: the separator is the first key of the new array.
SplitKeyOfRight(b) == slotkey[b][Mid + 1]

\* The separator of a split: the last key of the half that stays.
SplitKey(b) == slotkey[b][Mid]

\* The only child array is full: splitting it creates the root.
SplitSingle(key, val) ==
    /\ Defined /\ ~HasRoot
    /\ headbin # NoBin /\ IsFull(headbin)
    /\ \E cslot \in Lower(slotkey[headbin], key), new \in Bin \ live :
        /\ ~At(headbin, cslot, key)
        /\ Split(headbin, new, cslot, key, val)
        /\ rootkey' = <<SplitKey(headbin)>>
        /\ children' = <<headbin, new>>
    /\ Inserted(key, val)
    /\ UNCHANGED is_retraining

\* A full child array under a root that has a free slot.
SplitChild(key, val) ==
    /\ Defined /\ HasRoot /\ ~RootFull
    /\ \E slot \in Lower(rootkey, key) :
        LET b == children[slot]
        IN  /\ IsFull(b) /\ ~CanBorrow(slot)
            /\ \E cslot \in Lower(slotkey[b], key), new \in Bin \ live :
                /\ ~At(b, cslot, key)
                /\ Split(b, new, cslot, key, val)
                /\ rootkey' = InsertAt(rootkey, slot, SplitKey(b))
                /\ children' = InsertAt(children, slot + 1, new)
    /\ Inserted(key, val)
    /\ UNCHANGED is_retraining

-----------------------------------------------------------------------------
(* remove. *)

Removed(key) == ret' = Answer("remove", key, NoVal, "ok")

RemoveMiss(key) ==
    /\ Defined
    /\ Misses(key)
    /\ ret' = Answer("remove", key, NoVal, "failed")
    /\ UNCHANGED <<live, data, chain, root, is_retraining>>

\* Fault for ImplementsMap: the values are not moved down with the keys.
RemoveKeyOnly(key) ==
    /\ Defined
    /\ \E slot \in 1 .. Len(rootkey) + 1, b \in live :
        /\ RoutedTo(key, slot, b)
        /\ Used(b) > 1
        /\ \E cslot \in Lower(slotkey[b], key) :
            /\ At(b, cslot, key)
            /\ slotkey' = [slotkey EXCEPT ![b] = RemoveAt(@, cslot)]
            /\ slotdata' = [slotdata EXCEPT ![b] = Front(@)]
            /\ rootkey' = IF cslot = Used(b) /\ slot \in DOMAIN rootkey
                          THEN [rootkey EXCEPT ![slot] = slotkey[b][cslot - 1]]
                          ELSE rootkey
    /\ Removed(key)
    /\ UNCHANGED <<live, chain, children, is_retraining>>

\* The array keeps other keys; when its last key goes, the separator follows
\* (the write to the unused separator of the last child has no reader).
RemoveFromChild(key) ==
    /\ Defined
    /\ \E slot \in 1 .. Len(rootkey) + 1, b \in live :
        /\ RoutedTo(key, slot, b)
        /\ Used(b) > 1
        /\ \E cslot \in Lower(slotkey[b], key) :
            /\ At(b, cslot, key)
            /\ slotkey' = [slotkey EXCEPT ![b] = RemoveAt(@, cslot)]
            /\ slotdata' = [slotdata EXCEPT ![b] = RemoveAt(@, cslot)]
            /\ rootkey' = IF cslot = Used(b) /\ slot \in DOMAIN rootkey
                          THEN [rootkey EXCEPT ![slot] = slotkey[b][cslot - 1]]
                          ELSE rootkey
    /\ Removed(key)
    /\ UNCHANGED <<live, chain, children, is_retraining>>

Free(b) ==
    /\ live' = live \ {b}
    /\ slotkey' = [slotkey EXCEPT ![b] = <<>>]
    /\ slotdata' = [slotdata EXCEPT ![b] = <<>>]

\* Fault for Structure: the right neighbour keeps pointing to b.
UnchainOneWay(b) ==
    /\ nextbin' = [c \in Bin |-> IF c = b THEN NoBin
                                 ELSE IF c = prevbin[b] THEN nextbin[b]
                                 ELSE nextbin[c]]
    /\ prevbin' = [prevbin EXCEPT ![b] = NoBin]
    /\ headbin' = IF prevbin[b] = NoBin THEN nextbin[b] ELSE headbin
    /\ tailbin' = IF nextbin[b] = NoBin THEN prevbin[b] ELSE tailbin

\* The array is taken out of the chain.
Unchain(b) ==
    /\ nextbin' = [c \in Bin |-> IF c = b THEN NoBin
                                 ELSE IF c = prevbin[b] THEN nextbin[b]
                                 ELSE nextbin[c]]
    /\ prevbin' = [c \in Bin |-> IF c = b THEN NoBin
                                 ELSE IF c = nextbin[b] THEN prevbin[b]
                                 ELSE prevbin[c]]
    /\ headbin' = IF prevbin[b] = NoBin THEN nextbin[b] ELSE headbin
    /\ tailbin' = IF nextbin[b] = NoBin THEN prevbin[b] ELSE tailbin

\* The last key of the only child array goes, and the array with it.
RemoveSingle(key) ==
    /\ Defined /\ ~HasRoot
    /\ headbin # NoBin
    /\ slotkey[headbin] = <<key>>
    /\ Unchain(headbin)
    /\ Free(headbin)
    /\ Removed(key)
    /\ UNCHANGED <<root, is_retraining>>

\* Taking a slot out of the root.  The arrays are moved down only when the
\* slot is followed by two children or more; otherwise they are cut short.
CloseGap(s, slot) ==
    IF slot < Len(rootkey) THEN RemoveAt(s, slot) ELSE Front(s)

\* The last key of a child array goes, and the array with it; with one child
\* left the root goes too, and that child is the whole bin.
RemoveChild(key) ==
    /\ Defined /\ HasRoot
    /\ \E slot \in Lower(rootkey, key) :
        /\ slotkey[children[slot]] = <<key>>
        /\ Unchain(children[slot])
        /\ Free(children[slot])
        /\ rootkey' = CloseGap(rootkey, slot)
        /\ children' = IF Len(rootkey) = 1 THEN <<>> ELSE CloseGap(children, slot)
    /\ Removed(key)
    /\ UNCHANGED is_retraining

-----------------------------------------------------------------------------
Insert(key, val) ==
    \/ InsertDuplicate(key, val)
    \/ InsertFirst(key, val)
    \/ InsertInChild(key, val)
    \/ AppendToLeft(key, val)
    \/ ShiftToLeft(key, val)
    \/ NeedRetrain(key, val)
    \/ SplitSingle(key, val)
    \/ SplitChild(key, val)

RemoveKey(key) ==
    \/ RemoveMiss(key)
    \/ RemoveFromChild(key)
    \/ RemoveSingle(key)
    \/ RemoveChild(key)

Next ==
    \E key \in Key :
        \/ FindHit(key) \/ FindMiss(key)
        \/ RemoveKey(key)
        \/ \E val \in Val :
            \/ Insert(key, val)
            \/ UpdateHit(key, val) \/ UpdateMiss(key, val)
            \/ Refuse(key, val)

Spec == Init /\ [][Next]_vars

-----------------------------------------------------------------------------
(* Properties. *)

\* Every variable keeps its type: arrays stay within childslotmax and
\* rootslotmax (the code never checks an index before it stores), keys and
\* values stay parallel, and a root has one child more than separators.
TypeOK ==
    /\ live \subseteq Bin
    /\ slotkey \in [Bin -> Seq(Key)]
    /\ slotdata \in [Bin -> Seq(Val)]
    /\ \A b \in Bin : Used(b) = Len(slotdata[b]) /\ Used(b) <= ChildSlotMax
    /\ prevbin \in [Bin -> Bin \cup {NoBin}]
    /\ nextbin \in [Bin -> Bin \cup {NoBin}]
    /\ rootkey \in Seq(Key)
    /\ children \in Seq(Bin)
    /\ Len(rootkey) <= RootSlotMax
    /\ IF HasRoot THEN Len(children) = Len(rootkey) + 1 ELSE rootkey = <<>>
    /\ headbin \in Bin \cup {NoBin}
    /\ tailbin \in Bin \cup {NoBin}
    /\ is_retraining \in BOOLEAN
    /\ ret.res \in {"ok", "failed", "retrain"}

Ascending(s) == \A i, j \in DOMAIN s : i < j => s[i] < s[j]

\* self_check, assertion by assertion: keys ascend in every child array, a
\* separator is the last key of its child, and m_headbin and m_tailbin are
\* the first and the last child of the root.
SelfCheck ==
    IF HasRoot
    THEN /\ \A i \in DOMAIN children : Ascending(slotkey[children[i]])
         /\ \A i \in DOMAIN rootkey :
                slotkey[children[i]] # <<>> /\ rootkey[i] = Last(slotkey[children[i]])
         /\ headbin = children[1]
         /\ tailbin = children[Len(children)]
    ELSE headbin # NoBin => Ascending(slotkey[headbin]) /\ tailbin = headbin

\* The chain that scan walks and the root that find descends agree: linking
\* and unlinking in split and remove keep the chain equal to the root's
\* children, in order, and leak no array.
ChainMatchesRoot ==
    IF HasRoot
    THEN /\ live = {children[i] : i \in DOMAIN children}
         /\ \A i \in DOMAIN children :
            /\ prevbin[children[i]] = IF i = 1 THEN NoBin ELSE children[i - 1]
            /\ nextbin[children[i]] =
                   IF i = Len(children) THEN NoBin ELSE children[i + 1]
    ELSE /\ live = {headbin} \ {NoBin}
         /\ headbin # NoBin => /\ prevbin[headbin] = NoBin
                               /\ nextbin[headbin] = NoBin

\* As long as the root points to no freed array, everything has its type,
\* self_check passes and the chain is the root's: after any mix of splits,
\* borrowed keys and removals.
Structure == TypeOK /\ (Intact => SelfCheck /\ ChainMatchesRoot)

\* Every stored key is found where it is: the separators route it to the
\* array that holds it, whatever splits, moves and removals came before.
KeysAreRouted ==
    Intact =>
        \A b \in live : \A i \in DOMAIN slotkey[b] :
            \A slot \in 1 .. Len(rootkey) + 1, c \in live :
                RoutedTo(slotkey[b][i], slot, c) => c = b

\* When a bin asks to be retrained, resort finds a root (its assertion) whose
\* concatenated arrays ascend strictly (the assertion on the result), and
\* enough keys to train a model on.
Resorted == FoldLeft(LAMBDA acc, b : acc \o slotkey[b], <<>>, children)
RetrainInput ==
    is_retraining =>
        /\ HasRoot
        /\ Ascending(Resorted)
        /\ Len(Resorted) >= ChildSlotMax + RootSlotMax

\* scan from the routed child along nextbin: what it returns for n entries.
ScanFrom(key, b, n) ==
    LET Walk[i \in 0 .. Cardinality(Bin)] ==
            IF i = 0 THEN b
            ELSE IF Walk[i - 1] = NoBin THEN NoBin ELSE nextbin[Walk[i - 1]]
        Arrays == [i \in 1 .. Cardinality(Bin) |->
                      IF Walk[i - 1] = NoBin THEN <<>> ELSE slotkey[Walk[i - 1]]]
        All == FoldLeft(LAMBDA acc, s : acc \o s, <<>>, Arrays)
        from == CHOOSE cslot \in Lower(slotkey[b], key) : TRUE
    IN  SubSeq(All, from, IF from + n - 1 < Len(All) THEN from + n - 1 ELSE Len(All))

Stored == UNION {{slotkey[b][i] : i \in DOMAIN slotkey[b]} : b \in live}

\* Where the routed child has a key not below the start key, scan returns
\* the n smallest stored keys not below it, in order, and fewer only when
\* fewer are stored.
ScanIsExact ==
    Intact =>
        \A key \in Key, n \in 1 .. 3, b \in live :
            (/\ \E slot \in 1 .. Len(rootkey) + 1 : RoutedTo(key, slot, b)
             /\ \E i \in DOMAIN slotkey[b] : key <= slotkey[b][i])
            => LET out  == ScanFrom(key, b, n)
                   from == {k \in Stored : key <= k}
               IN  /\ Ascending(out)
                   /\ ToSet(out) \subseteq from
                   /\ Len(out) = IF Cardinality(from) < n THEN Cardinality(from) ELSE n
                   /\ \A k \in from : k \in ToSet(out) \/ \A o \in ToSet(out) : o < k

\* The map a bin stands for: for every key the entry a search for it ends at.
\* An allocated array that the root does not point to is reached by no search.
Reached(key, b) == \E slot \in 1 .. Len(rootkey) + 1 : RoutedTo(key, slot, b)
Holders(key) == {b \in live : (\E i \in DOMAIN slotkey[b] : slotkey[b][i] = key) /\ Reached(key, b)}
ValueIn(b, key) ==
    LET i == CHOOSE i \in DOMAIN slotkey[b] : slotkey[b][i] = key
    IN  slotdata[b][i]
Contents == [key \in Key |-> LET holders == Holders(key)
                            IN  IF holders = {} THEN NoVal
                                ELSE ValueIn(CHOOSE b \in holders : TRUE, key)]

Promise == INSTANCE BinMap
               WITH store <- Contents, retraining <- is_retraining, broken <- ~Intact

\* LevelBin implements BinMap: as long as the root points to no freed array
\* every result is the map's result, and no operation loses, invents or changes
\* an entry but the one it names; the remove that ends this, closing the gap
\* before the last array (RemoveChild), loses its own key and all greater ones.
\* No operation is modelled after that.
ImplementsMap == Promise!MapSpec
=============================================================================
