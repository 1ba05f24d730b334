----------------------------- MODULE AidelScan -----------------------------
(***************************************************************************)
(* AidelModel::scan (include/aidel_model_impl.h) on the states that the    *)
(* calls of AidelModel pass through.  It walks arrays, slots, bins and     *)
(* nested models without a lock, and looks neither at valid_flag nor at    *)
(* is_retraining; here it does so at one moment, between any two steps of  *)
(* the other calls, and is never short of room (remaining > 0).  What it   *)
(* pushes is reduced to the keys.                                          *)
(*                                                                         *)
(* LevelBinCon::scan pushes the entry at find_lower before it looks        *)
(* whether there is one (lines 1277-1279): of a bin with nothing from the  *)
(* start key on, a fresh one too, it pushes what lies behind the last.     *)
(* Stray stands for it; a bin whose last array was given back pushes       *)
(* nothing, and no property looks at strays.                               *)
(***************************************************************************)
EXTENDS AidelModel

Stray == Top

Ascending(keys) == SetToSortSeq(keys, LAMBDA k, l : k < l)

\* The position of the key, or of the greatest one below it, or 0.
Predict(m, from) ==
    LET below == GapOf(m, from)
    IN  IF from \in arr[m] \/ below = 0 THEN below ELSE below - 1

ScanBin(b, from) ==
    LET rest == {k \in Keys(b) : k >= from}
    IN  IF rest = {} THEN <<Stray>> ELSE Ascending(rest)

\* keys[pos], if there is one and it is not below the start key.
ScanArray(m, pos, from) == SetToSeq({k \in arr[m] : GapOf(m, k) = pos /\ k >= from})

\* Fault: the slot behind the last key of the array is left out.
PositionsInArray(m, from) ==
    [i \in 1 .. Cardinality(arr[m]) - Predict(m, from) |-> Predict(m, from) + i - 1]

\* pos <= capacity: there is a slot behind the last key.
Positions(m, from) ==
    [i \in 1 .. Cardinality(arr[m]) + 1 - Predict(m, from) |-> Predict(m, from) + i - 1]

\* What scan(from) pushes in each model: a key of the array goes before the
\* slot in front of it.
Scan(from) ==
    LET Pushed[m \in Model] ==
            LET Slotted(b) == IF b = NoMob THEN <<>> ELSE IF isbin[b] THEN ScanBin(b, from) ELSE Pushed[b]
            IN  FoldLeft(LAMBDA result, pos : result \o ScanArray(m, pos, from) \o Slotted(mobs[m][pos]),
                         <<>>, Positions(m, from))
    IN  Pushed[Top]

\* The key is in the array of the model its search ends in.
Trained(k) == k \in arr[Leaf(k)]

\* A scan pushes every key from its start on that a find would find, and each
\* once, at any moment between the steps of inserts, removals and retrainings;
\* beside them it pushes the trained keys that were removed, whose flag it
\* does not read, and strays.  The walk over slots and the search for a key
\* are two ways through the same tree, which have to lead to the same keys.
ScanMeetsKeys ==
    LET there == {k \in Key : Holds(k) # NoVal \/ Trained(k)}
    IN  ~lost => \A from \in Key :
            LET keys == SelectSeq(Scan(from), LAMBDA k : k # Stray)
            IN  IsInjective(keys) /\ ToSet(keys) = {k \in there : k >= from}
=============================================================================
