------------------------------- MODULE Aidel --------------------------------
(***************************************************************************)
(* AIDEL above its models (include/aidel_impl.h): training cuts the sorted *)
(* keys into chunks of learning_step, gives each a model and builds a      *)
(* compact history tree over the models' last keys; an operation asks the  *)
(* tree for its model, a scan searches the keys by bisection.              *)
(*                                                                         *)
(* A model is the sequence of keys it was trained with: what becomes of it *)
(* later is AidelModel's.  Neither model_keys nor the tree ever change     *)
(* after training, so where a key is looked for is settled here.           *)
(***************************************************************************)
EXTENDS Cht, SequencesExt

CONSTANTS
    Key,            \* the keys that may be trained
    MaxKey,         \* the largest key anyone asks for
    LearningStep,   \* learning_step, 10000 in the code
    LogBins,        \* 7 in the code, numBins being 128
    MaxError,       \* maxError, 1 in the code
    MaxScan,        \* bound: entries asked of a scan
    MaxNodes        \* bound: nodes of a tree, more than any tree needs
ASSUME TrainingAssumption ==
    /\ Key \subseteq 0 .. MaxKey /\ IsFiniteSet(Key)
    /\ LearningStep \in Nat \ {0}
    /\ {LogBins, MaxError, MaxScan, MaxNodes} \subseteq Nat

VARIABLES
    pc,             \* where training, or the scan after it, is
    keys,           \* the training data
    start, end,     \* the current chunk
    model_keys,     \* last key of each model
    aimodels,       \* the keys each model was trained with
    shift, tree,    \* of the builder: shift_ and tree_
    at,             \* node at the head of the builder's queue
    key, remaining, result  \* of the scan that is under way
vars == <<pc, keys, start, end, model_keys, aimodels, shift, tree, at, key, remaining, result>>
training == <<keys, start, end, model_keys, aimodels>>
scanning == <<key, remaining, result>>

Builder == [keys |-> model_keys, log |-> LogBins, shift |-> shift, error |-> MaxError]

Sorted(K) == [p \in 1 .. Cardinality(K) |-> CHOOSE k \in K : Cardinality({j \in K : j <= k}) = p]

Init ==
    /\ keys \in {Sorted(K) : K \in (SUBSET Key) \ {{}}}
    /\ pc = "train" /\ start = 0 /\ model_keys = <<>> /\ aimodels = <<>>
    /\ end = IF LearningStep < Len(keys) THEN LearningStep ELSE Len(keys)
    /\ shift = 0 /\ tree = <<>> /\ at = 0
    /\ key = 0 /\ remaining = 0 /\ result = <<>>

-----------------------------------------------------------------------------
(* Training. *)

PowerOfTwo(n) == \E k \in 0 .. WordBits : n = 2 ^ k

Chunk == SubSeq(keys, start + 1, end)

\* Fault: the first key of the chunk stands for the model.
FirstOfChunk == keys[start + 1]
ModelKey == keys[end]

NextEnd == IF end + LearningStep >= Len(keys) THEN Len(keys) ELSE end + LearningStep

\* The builder of PlexModel's spline asserts that its keys span a range, and
\* counts common prefixes outside its array if that is a power of two (Plex,
\* which also shows chunks it never ends with: those are left out here).
Outcome(chunk) ==
    IF Len(chunk) = 1 THEN "aborted"
    ELSE IF PowerOfTwo(Last(chunk) - chunk[1]) THEN "undefined"
    ELSE "train"

TrainModel ==
    /\ pc = "train" /\ start < end
    /\ pc' = Outcome(Chunk)
    /\ IF pc' = "train"
       THEN /\ model_keys' = Append(model_keys, ModelKey)
            /\ aimodels'   = Append(aimodels, Chunk)
            /\ start' = end
            /\ end'   = NextEnd
       ELSE UNCHANGED <<model_keys, aimodels, start, end>>
    /\ UNCHANGED <<keys, shift, tree, at>> /\ UNCHANGED scanning

Models == /\ pc = "train" /\ start >= end
          /\ pc' = "tree"
          /\ UNCHANGED <<shift, tree, at>> /\ UNCHANGED training /\ UNCHANGED scanning

\* max1 - min1
Range1 == Last(model_keys) - model_keys[1]

\* The constructor's assertions, all keys added, and the root.
StartTree ==
    /\ pc = "tree" /\ tree = <<>>
    /\ IF Range1 = 0 \/ CeilLog(Range1) < LogBins
       THEN pc' = "aborted" /\ UNCHANGED <<shift, tree>>
       ELSE LET c == [Builder EXCEPT !.shift = CeilLog(Range1) - LogBins] IN
            /\ shift' = c.shift
            /\ IF Fits(c, 0, 0, 0, Len(model_keys))
               THEN pc' = pc /\ tree' = <<Root(c)>>
               ELSE pc' = "undefined" /\ tree' = tree
    /\ UNCHANGED at /\ UNCHANGED training /\ UNCHANGED scanning

Split == /\ pc = "tree" /\ tree # <<>> /\ at < Len(tree) /\ Len(tree) <= MaxNodes
         /\ tree' = SplitNode(Builder, tree, at + 1)
         /\ at' = at + 1
         /\ UNCHANGED <<pc, shift>> /\ UNCHANGED training /\ UNCHANGED scanning

\* Flatten copies the tree as it is.
Finish == /\ pc = "tree" /\ tree # <<>> /\ at = Len(tree)
          /\ pc' = "ready"
          /\ UNCHANGED <<shift, tree, at>> /\ UNCHANGED training /\ UNCHANGED scanning

-----------------------------------------------------------------------------
(* Use.  Models count from 0 as in the code. *)

\* Three entries from the bound's begin are looked at; the last model takes
\* what none of them does.
FindModel(k) ==
    LET begin == GetSearchBound(Builder, tree, k).begin
        hits  == {p \in begin .. begin + 2 : p < Len(model_keys) /\ model_keys[p + 1] >= k}
    IN  IF hits = {} THEN Len(model_keys) - 1 ELSE CHOOSE p \in hits : \A q \in hits : p <= q

\* binary_search_branchless over model_keys, of which there are two or more.
Bisect(k) ==
    LET n     == Len(model_keys)
        step  == 2 ^ FloorLog(n - 1)
        first == IF model_keys[n - step] < k THEN n - step - 1 ELSE -1
        From[s \in Nat, pos \in Int] ==
            IF s = 0 THEN pos + 1
            ELSE From[s \div 2, IF model_keys[pos + s + 1] < k THEN pos + s ELSE pos]
        found == From[step \div 2, first]
    IN  IF model_keys[found + 1] >= k THEN found ELSE n

ScanModel(k) == IF Bisect(k) >= Len(aimodels) THEN Len(aimodels) - 1 ELSE Bisect(k)

\* Fault: the first key itself is left out.
FromAfterKey(m, k) == SelectSeq(aimodels[m + 1], LAMBDA e : e > k)

\* What the scan of a model, as it was trained, has to give.
FromKey(m, k) == SelectSeq(aimodels[m + 1], LAMBDA e : e >= k)

Scan(k, n) == /\ pc = "ready"
              /\ pc' = "scan" /\ key' = k /\ remaining' = n /\ result' = <<>>
              /\ UNCHANGED <<shift, tree, at>> /\ UNCHANGED training

\* One turn of the loop, which asks the same model again and again.
ScanOn ==
    /\ pc = "scan" /\ remaining > 0
    /\ LET found == FromKey(ScanModel(key), key)
           taken == SubSeq(found, 1, IF remaining < Len(found) THEN remaining ELSE Len(found))
       IN  result' = result \o taken /\ remaining' = remaining - Len(taken)
    /\ UNCHANGED <<pc, shift, tree, at, key>> /\ UNCHANGED training

ScanReturns == /\ pc = "scan" /\ remaining = 0
               /\ pc' = "ready" /\ key' = 0 /\ result' = <<>>
               /\ UNCHANGED <<shift, tree, at, remaining>> /\ UNCHANGED training

Train == TrainModel \/ Models \/ StartTree \/ Split \/ Finish
Next  == Train \/ ScanOn \/ ScanReturns
         \/ \E k \in Key \cup {MaxKey}, n \in 1 .. MaxScan : Scan(k, n)

Spec     == Init /\ [][Next]_vars
FairSpec == Spec /\ WF_vars(Train) /\ WF_vars(ScanOn \/ ScanReturns)

-----------------------------------------------------------------------------
(* Properties. *)

\* Everything keeps its type, chunks stay within the data, bins within their
\* node, and every pointer of the tree leads to a later node.
TypeOK ==
    /\ pc \in {"train", "tree", "ready", "scan", "aborted", "undefined"}
    /\ start \in 0 .. Len(keys) /\ end \in start .. Len(keys)
    /\ Len(model_keys) = Len(aimodels)
    /\ at \in 0 .. Len(tree)
    /\ remaining \in 0 .. MaxScan /\ Len(result) <= MaxScan
    /\ \A n \in 1 .. Len(tree) : \A b \in DOMAIN tree[n].bins :
          LET bin == tree[n].bins[b] IN
          IF n <= at /\ ~bin.leaf THEN bin.second \in n .. Len(tree) - 1
          ELSE bin.first <= bin.second /\ bin.second <= Len(model_keys)

\* How many models end before k: the first that may hold it.
LowerBound(k) == Cardinality({p \in 1 .. Len(model_keys) : model_keys[p] < k})

\* GetSearchBound: the bound contains the position of every key, stored or not
\* (cht/cht.h, "Returns a search bound around the estimated position"), and
\* chunks, bins and nodes stay within what they are parts of.
SearchBoundHolds ==
    /\ TypeOK
    /\ pc = "ready" => \A k \in 0 .. MaxKey :
        LET bound == GetSearchBound(Builder, tree, k)
        IN  bound.begin <= LowerBound(k) /\ LowerBound(k) <= bound.end

\* find_model: every trained key is looked for in the one model that was
\* trained with it, although the tree knows the last key of each chunk only.
\* scan takes a different way to a model and must agree for every key: else a
\* scan from a key misses what an insert of that key has added.
KeysFindTheirModel ==
    pc = "ready" =>
        /\ \A p \in 1 .. Len(keys) : \A m \in 1 .. Len(aimodels) :
              keys[p] \in ToSet(aimodels[m]) <=> FindModel(keys[p]) = m - 1
        /\ \A k \in 0 .. MaxKey : ScanModel(k) = FindModel(k)

\* AIDEL::scan: if the model of the first key holds enough entries from there
\* on, the result is the next entries of the whole index in ascending order.
ScanIsExact ==
    pc = "scan" /\ Len(result) + remaining <= Len(FromKey(ScanModel(key), key)) =>
        result = SubSeq(SelectSeq(keys, LAMBDA e : e >= key), 1, Len(result))

\* Training ends, however close the last keys of two models are, and a scan
\* ends unless its model has nothing from the first key on.
CallsEnd ==
    /\ <>(pc \in {"ready", "aborted", "undefined"})
    /\ (pc = "scan" /\ FromKey(ScanModel(key), key) # <<>>) ~> pc = "ready"
=============================================================================
