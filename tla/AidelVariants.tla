--------------------------- MODULE AidelVariants ---------------------------
(***************************************************************************)
(* Parts that could stand in for AIDEL's own: trees built in one pass or   *)
(* laid out for caches (ChtBuilders), the searches and levels of           *)
(* LevelIndex, and FINEdex's way from a key to a model                     *)
(* (include/finedex_impl.h).  They are compared with what AIDEL does, on   *)
(* the data it is trained with.                                            *)
(***************************************************************************)
EXTENDS Aidel, ChtBuilders, LevelIndex

\* find_model and scan of FINEdex.
FinedexModel(k) ==
    LET model_pos == Branchless(model_keys, k)
    IN  IF model_pos >= Len(aimodels) THEN Len(aimodels) - 1 ELSE model_pos

\* Tunings whose bins are one key wide in the last level, so that a bin with
\* more keys than the error is split and shifts stay above zero.  A range that
\* is a power of two has its last key outside the root.
Tunings ==
    LET lg == CeilLog(Last(keys) - keys[1])
    IN  {[keys |-> keys, log |-> log, shift |-> lg - log, error |-> error]
            : log \in {l \in 1 .. 3 : lg % l = 0 /\ l <= lg}, error \in 1 .. 2}

\* Each of the nodes 0 .. n - 1 is in one place.
IsOrderOf(order, n) == Len(order) = n /\ ToSet(order) = 0 .. n - 1

\* The single pass and the two phases of BuildOffline end with trees that send
\* a stored key to the same position, which the bound then contains; the
\* cache-oblivious layout has each node once and answers every lookup as
\* before, although it counts on the nodes of a subtree's level being
\* neighbours.
BuildersAgree ==
    pc = "train" /\ start = 0 /\ Len(keys) > 1 /\ ~PowerOfTwo(Last(keys) - keys[1]) =>
        \A c \in Tunings : \E offline \in {BuildOffline(c)} :
            /\ \E single \in {PruneAndFlatten(c)} : \A p \in 1 .. Len(keys) :
                  LET bound == GetSearchBound(c, single, keys[p])
                  IN  /\ Lookup(c, single, keys[p]) = Lookup(c, offline, keys[p])
                      /\ bound.begin <= p - 1 /\ p - 1 < bound.end
            /\ \E order \in {CacheObliviousOrder(offline)} :
                  /\ IsOrderOf(order, Len(offline))
                  /\ \E moved \in {CacheObliviousFlatten(offline, order)} :
                        \A k \in Key : Lookup(c, moved, k) = Lookup(c, offline, k)

\* Every search finds the first key that is not smaller, and so does an index
\* of one, two or three levels: the padding of the last page and of the last
\* entries never attracts a key.  FINEdex and AIDEL find the same model.
Biggest == MaxKey + 1
LevelsFind ==
    /\ pc = "train" /\ start = 0 =>
          \E zero \in {LevelIndexOf(keys, 4, Biggest)}, two \in {TwoLevelIndex(keys, 3, 1, Biggest)} :
             \E one \in {LevelIndexOf(keys, 2, Biggest)}, three \in {ThreeLevelIndex(keys, 2, 2, 1, Biggest)} :
                \A k \in {k \in Key : k <= Last(keys)} :
                    LET smaller == Smaller(keys, k)
                    IN  /\ Simple(keys, k) = smaller /\ Linear(keys, k) = smaller
                        /\ Len(keys) > 1 => Branchless(keys, k) = smaller
                        /\ LevelFind(zero, Len(keys), 2, k) = smaller
                        /\ LevelFind(one, Len(keys), 2, k) = smaller
                        /\ Len(keys) > 3 => FindIn(two, 1, k) = smaller
                        /\ Len(keys) > 4 => FindIn(three, 1, k) = smaller
    /\ pc = "ready" => \A k \in Key : FinedexModel(k) = FindModel(k)
=============================================================================
