----------------------------- MODULE LevelIndex -----------------------------
(***************************************************************************)
(* The searches of include/util.h and the index of include/levelindex.h    *)
(* that is built from them: sorted keys in pages, padded with the largest  *)
(* key, under one or two levels of the pages' last keys.                   *)
(*                                                                         *)
(* arr[0 .. n - 1] is a sequence of which the first key is number 1; what  *)
(* a search answers counts from 0.                                         *)
(***************************************************************************)
EXTENDS Integers, Sequences, SequencesExt, FiniteSets, FiniteSetsExt

At(arr, i) == arr[i + 1]

\* Any of the searches promises this: how many keys are smaller.
Smaller(arr, key) == Cardinality({i \in 1 .. Len(arr) : arr[i] < key})

Simple(arr, key) ==
    LET Between[left \in -1 .. Len(arr), right \in 0 .. Len(arr)] ==
            LET middle == (left + right) \div 2
            IN  IF right - left <= 1 THEN right
                ELSE IF At(arr, middle) < key THEN Between[middle, right] ELSE Between[left, middle]
    IN  Between[-1, Len(arr)]

\* The number of halvings is fixed beforehand.  One key is not to be searched:
\* the highest bit of n - 1 is undefined then.
Branchless(arr, key) ==
    LET n    == Len(arr)
        step == Max({2 ^ k : k \in {j \in 0 .. n : 2 ^ j <= n - 1}})
        Try(pos, to) == IF At(arr, to) < key THEN to ELSE pos
        Halve[s \in 0 .. n, pos \in -1 .. n] ==
            IF s = 0 THEN pos + 1 ELSE Halve[s \div 2, Try(pos, pos + s)]
        found == Halve[step \div 2, Try(-1, n - 1 - step)]
    IN  IF At(arr, found) >= key THEN found ELSE n

Linear(arr, key) == Min({i \in 0 .. Len(arr) : i < Len(arr) => At(arr, i) >= key})

\* Fault: keys that are equal are counted.
CountNotLarger(arr, from, n, lanes, key) ==
    LET end == from + ((n + lanes - 1) \div lanes) * lanes
    IN  Cardinality({i \in from .. end - 1 : At(arr, i) <= key})

\* linear_search_avx counts the smaller of n keys from a place on, a vector of
\* lanes at a time: it reads on to the end of the last vector.
CountSmaller(arr, from, n, lanes, key) ==
    LET end == from + ((n + lanes - 1) \div lanes) * lanes
    IN  Cardinality({i \in from .. end - 1 : At(arr, i) < key})

-----------------------------------------------------------------------------
(* The index.  Its lowest level, fan[0 ..] in sequences of fan-outs above  *)
(* it, has the last key of each page; each level above has the last key of *)
(* every fan-out of the level below.                                       *)

RoundUpTo(n, by) == ((n + by - 1) \div by) * by

Padded(data, n, biggest) == data \o [i \in 1 .. n - Len(data) |-> biggest]

Product(fan) == FoldLeft(LAMBDA p, k : p * k, 1, fan)

\* Level l has the last keys of as many pages as a group of it spans; level 1
\* is searched by bisection.
Levels(data, fan, page, biggest) ==
    LET top  == RoundUpTo(Len(data), Product(fan) * page) \div (Product(fan) * page)
        Span(l) == page * Product(SubSeq(fan, l, Len(fan)))
        Entry(l, i) == IF i * Span(l) > Len(data) THEN biggest ELSE data[i * Span(l)]
    IN  [l \in 1 .. Len(fan) + 1 |->
            [i \in 1 .. top * Product(SubSeq(fan, 1, l - 1)) |-> Entry(l, i)]]

MultiLevel(data, fan, page, biggest) ==
    [page |-> page, fan |-> fan, levels |-> Levels(data, fan, page, biggest),
     data |-> Padded(data, RoundUpTo(Len(data), page), biggest)]

\* The group found in a level is where the next is searched, the last the page.
FindIn(x, lanes, key) ==
    LET Below(group, l) ==
            group * x.fan[l] + CountSmaller(x.levels[l + 1], group * x.fan[l], x.fan[l], lanes, key)
        page == FoldLeft(Below, Branchless(x.levels[1], key), [l \in 1 .. Len(x.fan) |-> l])
    IN  page * x.page + CountSmaller(x.data, page * x.page, x.page, lanes, key)

TwoLevelIndex(data, k2, page, biggest)       == MultiLevel(data, <<k2>>, page, biggest)
ThreeLevelIndex(data, k2, k3, page, biggest) == MultiLevel(data, <<k2, k3>>, page, biggest)

\* A page needs no level; as many pages as a page has keys need one.
LevelIndexOf(data, page, biggest) ==
    MultiLevel(data, IF Len(data) <= page * page THEN <<>> ELSE <<page>>, page, biggest)

LevelFind(x, capacity, lanes, key) ==
    IF capacity <= x.page THEN CountSmaller(x.data, 0, x.page, lanes, key) ELSE FindIn(x, lanes, key)
=============================================================================
