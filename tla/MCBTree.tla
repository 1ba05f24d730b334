------------------------------ MODULE MCBTree ------------------------------
(***************************************************************************)
(* Small instances of the B+ tree: leaves of 4 slots (with fewer, a leaf   *)
(* could run empty) and inner nodes of 2, 3 or 5, in trees of up to four   *)
(* levels whose nodes are full, at the minimum, or lopsided, so that one   *)
(* or two operations meet every case of splitting, merging and shifting.   *)
(***************************************************************************)
EXTENDS BTree

Ordered(n) == [i \in 1 .. n |-> <<i, NoData>>]
Repeated(n, times) == [i \in 1 .. n * times |-> <<(i + times - 1) \div times, i % 2>>]

\* The keys to erase from Ordered(n) to leave two in every leaf of four.
Thin(n) ==
    LET shares == Shares(Ordered(n), RoundUp(n, 4))
        Surplus(s) == [i \in 1 .. Len(s) - 2 |-> s[i + 2][1]]
    IN  FlattenSeq([i \in 1 .. Len(shares) |-> Surplus(shares[i])])

SomeKeys == 1 .. 46

Start(k, inner, load, erase, keys, ops) ==
    [kind |-> k, leafslots |-> 4, innerslots |-> inner, load |-> load, erase |-> erase,
     keys |-> keys, ops |-> ops]

\* The last two: one more merge on the smaller side of two inner nodes makes
\* it take two children at once from the other.
SomeStarts ==
    { Start("map", 2, <<>>, <<>>, 1 .. 3, 3),
      Start("set", 2, Ordered(9), <<2, 4, 5>>, 1 .. 10, 2),
      Start("multiset", 2, Ordered(36), <<>>, 1 .. 36, 1),
      Start("multiset", 3, Ordered(16), <<>>, 1 .. 16, 2),
      Start("set", 2, Ordered(37), Thin(37), 1 .. 38, 2),
      Start("set", 2, Ordered(30), Thin(30), 1 .. 30, 1),
      Start("set", 3, Ordered(24), Thin(24), 1 .. 25, 2),
      Start("multimap", 2, Repeated(3, 6), <<>>, 1 .. 4, 2),
      Start("set", 5, Ordered(45), Thin(45) \o <<1, 2, 4, 5, 7, 8>>, 1 .. 46, 1),
      Start("set", 5, Ordered(45), Thin(45) \o <<43, 42, 39, 38, 35, 34>>, 1 .. 46, 1) }
=============================================================================
