--------------------------- MODULE SortedEntries ---------------------------
(***************************************************************************)
(* What the four facades of the B+ tree promise (include/stx/btree_set.h,  *)
(* btree_multiset.h, btree_map.h, btree_multimap.h): a sequence of entries *)
(* <<key, data>> sorted by key.  In a set or map a key occurs once.  With  *)
(* duplicates a new entry goes before the older ones of its key, and       *)
(* erase_one takes the first of them.                                      *)
(***************************************************************************)
EXTENDS Naturals, FiniteSets, SequencesExt

CONSTANTS Key, Data, NoData

VARIABLES
    dup,     \* may a key occur more than once?
    entries, \* the entries in iteration order
    answer   \* the last operation and what it returned

\* The operation answers res.
Answers(op, key, res) == answer' = [op |-> op, key |-> key, res |-> res]
Called(op, key) == answer'.op = op /\ answer'.key = key

\* The position of the first of the entries es whose key is not below key.
Lower(es, key) == Cardinality({i \in 1 .. Len(es) : es[i][1] < key}) + 1

Present(es, key) == \E i \in 1 .. Len(es) : es[i][1] = key

Insert(key, data) ==
    /\ Called("insert", key)
    /\ LET es == entries
           at == Lower(es, key)
           fresh == dup \/ ~Present(es, key)
       IN  /\ Answers("insert", key, IF dup THEN <<at>> ELSE <<at, fresh>>)
           /\ entries' = IF fresh THEN InsertAt(es, at, <<key, data>>) ELSE es

\* map[key] = data
Assign(key, data) ==
    /\ Called("assign", key)
    /\ ~dup
    /\ LET es == entries
           at == Lower(es, key)
       IN  /\ Answers("assign", key, at)
           /\ entries' = IF Present(es, key) THEN [es EXCEPT ![at] = <<key, data>>]
                         ELSE InsertAt(es, at, <<key, data>>)

EraseOne(key) ==
    /\ Called("erase_one", key)
    /\ LET es == entries
       IN  /\ Answers("erase_one", key, Present(es, key))
           /\ entries' = IF Present(es, key) THEN RemoveAt(es, Lower(es, key)) ELSE es

EraseAll(key) ==
    /\ Called("erase", key)
    /\ LET es == entries
           rest == SelectSeq(es, LAMBDA e : e[1] # key)
       IN  /\ Answers("erase", key, Len(es) - Len(rest))
           /\ entries' = rest

EraseAt(i) ==
    /\ answer'.op = "erase_iter" /\ answer'.res = i
    /\ LET es == entries
       IN  /\ Answers("erase_iter", es[i][1], i)
           /\ entries' = RemoveAt(es, i)

Clear ==
    /\ Answers("clear", NoData, TRUE)
    /\ entries' = <<>>

\* bulk_load fills a tree that is empty.
Load ==
    /\ Called("bulk_load", NoData)
    /\ entries = <<>>
    /\ Answers("bulk_load", NoData, entries')

\* Assignment from a copy, or a dump restored, changes nothing.
Same(op) ==
    /\ Answers(op, NoData, TRUE)
    /\ UNCHANGED entries

Init ==
    /\ LET es == entries
       IN  \A i \in 1 .. Len(es) - 1 :
              es[i][1] < es[i + 1][1] \/ (dup /\ es[i][1] = es[i + 1][1])
    /\ answer = [op |-> "none", key |-> NoData, res |-> TRUE]

Next ==
    /\ UNCHANGED dup
    /\ \/ \E key \in Key, data \in Data \cup {NoData} : Insert(key, data) \/ Assign(key, data)
       \/ \E key \in Key : EraseOne(key) \/ EraseAll(key)
       \/ \E i \in 1 .. Len(entries) : EraseAt(i)
       \/ Clear
       \/ Load
       \/ Same("copy") \/ Same("restore")

Spec == Init /\ [][Next]_<<dup, entries, answer>>
=============================================================================
