------------------------------ MODULE BinMap ------------------------------
(***************************************************************************)
(* What a level bin promises its caller (include/level_bin_con.h, class    *)
(* LevelBinCon as AidelModel uses it): a map from keys to values whose     *)
(* operations answer ok, failed or retrain.  An insert may answer retrain  *)
(* at any time instead of inserting; from then on the bin is read-only:    *)
(* insert fails and the other operations answer retrain.                   *)
(*                                                                         *)
(* The code keeps less than a map: a remove may forget, with the key it    *)
(* names, every greater key (MapForget).  That ends the promise: nothing   *)
(* is said of what a bin does afterwards.                                  *)
(***************************************************************************)
EXTENDS Integers

CONSTANTS Key, Val, NoVal

VARIABLES
    store,      \* the map: a value, or NoVal for a key that is absent
    retraining, \* the bin has asked to be replaced by a model
    broken,     \* a remove has forgotten keys it did not name
    ret         \* the last operation and what it returned

mapVars == <<store, retraining, broken, ret>>

Answer(op, key, val, res) == [op |-> op, key |-> key, val |-> val, res |-> res]

MapInit ==
    /\ store = [k \in Key |-> NoVal]
    /\ retraining = FALSE
    /\ broken = FALSE
    /\ ret = Answer("none", NoVal, NoVal, "ok")

Absent(key) == store[key] = NoVal

MapInsert(key, val) ==
    \/ /\ ret' = Answer("insert", key, val, "ok")
       /\ ~retraining /\ Absent(key)
       /\ store' = [store EXCEPT ![key] = val]
       /\ UNCHANGED retraining
    \/ /\ ret' = Answer("insert", key, val, "failed")
       /\ retraining \/ ~Absent(key)
       /\ UNCHANGED <<retraining, store>>
    \/ /\ ret' = Answer("insert", key, val, "retrain")
       /\ ~retraining /\ retraining'
       /\ UNCHANGED store

MapFind(key) ==
    /\ \/ ret' = Answer("find", key, NoVal, "retrain") /\ retraining
       \/ ret' = Answer("find", key, NoVal, "failed") /\ ~retraining /\ Absent(key)
       \/ /\ ret'.op = "find" /\ ret'.key = key
          /\ ~retraining /\ ~Absent(key)
          /\ ret' = Answer("find", key, store[key], "ok")
    /\ UNCHANGED <<retraining, store>>

MapUpdate(key, val) ==
    \/ /\ ret' = Answer("update", key, val, "retrain") /\ retraining
       /\ UNCHANGED <<retraining, store>>
    \/ /\ ret' = Answer("update", key, val, "failed") /\ ~retraining
       /\ Absent(key)
       /\ UNCHANGED <<retraining, store>>
    \/ /\ ret' = Answer("update", key, val, "ok") /\ ~retraining
       /\ ~Absent(key)
       /\ store' = [store EXCEPT ![key] = val]
       /\ UNCHANGED retraining

MapRemove(key) ==
    \/ /\ ret' = Answer("remove", key, NoVal, "retrain") /\ retraining
       /\ UNCHANGED <<retraining, store>>
    \/ /\ ret' = Answer("remove", key, NoVal, "failed") /\ ~retraining
       /\ Absent(key)
       /\ UNCHANGED <<retraining, store>>
    \/ /\ ret' = Answer("remove", key, NoVal, "ok") /\ ~retraining
       /\ ~Absent(key)
       /\ store' = [store EXCEPT ![key] = NoVal]
       /\ UNCHANGED retraining

\* A remove that forgets every greater key with its own.
MapForget(key) ==
    /\ ret' = Answer("remove", key, NoVal, "ok") /\ ~retraining
    /\ ~Absent(key)
    /\ store' = [k \in Key |-> IF key <= k THEN NoVal ELSE store[k]]
    /\ UNCHANGED retraining

Operate(key) ==
    \/ MapFind(key)
    \/ MapRemove(key)
    \/ \E val \in Val : MapInsert(key, val) \/ MapUpdate(key, val)

MapNext ==
    \E key \in Key :
        /\ ret'.key = key
        /\ ~broken
        /\ IF broken' THEN MapForget(key) ELSE Operate(key)

MapSpec == MapInit /\ [][MapNext]_mapVars
=============================================================================
