----------------------------- MODULE AidelModel -----------------------------
(***************************************************************************)
(* AidelModel (include/aidel_model_impl.h, aidel_model.h): a trained array *)
(* of keys, and between each two of them a slot that holds nothing, a bin  *)
(* or, once the bin was retrained, a further AidelModel.  Threads call     *)
(* con_find_retrain, con_insert_retrain, update and remove.  Entries of    *)
(* the array are read and written without a lock; a slot is locked         *)
(* (model_or_bin::lock) before its bin or model is used, and the locks of  *)
(* the enclosing slots stay held below it.                                 *)
(*                                                                         *)
(* A bin is used as the map BinMap promises (LevelBin implements it), and  *)
(* predict as finding the first array key not below the key.               *)
(***************************************************************************)
EXTENDS Integers, Sequences, FiniteSets, SequencesExt

CONSTANTS
    Thread, NoThread,
    Key, Val, NoVal,
    Mob,          \* model_or_bin records: one per slot that was ever used
    NoMob,        \* the null pointer
    Top,          \* the model AIDEL::find_model chose
    ArrayKeys,    \* the keys Top was trained on
    RetrainMin,   \* a bin with fewer keys never asks to be retrained
    MaxOps        \* bound: calls a thread makes

ASSUME KeysAssumption == Key \subseteq Int /\ IsFiniteSet(Key) /\ ArrayKeys \subseteq Key
ASSUME NullsAssumption ==
    NoMob \notin Mob /\ Top \notin Mob /\ NoThread \notin Thread /\ NoVal \notin Val
ASSUME MobAssumption == IsFiniteSet(Mob)
ASSUME BoundsAssumption == RetrainMin \in Nat \ {0} /\ MaxOps \in Nat

Model == Mob \cup {Top}
Gap   == 0 .. Cardinality(Key)

\* The operations of a caller.
Ops == {"find", "insert", "update", "remove"}

VARIABLES
    arr,        \* model -> the keys of its array
    valid,      \* model -> the array keys whose valid_flag is set
    vals,       \* model -> array key -> value
    mobs,       \* model -> gap -> the record in the slot
    isbin,      \* record -> it holds a bin (else the model of the same name)
    bin,        \* record -> the contents of its bin
    retraining, \* record -> is_retraining of its bin
    owner,      \* record -> the thread that locked it
    used,       \* records allocated
    pc, call, cur, mob, held, res,       \* the threads
    done,       \* calls a thread has completed
    seen,       \* history: states of the called key during the call
    lost        \* history: a slot in use was overwritten

memory  == <<arr, valid, vals, mobs, isbin, bin, retraining, owner, used>>
entries == <<arr, valid, vals>>
slots   == <<mobs, isbin, bin, retraining, owner, used>>
local   == <<pc, call, cur, mob, held, res, done>>
vars    == <<memory, local, seen, lost>>

Empty == [k \in Key |-> NoVal]
Idle  == [op |-> "find", key |-> NoVal, val |-> NoVal]
Keys(m) == {k \in Key : bin[m][k] # NoVal}

-----------------------------------------------------------------------------
(* What the index holds for a key: follow the slots down from Top. *)

\* The gap of a model an absent key belongs to: bin_pos.
GapOf(m, key) == Cardinality({k \in arr[m] : k < key})

\* The search goes on in the model below, or ends in this one.
Below(m, key) ==
    LET next == mobs[m][GapOf(m, key)]
    IN  IF key \in arr[m] \/ next = NoMob THEN m
        ELSE IF isbin[next] THEN m ELSE next

\* The model whose array, empty slot or bin decides about the key.
Leaf(key) ==
    LET below == [m \in Model |-> Below(m, key)]
        Down[d \in 0 .. Cardinality(Mob)] == IF d = 0 THEN Top ELSE below[Down[d - 1]]
    IN  Down[Cardinality(Mob)]

Holds(key) ==
    LET m == Leaf(key)
        b == mobs[m][GapOf(m, key)]
    IN  IF key \in arr[m] THEN IF key \in valid[m] THEN vals[m][key] ELSE NoVal
        ELSE IF b = NoMob THEN NoVal ELSE bin[b][key]

-----------------------------------------------------------------------------
\* Top is freshly trained, or an earlier phase removed some of its keys and
\* put some keys into the first slot.
Init ==
    /\ arr = [m \in Model |-> IF m = Top THEN ArrayKeys ELSE {}]
    /\ \E gone \in SUBSET ArrayKeys :
            valid = [m \in Model |-> IF m = Top THEN ArrayKeys \ gone ELSE {}]
    /\ \E v \in Val : vals = [m \in Model |-> [k \in Key |-> IF m = Top THEN v ELSE NoVal]]
    /\ isbin = [m \in Mob |-> TRUE]
    /\ retraining = [m \in Mob |-> FALSE]
    /\ owner = [m \in Mob |-> NoThread]
    /\ \/ /\ mobs = [m \in Model |-> [g \in Gap |-> NoMob]]
          /\ bin = [m \in Mob |-> Empty]
          /\ used = {}
       \/ \E b \in Mob, v \in Val, early \in SUBSET {k \in Key : \A a \in ArrayKeys : k < a} :
          /\ mobs = [m \in Model |-> [g \in Gap |-> IF m = Top /\ g = 0 THEN b ELSE NoMob]]
          /\ bin = [m \in Mob |-> [k \in Key |-> IF m = b /\ k \in early THEN v ELSE NoVal]]
          /\ used = {b}
    /\ pc = [t \in Thread |-> "idle"]
    /\ call = [t \in Thread |-> Idle]
    /\ cur = [t \in Thread |-> Top]
    /\ mob = [t \in Thread |-> NoMob]
    /\ held = [t \in Thread |-> <<>>]
    /\ res = [t \in Thread |-> "none"]
    /\ done = [t \in Thread |-> 0]
    /\ seen = [t \in Thread |-> {}]
    /\ lost = FALSE

key(t) == call[t].key
GoTo(t, label) == pc' = [pc EXCEPT ![t] = label]
Finish(t, r)   == GoTo(t, "unlock") /\ res' = [res EXCEPT ![t] = r]

Now(t) == Holds(key(t))

\* History: every running call sees the state its key is in after the step.
Witness ==
    seen' = [t \in Thread |-> IF pc'[t] = "idle" THEN {}
                              ELSE seen[t] \cup {Now(t)'}]

Call(t) ==
    /\ pc[t] = "idle" /\ done[t] < MaxOps
    /\ \E op \in Ops, k \in Key, v \in Val :
        call' = [call EXCEPT ![t] =
            [op |-> op, key |-> k,
             val |-> IF op \in {"insert", "update"} THEN v ELSE NoVal]]
    /\ GoTo(t, "start")
    /\ UNCHANGED <<memory, cur, mob, held, res, done, lost>>

-----------------------------------------------------------------------------
(* An array entry. *)

InArray(t) == key(t) \in arr[cur[t]]

\* Fault for AnswersAreTrue: find ignores valid_flag.
ReadFlagOfOthers(t) ==
    /\ pc[t] = "start" /\ InArray(t)
    /\ LET set == key(t) \in valid[cur[t]] \/ call[t].op = "find"
           op  == call[t].op
       IN  \/ /\ set = (op = "insert")
              /\ Finish(t, "failed")
           \/ /\ set # (op = "insert")
              /\ GoTo(t, CASE op = "find"   -> "read"
                           [] op = "update" -> "write"
                           [] op = "insert" -> "revive"
                           [] op = "remove" -> "clear")
              /\ UNCHANGED res
    /\ UNCHANGED <<memory, call, cur, mob, held, done, lost>>

ReadFlag(t) ==
    /\ pc[t] = "start" /\ InArray(t)
    /\ LET set == key(t) \in valid[cur[t]]
           op  == call[t].op
       IN  \/ /\ set = (op = "insert")
              /\ Finish(t, "failed")
           \/ /\ set # (op = "insert")
              /\ GoTo(t, CASE op = "find"   -> "read"
                           [] op = "update" -> "write"
                           [] op = "insert" -> "revive"
                           [] op = "remove" -> "clear")
              /\ UNCHANGED res
    /\ UNCHANGED <<memory, call, cur, mob, held, done, lost>>

\* find: val = vals[pos]
ReadValue(t) ==
    /\ pc[t] = "read"
    /\ Finish(t, "ok")
    /\ UNCHANGED <<memory, call, cur, mob, held, done, lost>>

\* insert: valid_flag[pos] = true; vals[pos] = val.  Nothing orders the two
\* plain stores: the flag may be written first or last.
SetFlag(t) ==
    /\ \/ pc[t] = "revive" /\ GoTo(t, "write") /\ UNCHANGED res
       \/ pc[t] = "flag" /\ Finish(t, "ok")
    /\ valid' = [valid EXCEPT ![cur[t]] = @ \cup {key(t)}]
    /\ UNCHANGED <<arr, vals, slots, call, cur, mob, held, done, lost>>

WriteValue(t) ==
    /\ \/ pc[t] = "write" /\ Finish(t, "ok")
       \/ pc[t] = "revive" /\ GoTo(t, "flag") /\ UNCHANGED res
    /\ vals' = [vals EXCEPT ![cur[t]][key(t)] = call[t].val]
    /\ UNCHANGED <<arr, valid, slots, call, cur, mob, held, done, lost>>

\* remove: valid_flag[pos] = false
ClearFlag(t) ==
    /\ pc[t] = "clear"
    /\ valid' = [valid EXCEPT ![cur[t]] = @ \ {key(t)}]
    /\ Finish(t, "ok")
    /\ UNCHANGED <<arr, vals, slots, call, cur, mob, held, done, lost>>

-----------------------------------------------------------------------------
(* A slot. *)

Slot(t) == mobs[cur[t]][GapOf(cur[t], key(t))]

ReadSlot(t) ==
    /\ pc[t] = "start" /\ ~InArray(t)
    /\ Slot(t) # NoMob
    /\ mob' = [mob EXCEPT ![t] = Slot(t)]
    /\ GoTo(t, "lock")
    /\ UNCHANGED <<memory, call, cur, held, res, done, lost>>

MissSlot(t) ==
    /\ pc[t] = "start" /\ ~InArray(t)
    /\ Slot(t) = NoMob /\ call[t].op # "insert"
    /\ Finish(t, "failed")
    /\ UNCHANGED <<memory, call, cur, mob, held, done, lost>>

\* insert: a new record with a new bin, locked before anyone can see it.
NewSlot(t) ==
    /\ pc[t] = "start" /\ ~InArray(t)
    /\ Slot(t) = NoMob /\ call[t].op = "insert"
    /\ \E m \in Mob \ used :
        /\ used' = used \cup {m}
        /\ owner' = [owner EXCEPT ![m] = t]
        /\ mob' = [mob EXCEPT ![t] = m]
    /\ GoTo(t, "recheck")
    /\ UNCHANGED <<entries, mobs, isbin, bin, retraining, call, cur, held, res, done, lost>>

\* Fault for TypeOK: the record is deleted before the check, and published.
DeleteFirst(t) ==
    /\ pc[t] = "recheck"
    /\ used' = used \ {mob[t]}
    /\ IF Slot(t) = NoMob
       THEN GoTo(t, "publish") /\ UNCHANGED <<owner, mob>>
       ELSE /\ GoTo(t, "start")
            /\ owner' = [owner EXCEPT ![mob[t]] = NoThread]
            /\ mob' = [mob EXCEPT ![t] = NoMob]
    /\ UNCHANGED <<entries, mobs, isbin, bin, retraining, call, cur, held, res, done, lost>>

\* if(mobs[bin_pos]) { delete mob; return insert_model_or_bin(...); }
Recheck(t) ==
    /\ pc[t] = "recheck"
    /\ IF Slot(t) = NoMob
       THEN GoTo(t, "publish") /\ UNCHANGED <<used, owner, mob>>
       ELSE /\ GoTo(t, "start")
            /\ used' = used \ {mob[t]}
            /\ owner' = [owner EXCEPT ![mob[t]] = NoThread]
            /\ mob' = [mob EXCEPT ![t] = NoMob]
    /\ UNCHANGED <<entries, mobs, isbin, bin, retraining, call, cur, held, res, done, lost>>

\* Fault for KeysAreRouted: the record goes into the slot behind.
PublishBehind(t) ==
    /\ pc[t] = "publish"
    /\ mobs' = [mobs EXCEPT ![cur[t]][GapOf(cur[t], key(t)) + 1] = mob[t]]
    /\ lost' = (lost \/ Slot(t) # NoMob)
    /\ held' = [held EXCEPT ![t] = Append(@, mob[t])]
    /\ GoTo(t, "inside")
    /\ UNCHANGED <<entries, isbin, bin, retraining, owner, used, call, cur, mob, res, done>>

\* mobs[bin_pos] = mob, whatever the slot holds by now.
Publish(t) ==
    /\ pc[t] = "publish"
    /\ mobs' = [mobs EXCEPT ![cur[t]][GapOf(cur[t], key(t))] = mob[t]]
    /\ lost' = (lost \/ Slot(t) # NoMob)
    /\ held' = [held EXCEPT ![t] = Append(@, mob[t])]
    /\ GoTo(t, "inside")
    /\ UNCHANGED <<entries, isbin, bin, retraining, owner, used, call, cur, mob, res, done>>

\* Fault for MutualExclusion: the compare-and-swap does not wait.
LockAnyway(t) ==
    /\ pc[t] = "lock"
    /\ owner' = [owner EXCEPT ![mob[t]] = t]
    /\ held' = [held EXCEPT ![t] = Append(@, mob[t])]
    /\ GoTo(t, "inside")
    /\ UNCHANGED <<entries, mobs, isbin, bin, retraining, used, call, cur, mob, res, done, lost>>

Lock(t) ==
    /\ pc[t] = "lock"
    /\ owner[mob[t]] = NoThread
    /\ owner' = [owner EXCEPT ![mob[t]] = t]
    /\ held' = [held EXCEPT ![t] = Append(@, mob[t])]
    /\ GoTo(t, "inside")
    /\ UNCHANGED <<entries, mobs, isbin, bin, retraining, used, call, cur, mob, res, done, lost>>

\* The slot holds a model: the operation goes on there, the lock held.
Descend(t) ==
    /\ pc[t] = "inside" /\ ~isbin[mob[t]]
    /\ cur' = [cur EXCEPT ![t] = mob[t]]
    /\ GoTo(t, "start")
    /\ UNCHANGED <<memory, call, mob, held, res, done, lost>>

-----------------------------------------------------------------------------
(* The bin of a locked slot, as BinMap. *)

InBin(t) == pc[t] = "inside" /\ isbin[mob[t]]

Put(t, v) == bin' = [bin EXCEPT ![mob[t]][key(t)] = v]

\* A bin that is retraining refuses: insert fails, the others hand retrain
\* to an assertion that excludes it.
BinFails(t) ==
    /\ InBin(t)
    /\ retraining[mob[t]] \/ (bin[mob[t]][key(t)] = NoVal) = (call[t].op # "insert")
    /\ Finish(t, IF retraining[mob[t]] /\ call[t].op # "insert" THEN "retrain" ELSE "failed")
    /\ UNCHANGED <<memory, call, cur, mob, held, done, lost>>

BinFinds(t) ==
    /\ InBin(t) /\ ~retraining[mob[t]]
    /\ call[t].op = "find" /\ bin[mob[t]][key(t)] # NoVal
    /\ Finish(t, "ok")
    /\ UNCHANGED <<memory, call, cur, mob, held, done, lost>>

BinChanges(t) ==
    /\ InBin(t) /\ ~retraining[mob[t]]
    /\ call[t].op # "find"
    /\ (bin[mob[t]][key(t)] = NoVal) = (call[t].op = "insert")
    /\ Put(t, call[t].val)
    /\ Finish(t, "ok")
    /\ UNCHANGED <<entries, mobs, isbin, retraining, owner, used,
                   call, cur, mob, held, done, lost>>

\* Fault for NoRetrainSeen: the answer is passed on, the bin left as it is.
BinAsksInVain(t) ==
    /\ InBin(t) /\ ~retraining[mob[t]]
    /\ call[t].op = "insert" /\ Cardinality(Keys(mob[t])) >= RetrainMin
    /\ retraining' = [retraining EXCEPT ![mob[t]] = TRUE]
    /\ Finish(t, "failed")
    /\ UNCHANGED <<entries, mobs, isbin, bin, owner, used,
                   call, cur, mob, held, done, lost>>

\* The bin answers retrain to an insert, with or without the key in it.
BinAsks(t) ==
    /\ InBin(t) /\ ~retraining[mob[t]]
    /\ call[t].op = "insert" /\ Cardinality(Keys(mob[t])) >= RetrainMin
    /\ retraining' = [retraining EXCEPT ![mob[t]] = TRUE]
    /\ GoTo(t, "retrain")
    /\ UNCHANGED <<entries, mobs, isbin, bin, owner, used,
                   call, cur, mob, held, res, done, lost>>

\* Fault for OnlyCallsChangeKeys: the last key is not trained on.
RetrainShort(t) ==
    /\ pc[t] = "retrain"
    /\ LET m    == mob[t]
           most == {k \in Keys(m) : \E l \in Keys(m) : k < l}
       IN
        /\ arr' = [arr EXCEPT ![m] = most]
        /\ valid' = [valid EXCEPT ![m] = most]
        /\ vals' = [vals EXCEPT ![m] = bin[m]]
        /\ bin' = [bin EXCEPT ![m] = Empty]
        /\ retraining' = [retraining EXCEPT ![m] = FALSE]
        /\ isbin' = [isbin EXCEPT ![m] = FALSE]
        /\ cur' = [cur EXCEPT ![t] = m]
    /\ GoTo(t, "start")
    /\ UNCHANGED <<mobs, owner, used, call, mob, held, res, done, lost>>

\* resort, train, delete the bin, store the model, and insert into it.
Retrain(t) ==
    /\ pc[t] = "retrain"
    /\ LET m == mob[t] IN
        /\ arr' = [arr EXCEPT ![m] = Keys(m)]
        /\ valid' = [valid EXCEPT ![m] = Keys(m)]
        /\ vals' = [vals EXCEPT ![m] = bin[m]]
        /\ bin' = [bin EXCEPT ![m] = Empty]
        /\ retraining' = [retraining EXCEPT ![m] = FALSE]
        /\ isbin' = [isbin EXCEPT ![m] = FALSE]
        /\ cur' = [cur EXCEPT ![t] = m]
    /\ GoTo(t, "start")
    /\ UNCHANGED <<mobs, owner, used, call, mob, held, res, done, lost>>

-----------------------------------------------------------------------------
\* Fault for CallsReturn: only the innermost slot is unlocked.
UnlockInner(t) ==
    /\ pc[t] = "unlock" /\ held[t] # <<>>
    /\ owner' = [owner EXCEPT ![Last(held[t])] = NoThread]
    /\ held' = [held EXCEPT ![t] = <<>>]
    /\ UNCHANGED <<entries, mobs, isbin, bin, retraining, used,
                   pc, call, cur, mob, res, done, lost>>

\* The calls return one into the other, each unlocking its slot.
Unlock(t) ==
    /\ pc[t] = "unlock" /\ held[t] # <<>>
    /\ owner' = [owner EXCEPT ![Last(held[t])] = NoThread]
    /\ held' = [held EXCEPT ![t] = Front(@)]
    /\ UNCHANGED <<entries, mobs, isbin, bin, retraining, used,
                   pc, call, cur, mob, res, done, lost>>

Return(t) ==
    /\ pc[t] = "unlock" /\ held[t] = <<>>
    /\ GoTo(t, "idle")
    /\ call' = [call EXCEPT ![t] = Idle]
    /\ cur' = [cur EXCEPT ![t] = Top]
    /\ mob' = [mob EXCEPT ![t] = NoMob]
    /\ res' = [res EXCEPT ![t] = "none"]
    /\ done' = [done EXCEPT ![t] = @ + 1]
    /\ UNCHANGED <<memory, held, lost>>

Step(t) ==
    \/ ReadFlag(t) \/ ReadValue(t) \/ SetFlag(t) \/ WriteValue(t) \/ ClearFlag(t)
    \/ ReadSlot(t) \/ MissSlot(t) \/ NewSlot(t) \/ Recheck(t) \/ Publish(t)
    \/ Lock(t) \/ Descend(t)
    \/ BinFails(t) \/ BinFinds(t) \/ BinChanges(t) \/ BinAsks(t)
    \/ Retrain(t)
    \/ Unlock(t) \/ Return(t)

Next == (\E t \in Thread : Call(t) \/ Step(t)) /\ Witness

Spec == Init /\ [][Next]_vars

\* A thread that runs keeps running; only the calls are up to the callers.
Fairness == \A t \in Thread : WF_vars(Step(t) /\ Witness)
FairSpec == Spec /\ Fairness

-----------------------------------------------------------------------------
(* Properties. *)

Label == {"idle", "start", "read", "write", "revive", "flag", "clear", "recheck",
          "publish", "lock", "inside", "retrain", "unlock"}

\* Every variable keeps its type, and no deleted record is locked.
TypeOK ==
    /\ arr \in [Model -> SUBSET Key]
    /\ valid \in [Model -> SUBSET Key]
    /\ vals \in [Model -> [Key -> Val \cup {NoVal}]]
    /\ mobs \in [Model -> [Gap -> Mob \cup {NoMob}]]
    /\ isbin \in [Mob -> BOOLEAN]
    /\ bin \in [Mob -> [Key -> Val \cup {NoVal}]]
    /\ retraining \in [Mob -> BOOLEAN]
    /\ owner \in [Mob -> Thread \cup {NoThread}]
    /\ used \in SUBSET Mob
    /\ pc \in [Thread -> Label]
    /\ call \in [Thread -> [op : Ops, key : Key, val : Val \cup {NoVal}] \cup {Idle}]
    /\ cur \in [Thread -> Model]
    /\ mob \in [Thread -> Mob \cup {NoMob}]
    /\ held \in [Thread -> Seq(Mob)]
    /\ res \in [Thread -> {"none", "ok", "failed", "retrain"}]
    /\ done \in [Thread -> Nat]
    /\ lost \in BOOLEAN
    /\ \A m \in Mob \ used : owner[m] = NoThread

\* At most one thread is inside a slot's bin or replaces it by a model, also
\* when it got there by publishing a record it had locked in private.
Inside(t) == pc[t] \in {"inside", "retrain"}
MutualExclusion ==
    \A s, t \in Thread : s # t /\ Inside(s) /\ Inside(t) => mob[s] # mob[t]

\* assert(res != result_t::retrain) after find, update and remove (lines 205,
\* 366, 513): a bin is replaced before its slot is unlocked, so no other
\* thread ever meets a bin that is retraining.
NoRetrainSeen == \A t \in Thread : res[t] # "retrain"

\* What is stored is found: a key in a bin or an array is where the search
\* for it ends, through every insertion, retraining and slot creation, as
\* long as no slot in use was overwritten.
KeysAreRouted ==
    ~lost => \A k \in Key :
        /\ \A m \in Mob : bin[m][k] # NoVal => mobs[Leaf(k)][GapOf(Leaf(k), k)] = m
        /\ \A m \in Model : k \in valid[m] => Leaf(k) = m

\* Every answer was true of the key at some moment of the call: found,
\* updated, removed or refused as a duplicate only if it was present then;
\* inserted or missed only if it was absent then.
AnswersAreTrue ==
    ~lost => \A t \in Thread :
        pc[t] = "unlock" =>
            IF (res[t] = "ok") = (call[t].op = "insert")
            THEN NoVal \in seen[t]
            ELSE seen[t] \cap Val # {}

\* A step changes what the index holds for a key only on behalf of a call on
\* that key: it disappears in a remove, appears in an insert, and changes
\* its value in an insert or an update.  Retraining and slot creation move
\* keys without losing any, unless a slot in use is overwritten.
Becomes(k) ==
    IF Holds(k)' = NoVal THEN {"remove"}
    ELSE IF Holds(k) = NoVal THEN {"insert"} ELSE {"insert", "update"}
OnlyCallsChangeKeys ==
    [][~lost' => \A k \in Key :
        Holds(k)' # Holds(k) =>
            \E t \in Thread : key(t) = k /\ call[t].op \in Becomes(k) /\ pc'[t] # pc[t]]_vars

\* Every call returns: nested locks are taken from the outer slot to the
\* inner one only, and whoever spins on a lock gets it once the calls that
\* compete for it have ended.
CallsReturn == \A t \in Thread : pc[t] # "idle" ~> pc[t] = "idle"
=============================================================================
