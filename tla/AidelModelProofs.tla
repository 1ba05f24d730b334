-------------------------- MODULE AidelModelProofs --------------------------
(***************************************************************************)
(* What holds of AidelModel for any number of threads, keys, records and   *)
(* calls: its type invariant, the exclusive use of a slot's contents, the  *)
(* assertions that exclude the result retrain, the way from Top to every   *)
(* key that is stored, what changes a key, and what a call may answer.     *)
(***************************************************************************)
EXTENDS AidelModel, Basics

Private(t) == pc[t] \in {"recheck", "publish"}

\* A held lock is owned, and held once.
HeldInv ==
    \A t \in Thread :
        /\ \A i \in 1 .. Len(held[t]) : owner[held[t][i]] = t
        /\ \A i, j \in 1 .. Len(held[t]) : held[t][i] = held[t][j] => i = j

\* A thread inside a slot holds its lock, as the innermost one.
InsideInv ==
    \A t \in Thread : Inside(t) =>
        /\ mob[t] \in Mob
        /\ held[t] # <<>>
        /\ held[t][Len(held[t])] = mob[t]

\* A record not yet published is locked, allocated, and known to its creator
\* only: in no slot, and not what another thread waits for.
PrivateInv ==
    \A t \in Thread : Private(t) =>
        /\ mob[t] \in used /\ owner[mob[t]] = t
        /\ \A i \in 1 .. Len(held[t]) : held[t][i] # mob[t]
        /\ \A m \in Model, g \in Gap : mobs[m][g] # mob[t]
        /\ \A s \in Thread : pc[s] = "lock" => mob[s] # mob[t]

\* What a slot holds and what a thread waits for is allocated.
AllocatedInv ==
    /\ \A m \in Model, g \in Gap : mobs[m][g] # NoMob => mobs[m][g] \in used
    /\ \A t \in Thread : pc[t] = "lock" => mob[t] \in used

\* A bin that is retraining has a thread inside that will replace it.
RetrainInv ==
    \A m \in Mob : retraining[m] => \E t \in Thread : pc[t] = "retrain" /\ mob[t] = m

\* A running call has a key.
CallInv == \A t \in Thread : pc[t] # "idle" => key(t) \in Key

IInv ==
    /\ TypeOK
    /\ HeldInv
    /\ InsideInv
    /\ PrivateInv
    /\ AllocatedInv
    /\ RetrainInv
    /\ CallInv
    /\ NoRetrainSeen

-----------------------------------------------------------------------------
\* bin_pos is a slot of the model: there are no more array keys below a key
\* than keys.
LEMMA GapRange ==
    ASSUME NEW S \in SUBSET Key, NEW k \in Key
    PROVE  Cardinality({a \in S : a < k}) \in Gap
<1> DEFINE T == {a \in S : a < k}
<1>1. T \subseteq Key /\ IsFiniteSet(Key)
  BY KeysAssumption
<1>2. IsFiniteSet(T) /\ Cardinality(T) <= Cardinality(Key)
  BY <1>1, FS_Subset
<1>3. Cardinality(T) \in Nat /\ Cardinality(Key) \in Nat
  BY <1>1, <1>2, FS_CardinalityType
<1>4. QED
  BY <1>2, <1>3 DEF Gap

LEMMA GapOfType ==
    ASSUME TypeOK, NEW m \in Model, NEW k \in Key
    PROVE  GapOf(m, k) \in Gap
<1>1. arr[m] \in SUBSET Key
  BY DEF TypeOK
<1>2. QED
  BY <1>1, GapRange DEF GapOf

\* Two threads inside the same slot would both own its lock.
LEMMA OneInside ==
    ASSUME IInv
    PROVE  MutualExclusion
<1>1. \A t \in Thread : Inside(t) => owner[mob[t]] = t
  BY SMTT(60) DEF IInv, TypeOK, HeldInv, InsideInv
<1>2. QED
  BY <1>1 DEF MutualExclusion

\* A new call has a key; its thread was outside every slot.
LEMMA CallStep ==
    ASSUME IInv, NEW t \in Thread, Call(t)
    PROVE  IInv'
<1> USE NullsAssumption DEF memory, key, GoTo, Idle, Model, Label, Ops, Private, Inside
<1>1. TypeOK'
  BY DEF IInv, TypeOK, Call
<1>2. HeldInv'
  BY DEF IInv, TypeOK, HeldInv, Call
<1>3. InsideInv'
  BY DEF IInv, TypeOK, InsideInv, Call
<1>4. PrivateInv'
  BY DEF IInv, TypeOK, PrivateInv, Call
<1>5. AllocatedInv'
  BY DEF IInv, TypeOK, AllocatedInv, Call
<1>6. RetrainInv'
  BY DEF IInv, TypeOK, RetrainInv, Call
<1>7. CallInv'
  BY DEF IInv, TypeOK, CallInv, Call
<1>8. NoRetrainSeen'
  BY DEF IInv, TypeOK, NoRetrainSeen, Call
<1>9. QED
  BY <1>1, <1>2, <1>3, <1>4, <1>5, <1>6, <1>7, <1>8 DEF IInv

\* The flag of an array entry decides where a call goes, within its labels.
LEMMA ReadFlagStep ==
    ASSUME IInv, NEW t \in Thread, ReadFlag(t)
    PROVE  IInv'
<1> USE NullsAssumption DEF memory, key, GoTo, Finish, InArray, Idle, Model, Label, Ops,
                            Private, Inside
<1>1. TypeOK'
  <2>1. call[t].op \in Ops
    BY DEF IInv, TypeOK
  <2>2. pc' \in [Thread -> Label] /\ res' \in [Thread -> {"none", "ok", "failed", "retrain"}]
    <3>1. CASE pc' = [pc EXCEPT ![t] = "unlock"] /\ res' = [res EXCEPT ![t] = "failed"]
      BY <3>1 DEF IInv, TypeOK
    <3>2. CASE \E l \in {"read", "write", "revive", "clear"} :
                  pc' = [pc EXCEPT ![t] = l] /\ UNCHANGED res
      BY <3>2 DEF IInv, TypeOK
    <3>3. QED
      BY <2>1, <3>1, <3>2 DEF ReadFlag
  <2>3. QED
    BY <2>2 DEF IInv, TypeOK, ReadFlag
<1>2. HeldInv'
  BY DEF IInv, TypeOK, HeldInv, ReadFlag
<1>3. InsideInv'
  BY DEF IInv, TypeOK, InsideInv, ReadFlag
<1>4. PrivateInv'
  BY DEF IInv, TypeOK, PrivateInv, ReadFlag
<1>5. AllocatedInv'
  BY DEF IInv, TypeOK, AllocatedInv, ReadFlag
<1>6. RetrainInv'
  BY DEF IInv, TypeOK, RetrainInv, ReadFlag
<1>7. CallInv'
  BY DEF IInv, TypeOK, CallInv, ReadFlag
<1>8. NoRetrainSeen'
  BY DEF IInv, TypeOK, NoRetrainSeen, ReadFlag
<1>9. QED
  BY <1>1, <1>2, <1>3, <1>4, <1>5, <1>6, <1>7, <1>8 DEF IInv

\* Reading an array entry ends the call and takes no lock.
LEMMA ReadValueStep ==
    ASSUME IInv, NEW t \in Thread, ReadValue(t)
    PROVE  IInv'
<1> USE NullsAssumption DEF memory, key, GoTo, Finish, Idle, Model, Label, Ops, Private,
                            Inside
<1>1. TypeOK'
  BY DEF IInv, TypeOK, ReadValue
<1>2. HeldInv'
  BY DEF IInv, TypeOK, HeldInv, ReadValue
<1>3. InsideInv'
  BY DEF IInv, TypeOK, InsideInv, ReadValue
<1>4. PrivateInv'
  BY DEF IInv, TypeOK, PrivateInv, ReadValue
<1>5. AllocatedInv'
  BY DEF IInv, TypeOK, AllocatedInv, ReadValue
<1>6. RetrainInv'
  BY DEF IInv, TypeOK, RetrainInv, ReadValue
<1>7. CallInv'
  BY DEF IInv, TypeOK, CallInv, ReadValue
<1>8. NoRetrainSeen'
  BY DEF IInv, TypeOK, NoRetrainSeen, ReadValue
<1>9. QED
  BY <1>1, <1>2, <1>3, <1>4, <1>5, <1>6, <1>7, <1>8 DEF IInv

\* Setting a flag touches no slot.
LEMMA SetFlagStep ==
    ASSUME IInv, NEW t \in Thread, SetFlag(t)
    PROVE  IInv'
<1> USE NullsAssumption DEF slots, key, GoTo, Finish, Idle, Model, Label, Ops, Private,
                            Inside
<1>1. TypeOK'
  <2>1. key(t) \in Key /\ cur[t] \in Model
    BY DEF IInv, TypeOK, CallInv, SetFlag
  <2>2. valid' \in [Model -> SUBSET Key]
    BY <2>1 DEF IInv, TypeOK, SetFlag
  <2>3. pc' \in [Thread -> Label] /\ res' \in [Thread -> {"none", "ok", "failed", "retrain"}]
    BY DEF IInv, TypeOK, SetFlag
  <2>4. QED
    BY <2>2, <2>3 DEF IInv, TypeOK, SetFlag
<1>2. HeldInv'
  BY DEF IInv, TypeOK, HeldInv, SetFlag
<1>3. InsideInv'
  BY DEF IInv, TypeOK, InsideInv, SetFlag
<1>4. PrivateInv'
  BY DEF IInv, TypeOK, PrivateInv, SetFlag
<1>5. AllocatedInv'
  BY DEF IInv, TypeOK, AllocatedInv, SetFlag
<1>6. RetrainInv'
  BY DEF IInv, TypeOK, RetrainInv, SetFlag
<1>7. CallInv'
  BY DEF IInv, TypeOK, CallInv, SetFlag
<1>8. NoRetrainSeen'
  BY DEF IInv, TypeOK, NoRetrainSeen, SetFlag
<1>9. QED
  BY <1>1, <1>2, <1>3, <1>4, <1>5, <1>6, <1>7, <1>8 DEF IInv

\* Writing a value touches no slot.
LEMMA WriteValueStep ==
    ASSUME IInv, NEW t \in Thread, WriteValue(t)
    PROVE  IInv'
<1> USE NullsAssumption DEF slots, key, GoTo, Finish, Idle, Model, Label, Ops, Private,
                            Inside
<1>1. TypeOK'
  <2>1. key(t) \in Key /\ cur[t] \in Model /\ call[t].val \in Val \cup {NoVal}
    BY DEF IInv, TypeOK, CallInv, WriteValue
  <2>2. vals' \in [Model -> [Key -> Val \cup {NoVal}]]
    BY <2>1 DEF IInv, TypeOK, WriteValue
  <2>3. pc' \in [Thread -> Label] /\ res' \in [Thread -> {"none", "ok", "failed", "retrain"}]
    BY DEF IInv, TypeOK, WriteValue
  <2>4. QED
    BY <2>2, <2>3 DEF IInv, TypeOK, WriteValue
<1>2. HeldInv'
  BY DEF IInv, TypeOK, HeldInv, WriteValue
<1>3. InsideInv'
  BY DEF IInv, TypeOK, InsideInv, WriteValue
<1>4. PrivateInv'
  BY DEF IInv, TypeOK, PrivateInv, WriteValue
<1>5. AllocatedInv'
  BY DEF IInv, TypeOK, AllocatedInv, WriteValue
<1>6. RetrainInv'
  BY DEF IInv, TypeOK, RetrainInv, WriteValue
<1>7. CallInv'
  BY DEF IInv, TypeOK, CallInv, WriteValue
<1>8. NoRetrainSeen'
  BY DEF IInv, TypeOK, NoRetrainSeen, WriteValue
<1>9. QED
  BY <1>1, <1>2, <1>3, <1>4, <1>5, <1>6, <1>7, <1>8 DEF IInv

\* Clearing a flag touches no slot.
LEMMA ClearFlagStep ==
    ASSUME IInv, NEW t \in Thread, ClearFlag(t)
    PROVE  IInv'
<1> USE NullsAssumption DEF slots, key, GoTo, Finish, Idle, Model, Label, Ops, Private,
                            Inside
<1>1. TypeOK'
  BY DEF IInv, TypeOK, ClearFlag
<1>2. HeldInv'
  BY DEF IInv, TypeOK, HeldInv, ClearFlag
<1>3. InsideInv'
  BY DEF IInv, TypeOK, InsideInv, ClearFlag
<1>4. PrivateInv'
  BY DEF IInv, TypeOK, PrivateInv, ClearFlag
<1>5. AllocatedInv'
  BY DEF IInv, TypeOK, AllocatedInv, ClearFlag
<1>6. RetrainInv'
  BY DEF IInv, TypeOK, RetrainInv, ClearFlag
<1>7. CallInv'
  BY DEF IInv, TypeOK, CallInv, ClearFlag
<1>8. NoRetrainSeen'
  BY DEF IInv, TypeOK, NoRetrainSeen, ClearFlag
<1>9. QED
  BY <1>1, <1>2, <1>3, <1>4, <1>5, <1>6, <1>7, <1>8 DEF IInv

\* A record read out of a slot is allocated, and nobody's private one.
LEMMA ReadSlotStep ==
    ASSUME IInv, NEW t \in Thread, ReadSlot(t)
    PROVE  IInv'
<1> USE NullsAssumption DEF memory, key, GoTo, InArray, Slot, Idle, Model, Label, Ops,
                            Private, Inside
<1>g. key(t) \in Key /\ GapOf(cur[t], key(t)) \in Gap
  BY GapOfType DEF IInv, TypeOK, CallInv, ReadSlot
<1>1. TypeOK'
  BY <1>g DEF IInv, TypeOK, ReadSlot
<1>2. HeldInv'
  BY <1>g DEF IInv, TypeOK, HeldInv, ReadSlot
<1>3. InsideInv'
  BY <1>g DEF IInv, TypeOK, InsideInv, ReadSlot
<1>4. PrivateInv'
  BY <1>g DEF IInv, TypeOK, PrivateInv, ReadSlot
<1>5. AllocatedInv'
  BY <1>g DEF IInv, TypeOK, AllocatedInv, ReadSlot
<1>6. RetrainInv'
  BY <1>g DEF IInv, TypeOK, RetrainInv, ReadSlot
<1>7. CallInv'
  BY <1>g DEF IInv, TypeOK, CallInv, ReadSlot
<1>8. NoRetrainSeen'
  BY <1>g DEF IInv, TypeOK, NoRetrainSeen, ReadSlot
<1>9. QED
  BY <1>1, <1>2, <1>3, <1>4, <1>5, <1>6, <1>7, <1>8 DEF IInv

\* A missing slot ends the call and takes no lock.
LEMMA MissSlotStep ==
    ASSUME IInv, NEW t \in Thread, MissSlot(t)
    PROVE  IInv'
<1> USE NullsAssumption DEF memory, key, GoTo, Finish, InArray, Slot, Idle, Model,
                            Label, Ops, Private, Inside
<1>g. key(t) \in Key /\ GapOf(cur[t], key(t)) \in Gap
  BY GapOfType DEF IInv, TypeOK, CallInv, MissSlot
<1>1. TypeOK'
  BY <1>g DEF IInv, TypeOK, MissSlot
<1>2. HeldInv'
  BY <1>g DEF IInv, TypeOK, HeldInv, MissSlot
<1>3. InsideInv'
  BY <1>g DEF IInv, TypeOK, InsideInv, MissSlot
<1>4. PrivateInv'
  BY <1>g DEF IInv, TypeOK, PrivateInv, MissSlot
<1>5. AllocatedInv'
  BY <1>g DEF IInv, TypeOK, AllocatedInv, MissSlot
<1>6. RetrainInv'
  BY <1>g DEF IInv, TypeOK, RetrainInv, MissSlot
<1>7. CallInv'
  BY <1>g DEF IInv, TypeOK, CallInv, MissSlot
<1>8. NoRetrainSeen'
  BY <1>g DEF IInv, TypeOK, NoRetrainSeen, MissSlot
<1>9. QED
  BY <1>1, <1>2, <1>3, <1>4, <1>5, <1>6, <1>7, <1>8 DEF IInv

\* A fresh record is locked while no other thread can know it.
LEMMA NewSlotStep ==
    ASSUME IInv, NEW t \in Thread, NewSlot(t)
    PROVE  IInv'
<1> USE NullsAssumption DEF entries, key, GoTo, InArray, Slot, Idle, Model, Label, Ops,
                            Private, Inside
<1>g. key(t) \in Key /\ GapOf(cur[t], key(t)) \in Gap
  BY GapOfType DEF IInv, TypeOK, CallInv, NewSlot
<1>1. TypeOK'
  BY <1>g DEF IInv, TypeOK, NewSlot
<1>2. HeldInv'
  BY <1>g DEF IInv, TypeOK, HeldInv, NewSlot
<1>3. InsideInv'
  BY <1>g DEF IInv, TypeOK, InsideInv, NewSlot
<1>4. PrivateInv'
  BY <1>g DEF IInv, TypeOK, HeldInv, PrivateInv, AllocatedInv, NewSlot
<1>5. AllocatedInv'
  BY <1>g DEF IInv, TypeOK, AllocatedInv, NewSlot
<1>6. RetrainInv'
  BY <1>g DEF IInv, TypeOK, RetrainInv, NewSlot
<1>7. CallInv'
  BY <1>g DEF IInv, TypeOK, CallInv, NewSlot
<1>8. NoRetrainSeen'
  BY <1>g DEF IInv, TypeOK, NoRetrainSeen, NewSlot
<1>9. QED
  BY <1>1, <1>2, <1>3, <1>4, <1>5, <1>6, <1>7, <1>8 DEF IInv

\* A record deleted again was in no slot and waited for by nobody.
LEMMA RecheckStep ==
    ASSUME IInv, NEW t \in Thread, Recheck(t)
    PROVE  IInv'
<1> USE NullsAssumption DEF entries, key, GoTo, Slot, Idle, Model, Label, Ops, Private,
                            Inside
<1>g. key(t) \in Key /\ GapOf(cur[t], key(t)) \in Gap
  BY GapOfType DEF IInv, TypeOK, CallInv, Recheck
<1>a. mob[t] \in Mob /\ mob[t] \in used /\ owner[mob[t]] = t
  BY DEF IInv, TypeOK, PrivateInv, Recheck
<1>b. \A s \in Thread : /\ s # t => pc'[s] = pc[s] /\ mob'[s] = mob[s]
                        /\ s # t /\ Private(s) => mob[s] # mob[t]
  BY DEF IInv, TypeOK, PrivateInv, Recheck
<1>c. pc'[t] \in {"publish", "start"}
  BY DEF IInv, TypeOK, Recheck
<1>1. TypeOK'
  <2>1. /\ pc' \in [Thread -> Label]
        /\ mob' \in [Thread -> Mob \cup {NoMob}]
        /\ owner' \in [Mob -> Thread \cup {NoThread}]
        /\ used' \in SUBSET Mob
    <3>1. CASE Slot(t) = NoMob
      BY <3>1 DEF IInv, TypeOK, Recheck
    <3>2. CASE Slot(t) # NoMob
      BY <3>2 DEF IInv, TypeOK, Recheck
    <3>3. QED
      BY <3>1, <3>2
  <2>2. \A m \in Mob \ used' : owner'[m] = NoThread
    BY <1>a DEF IInv, TypeOK, Recheck
  <2>3. QED
    BY <2>1, <2>2 DEF IInv, TypeOK, Recheck
<1>2. HeldInv'
  BY <1>g DEF IInv, TypeOK, HeldInv, PrivateInv, Recheck
<1>3. InsideInv'
  BY <1>g DEF IInv, TypeOK, InsideInv, Recheck
<1>4. PrivateInv'
  <2>1. CASE Slot(t) = NoMob
    <3>1. UNCHANGED <<used, owner, mob, mobs, held>> /\ pc' = [pc EXCEPT ![t] = "publish"]
      BY <2>1 DEF Recheck
    <3>2. QED
      BY <1>a, <3>1 DEF IInv, TypeOK, PrivateInv, Recheck
  <2>2. CASE Slot(t) # NoMob
    <3>1. /\ UNCHANGED <<mobs, held>>
          /\ pc' = [pc EXCEPT ![t] = "start"] /\ used' = used \ {mob[t]}
          /\ owner' = [owner EXCEPT ![mob[t]] = NoThread]
          /\ mob' = [mob EXCEPT ![t] = NoMob]
      BY <2>2 DEF Recheck
    <3>2. ASSUME NEW s \in Thread, Private(s)'
          PROVE  s # t /\ Private(s) /\ mob'[s] = mob[s] /\ mob[s] # mob[t]
      BY <1>b, <3>1, <3>2 DEF IInv, TypeOK
    <3>3. ASSUME NEW r \in Thread, pc'[r] = "lock"
          PROVE  pc[r] = "lock" /\ mob'[r] = mob[r]
      BY <1>b, <3>1, <3>3 DEF IInv, TypeOK
    <3>4. \A m \in Mob : m # mob[t] => owner'[m] = owner[m]
      BY <3>1 DEF IInv, TypeOK
    <3>5. \A s \in Thread : Private(s)' => mob'[s] \in used' /\ owner'[mob'[s]] = s
      BY <3>1, <3>2, <3>4 DEF IInv, TypeOK, PrivateInv
    <3>6. QED
      BY <3>1, <3>2, <3>3, <3>5 DEF IInv, PrivateInv
  <2>3. QED
    BY <2>1, <2>2
<1>5. AllocatedInv'
  <2>1. CASE Slot(t) = NoMob
    BY <2>1 DEF IInv, TypeOK, AllocatedInv, Recheck
  <2>2. CASE Slot(t) # NoMob
    <3>1. /\ UNCHANGED mobs
          /\ pc' = [pc EXCEPT ![t] = "start"] /\ used' = used \ {mob[t]}
          /\ mob' = [mob EXCEPT ![t] = NoMob]
      BY <2>2 DEF Recheck
    <3>2. /\ \A m \in Model, g \in Gap : mobs[m][g] # mob[t]
          /\ \A s \in Thread : pc[s] = "lock" => mob[s] # mob[t]
      BY DEF IInv, PrivateInv, Recheck
    <3>3. QED
      BY <3>1, <3>2 DEF IInv, TypeOK, AllocatedInv
  <2>3. QED
    BY <2>1, <2>2
<1>6. RetrainInv'
  BY <1>g DEF IInv, TypeOK, RetrainInv, Recheck
<1>7. CallInv'
  BY <1>g DEF IInv, TypeOK, CallInv, Recheck
<1>8. NoRetrainSeen'
  BY <1>g DEF IInv, TypeOK, NoRetrainSeen, Recheck
<1>9. QED
  BY <1>1, <1>2, <1>3, <1>4, <1>5, <1>6, <1>7, <1>8 DEF IInv

\* The creator of a record is inside it, with its lock, once it is visible.
LEMMA PublishStep ==
    ASSUME IInv, NEW t \in Thread, Publish(t)
    PROVE  IInv'
<1> USE NullsAssumption DEF entries, key, GoTo, Slot, Idle, Model, Label, Ops, Private,
                            Inside
<1>g. key(t) \in Key /\ GapOf(cur[t], key(t)) \in Gap
  BY GapOfType DEF IInv, TypeOK, CallInv, Publish
<1>a. /\ mob[t] \in Mob /\ mob[t] \in used /\ owner[mob[t]] = t
      /\ \A i \in 1 .. Len(held[t]) : held[t][i] # mob[t]
  BY DEF IInv, TypeOK, PrivateInv, Publish
<1>b. /\ held'[t] = Append(held[t], mob[t])
      /\ \A s \in Thread : s # t => held'[s] = held[s] /\ pc'[s] = pc[s]
  BY DEF IInv, TypeOK, Publish
<1>c. held'[t] # <<>> /\ held'[t][Len(held'[t])] = mob[t]
  <2>1. held[t] \in Seq(Mob)
    BY DEF IInv, TypeOK
  <2>2. /\ Len(held'[t]) = Len(held[t]) + 1
        /\ held'[t][Len(held[t]) + 1] = mob[t]
    BY <1>a, <1>b, <2>1, AppendProperties
  <2>3. QED
    BY <2>1, <2>2, LenProperties, EmptySeq
<1>1. TypeOK'
  BY <1>g DEF IInv, TypeOK, PrivateInv, Publish
<1>2. HeldInv'
  BY <1>g DEF IInv, TypeOK, HeldInv, PrivateInv, Publish
<1>3. InsideInv'
  BY <1>g, <1>a, <1>b, <1>c DEF IInv, TypeOK, InsideInv, Publish
<1>4. PrivateInv'
  BY <1>g DEF IInv, TypeOK, PrivateInv, Publish
<1>5. AllocatedInv'
  BY <1>g DEF IInv, TypeOK, PrivateInv, AllocatedInv, Publish
<1>6. RetrainInv'
  BY <1>g DEF IInv, TypeOK, RetrainInv, Publish
<1>7. CallInv'
  BY <1>g DEF IInv, TypeOK, CallInv, Publish
<1>8. NoRetrainSeen'
  BY <1>g DEF IInv, TypeOK, NoRetrainSeen, Publish
<1>9. QED
  BY <1>1, <1>2, <1>3, <1>4, <1>5, <1>6, <1>7, <1>8 DEF IInv

\* Whoever gets the lock of a slot owns it, and did not hold it before.
LEMMA LockStep ==
    ASSUME IInv, NEW t \in Thread, Lock(t)
    PROVE  IInv'
<1> USE NullsAssumption DEF entries, key, GoTo, Idle, Model, Label, Ops, Private, Inside
<1>a. mob[t] \in Mob /\ mob[t] \in used
  BY DEF IInv, TypeOK, AllocatedInv, Lock
<1>b. /\ held'[t] = Append(held[t], mob[t])
      /\ \A s \in Thread : s # t => held'[s] = held[s] /\ pc'[s] = pc[s]
  BY DEF IInv, TypeOK, Lock
<1>c. held'[t] # <<>> /\ held'[t][Len(held'[t])] = mob[t]
  <2>1. held[t] \in Seq(Mob)
    BY DEF IInv, TypeOK
  <2>2. /\ Len(held'[t]) = Len(held[t]) + 1
        /\ held'[t][Len(held[t]) + 1] = mob[t]
    BY <1>a, <1>b, <2>1, AppendProperties
  <2>3. QED
    BY <2>1, <2>2, LenProperties, EmptySeq
<1>1. TypeOK'
  BY DEF IInv, TypeOK, AllocatedInv, Lock
<1>2. HeldInv'
  BY DEF IInv, TypeOK, HeldInv, PrivateInv, AllocatedInv, Lock
<1>3. InsideInv'
  BY <1>a, <1>b, <1>c DEF IInv, TypeOK, InsideInv, Lock
<1>4. PrivateInv'
  BY DEF IInv, TypeOK, PrivateInv, Lock
<1>5. AllocatedInv'
  BY DEF IInv, TypeOK, AllocatedInv, Lock
<1>6. RetrainInv'
  BY DEF IInv, TypeOK, RetrainInv, Lock
<1>7. CallInv'
  BY DEF IInv, TypeOK, CallInv, Lock
<1>8. NoRetrainSeen'
  BY DEF IInv, TypeOK, NoRetrainSeen, Lock
<1>9. QED
  BY <1>1, <1>2, <1>3, <1>4, <1>5, <1>6, <1>7, <1>8 DEF IInv

\* The lock of the slot stays held below it.
LEMMA DescendStep ==
    ASSUME IInv, NEW t \in Thread, Descend(t)
    PROVE  IInv'
<1> USE NullsAssumption DEF memory, key, GoTo, Idle, Model, Label, Ops, Private, Inside
<1>1. TypeOK'
  BY DEF IInv, TypeOK, InsideInv, Descend
<1>2. HeldInv'
  BY DEF IInv, TypeOK, HeldInv, Descend
<1>3. InsideInv'
  BY DEF IInv, TypeOK, InsideInv, Descend
<1>4. PrivateInv'
  BY DEF IInv, TypeOK, PrivateInv, Descend
<1>5. AllocatedInv'
  BY DEF IInv, TypeOK, AllocatedInv, Descend
<1>6. RetrainInv'
  BY DEF IInv, TypeOK, RetrainInv, Descend
<1>7. CallInv'
  BY DEF IInv, TypeOK, CallInv, Descend
<1>8. NoRetrainSeen'
  BY DEF IInv, TypeOK, NoRetrainSeen, Descend
<1>9. QED
  BY <1>1, <1>2, <1>3, <1>4, <1>5, <1>6, <1>7, <1>8 DEF IInv

\* A bin is never met retraining: whoever set that mark is still inside.
LEMMA BinFailsStep ==
    ASSUME IInv, NEW t \in Thread, BinFails(t)
    PROVE  IInv'
<1> USE NullsAssumption DEF memory, key, GoTo, Finish, InBin, Idle, Model, Label, Ops,
                            Private, Inside
<1>1. TypeOK'
  BY DEF IInv, TypeOK, BinFails
<1>2. HeldInv'
  BY DEF IInv, TypeOK, HeldInv, BinFails
<1>3. InsideInv'
  BY DEF IInv, TypeOK, InsideInv, BinFails
<1>4. PrivateInv'
  BY DEF IInv, TypeOK, PrivateInv, BinFails
<1>5. AllocatedInv'
  BY DEF IInv, TypeOK, AllocatedInv, BinFails
<1>6. RetrainInv'
  BY DEF IInv, TypeOK, RetrainInv, BinFails
<1>7. CallInv'
  BY DEF IInv, TypeOK, CallInv, BinFails
<1>8. NoRetrainSeen'
  <2>1. ~retraining[mob[t]]
    <3>1. SUFFICES ASSUME retraining[mob[t]] PROVE FALSE
      OBVIOUS
    <3>2. PICK s \in Thread : pc[s] = "retrain" /\ mob[s] = mob[t]
      BY <3>1 DEF IInv, InsideInv, RetrainInv, BinFails
    <3>3. s = t
      BY <3>2, OneInside DEF MutualExclusion, BinFails
    <3>4. QED
      BY <3>2, <3>3 DEF BinFails
  <2>2. QED
    BY <2>1 DEF IInv, TypeOK, NoRetrainSeen, BinFails
<1>9. QED
  BY <1>1, <1>2, <1>3, <1>4, <1>5, <1>6, <1>7, <1>8 DEF IInv

\* A find in a bin changes nothing that is shared.
LEMMA BinFindsStep ==
    ASSUME IInv, NEW t \in Thread, BinFinds(t)
    PROVE  IInv'
<1> USE NullsAssumption DEF memory, key, GoTo, Finish, InBin, Idle, Model, Label, Ops,
                            Private, Inside
<1>1. TypeOK'
  BY DEF IInv, TypeOK, BinFinds
<1>2. HeldInv'
  BY DEF IInv, TypeOK, HeldInv, BinFinds
<1>3. InsideInv'
  BY DEF IInv, TypeOK, InsideInv, BinFinds
<1>4. PrivateInv'
  BY DEF IInv, TypeOK, PrivateInv, BinFinds
<1>5. AllocatedInv'
  BY DEF IInv, TypeOK, AllocatedInv, BinFinds
<1>6. RetrainInv'
  BY DEF IInv, TypeOK, RetrainInv, BinFinds
<1>7. CallInv'
  BY DEF IInv, TypeOK, CallInv, BinFinds
<1>8. NoRetrainSeen'
  BY DEF IInv, TypeOK, NoRetrainSeen, BinFinds
<1>9. QED
  BY <1>1, <1>2, <1>3, <1>4, <1>5, <1>6, <1>7, <1>8 DEF IInv

\* A change of a bin's contents leaves every lock and slot alone.
LEMMA BinChangesStep ==
    ASSUME IInv, NEW t \in Thread, BinChanges(t)
    PROVE  IInv'
<1> USE NullsAssumption DEF entries, key, GoTo, Finish, InBin, Put, Idle, Model, Label,
                            Ops, Private, Inside
<1>1. TypeOK'
  BY DEF IInv, TypeOK, InsideInv, BinChanges
<1>2. HeldInv'
  BY DEF IInv, TypeOK, HeldInv, BinChanges
<1>3. InsideInv'
  BY DEF IInv, TypeOK, InsideInv, BinChanges
<1>4. PrivateInv'
  BY DEF IInv, TypeOK, PrivateInv, BinChanges
<1>5. AllocatedInv'
  BY DEF IInv, TypeOK, AllocatedInv, BinChanges
<1>6. RetrainInv'
  BY DEF IInv, TypeOK, RetrainInv, BinChanges
<1>7. CallInv'
  BY DEF IInv, TypeOK, CallInv, BinChanges
<1>8. NoRetrainSeen'
  BY DEF IInv, TypeOK, NoRetrainSeen, BinChanges
<1>9. QED
  BY <1>1, <1>2, <1>3, <1>4, <1>5, <1>6, <1>7, <1>8 DEF IInv

\* A bin that asks to be retrained has the asking thread inside.
LEMMA BinAsksStep ==
    ASSUME IInv, NEW t \in Thread, BinAsks(t)
    PROVE  IInv'
<1> USE NullsAssumption DEF entries, key, GoTo, InBin, Keys, Idle, Model, Label, Ops,
                            Private, Inside
<1>1. TypeOK'
  BY DEF IInv, TypeOK, BinAsks
<1>2. HeldInv'
  BY DEF IInv, TypeOK, HeldInv, BinAsks
<1>3. InsideInv'
  BY DEF IInv, TypeOK, InsideInv, BinAsks
<1>4. PrivateInv'
  BY DEF IInv, TypeOK, PrivateInv, BinAsks
<1>5. AllocatedInv'
  BY DEF IInv, TypeOK, AllocatedInv, BinAsks
<1>6. RetrainInv'
  BY DEF IInv, TypeOK, RetrainInv, BinAsks
<1>7. CallInv'
  BY DEF IInv, TypeOK, CallInv, BinAsks
<1>8. NoRetrainSeen'
  BY DEF IInv, TypeOK, NoRetrainSeen, BinAsks
<1>9. QED
  BY <1>1, <1>2, <1>3, <1>4, <1>5, <1>6, <1>7, <1>8 DEF IInv

\* The thread that retrains is the only one inside, so the mark goes with it.
LEMMA RetrainStep ==
    ASSUME IInv, NEW t \in Thread, Retrain(t)
    PROVE  IInv'
<1> USE NullsAssumption DEF key, GoTo, Keys, Empty, Idle, Model, Label, Ops, Private,
                            Inside
<1>1. TypeOK'
  BY DEF IInv, TypeOK, InsideInv, Retrain
<1>2. HeldInv'
  BY DEF IInv, TypeOK, HeldInv, Retrain
<1>3. InsideInv'
  BY DEF IInv, TypeOK, InsideInv, Retrain
<1>4. PrivateInv'
  BY DEF IInv, TypeOK, PrivateInv, Retrain
<1>5. AllocatedInv'
  BY DEF IInv, TypeOK, AllocatedInv, Retrain
<1>6. RetrainInv'
  BY DEF IInv, TypeOK, RetrainInv, Retrain
<1>7. CallInv'
  BY DEF IInv, TypeOK, CallInv, Retrain
<1>8. NoRetrainSeen'
  BY DEF IInv, TypeOK, NoRetrainSeen, Retrain
<1>9. QED
  BY <1>1, <1>2, <1>3, <1>4, <1>5, <1>6, <1>7, <1>8 DEF IInv

\* The innermost lock is released; the outer ones are held as before.
LEMMA UnlockStep ==
    ASSUME IInv, NEW t \in Thread, Unlock(t)
    PROVE  IInv'
<1> USE NullsAssumption DEF entries, key, Idle, Model, Label, Ops, Private, Inside
<1> DEFINE inner == held[t][Len(held[t])]
<1>a. held[t] \in Seq(Mob) /\ Len(held[t]) \in Nat \ {0}
  <2>1. held[t] \in Seq(Mob) /\ held[t] # <<>>
    BY DEF IInv, TypeOK, Unlock
  <2>2. QED
    BY <2>1, LenProperties, EmptySeq
<1>b. inner \in Mob /\ owner[inner] = t
  <2>1. Len(held[t]) \in 1 .. Len(held[t])
    BY <1>a
  <2>2. QED
    BY <1>a, <2>1, ElementOfSeq DEF IInv, HeldInv
<1>c. /\ Front(held[t]) \in Seq(Mob) /\ Len(Front(held[t])) = Len(held[t]) - 1
      /\ \A i \in 1 .. Len(held[t]) - 1 : Front(held[t])[i] = held[t][i]
  BY <1>a, FrontProperties DEF Unlock
<1>d. /\ owner' = [owner EXCEPT ![inner] = NoThread]
      /\ held' = [held EXCEPT ![t] = Front(held[t])]
      /\ UNCHANGED <<pc, mob>>
  BY DEF Unlock, Last
<1> HIDE DEF inner
<1>1. TypeOK'
  <2>1. /\ owner' \in [Mob -> Thread \cup {NoThread}]
        /\ held' \in [Thread -> Seq(Mob)]
    BY <1>b, <1>c, <1>d DEF IInv, TypeOK
  <2>2. \A m \in Mob \ used : owner'[m] = NoThread
    BY <1>b, <1>d DEF IInv, TypeOK
  <2>3. QED
    BY <2>1, <2>2 DEF IInv, TypeOK, Unlock
<1>2. HeldInv'
  <2>1. ASSUME NEW i \in 1 .. Len(Front(held[t]))
        PROVE  /\ i \in 1 .. Len(held[t])
               /\ Front(held[t])[i] = held[t][i] /\ held[t][i] # inner /\ held[t][i] \in Mob
    <3>1. i \in 1 .. Len(held[t]) - 1 /\ i \in 1 .. Len(held[t]) /\ i # Len(held[t])
          /\ Len(held[t]) \in 1 .. Len(held[t])
      BY <1>a, <1>c
    <3>2. held[t][i] # inner
      BY <3>1 DEF IInv, HeldInv, inner
    <3>3. QED
      BY <1>a, <1>c, <3>1, <3>2, ElementOfSeq
  <2>2. ASSUME NEW s \in Thread, s # t, NEW i \in 1 .. Len(held[s])
        PROVE  held[s][i] # inner /\ held[s][i] \in Mob
    <3>1. held[s] \in Seq(Mob) /\ owner[held[s][i]] = s
      BY DEF IInv, TypeOK, HeldInv
    <3>2. QED
      BY <1>b, <2>2, <3>1, ElementOfSeq
  <2>3. held'[t] = Front(held[t]) /\ \A s \in Thread : s # t => held'[s] = held[s]
    BY <1>d DEF IInv, TypeOK
  <2>4. \A m \in Mob : m # inner => owner'[m] = owner[m]
    BY <1>b, <1>d DEF IInv, TypeOK
  <2>5. ASSUME NEW s \in Thread
        PROVE  /\ \A i \in 1 .. Len(held'[s]) : owner'[held'[s][i]] = s
               /\ \A i, j \in 1 .. Len(held'[s]) : held'[s][i] = held'[s][j] => i = j
    <3>1. CASE s = t
      BY SMTT(60), <2>1, <2>3, <2>4, <3>1 DEF IInv, HeldInv
    <3>2. CASE s # t
      BY SMTT(60), <2>2, <2>3, <2>4, <3>2 DEF IInv, HeldInv
    <3>3. QED
      BY <3>1, <3>2
  <2>6. QED
    BY <2>5 DEF HeldInv
<1>3. InsideInv'
  BY <1>d DEF IInv, TypeOK, InsideInv, Unlock
<1>4. PrivateInv'
  BY <1>a, <1>b, <1>c, <1>d DEF IInv, TypeOK, PrivateInv, Unlock
<1>5. AllocatedInv'
  BY DEF IInv, TypeOK, AllocatedInv, Unlock
<1>6. RetrainInv'
  BY DEF IInv, TypeOK, RetrainInv, Unlock
<1>7. CallInv'
  BY DEF IInv, TypeOK, CallInv, Unlock
<1>8. NoRetrainSeen'
  BY DEF IInv, TypeOK, NoRetrainSeen, Unlock
<1>9. QED
  BY <1>1, <1>2, <1>3, <1>4, <1>5, <1>6, <1>7, <1>8 DEF IInv

\* A call that returns holds no lock and leaves the thread outside.
LEMMA ReturnStep ==
    ASSUME IInv, NEW t \in Thread, Return(t)
    PROVE  IInv'
<1> USE NullsAssumption DEF memory, key, GoTo, Idle, Model, Label, Ops, Private, Inside
<1>1. TypeOK'
  <2>1. /\ call' \in [Thread -> [op : Ops, key : Key, val : Val \cup {NoVal}] \cup {Idle}]
        /\ done' \in [Thread -> Nat]
    BY DEF IInv, TypeOK, Return
  <2>2. /\ pc' \in [Thread -> Label] /\ cur' \in [Thread -> Model]
        /\ mob' \in [Thread -> Mob \cup {NoMob}]
        /\ res' \in [Thread -> {"none", "ok", "failed", "retrain"}]
    BY DEF IInv, TypeOK, Return
  <2>3. QED
    BY <2>1, <2>2 DEF IInv, TypeOK, Return
<1>2. HeldInv'
  BY DEF IInv, TypeOK, HeldInv, Return
<1>3. InsideInv'
  BY DEF IInv, TypeOK, InsideInv, Return
<1>4. PrivateInv'
  BY DEF IInv, TypeOK, PrivateInv, Return
<1>5. AllocatedInv'
  BY DEF IInv, TypeOK, AllocatedInv, Return
<1>6. RetrainInv'
  BY DEF IInv, TypeOK, RetrainInv, Return
<1>7. CallInv'
  BY DEF IInv, TypeOK, CallInv, Return
<1>8. NoRetrainSeen'
  BY DEF IInv, TypeOK, NoRetrainSeen, Return
<1>9. QED
  BY <1>1, <1>2, <1>3, <1>4, <1>5, <1>6, <1>7, <1>8 DEF IInv

-----------------------------------------------------------------------------
\* A thread alone in a fresh or half-emptied Top satisfies the invariant.
LEMMA InitIInv ==
    ASSUME Init
    PROVE  IInv
<1> USE NullsAssumption DEF Init, Model, Label, Ops, Empty, Idle
<1>1. TypeOK
  <2>1. /\ arr \in [Model -> SUBSET Key] /\ valid \in [Model -> SUBSET Key]
        /\ vals \in [Model -> [Key -> Val \cup {NoVal}]]
    BY KeysAssumption
  <2>2. /\ mobs \in [Model -> [Gap -> Mob \cup {NoMob}]]
        /\ bin \in [Mob -> [Key -> Val \cup {NoVal}]]
        /\ used \in SUBSET Mob
    OBVIOUS
  <2>3. /\ isbin \in [Mob -> BOOLEAN] /\ retraining \in [Mob -> BOOLEAN]
        /\ owner \in [Mob -> Thread \cup {NoThread}]
        /\ \A m \in Mob \ used : owner[m] = NoThread
        /\ lost \in BOOLEAN
    OBVIOUS
  <2>4. /\ pc \in [Thread -> Label] /\ cur \in [Thread -> Model]
        /\ call \in [Thread -> [op : Ops, key : Key, val : Val \cup {NoVal}] \cup {Idle}]
        /\ mob \in [Thread -> Mob \cup {NoMob}]
        /\ res \in [Thread -> {"none", "ok", "failed", "retrain"}]
        /\ done \in [Thread -> Nat]
    OBVIOUS
  <2>5. held \in [Thread -> Seq(Mob)]
    <3>1. <<>> \in Seq(Mob)
      OBVIOUS
    <3>2. QED
      BY <3>1
  <2>6. QED
    BY <2>1, <2>2, <2>3, <2>4, <2>5 DEF TypeOK
<1>2. HeldInv /\ InsideInv /\ PrivateInv
  BY DEF HeldInv, InsideInv, Inside, PrivateInv, Private
<1>3. AllocatedInv
  BY DEF AllocatedInv
<1>4. RetrainInv /\ CallInv /\ NoRetrainSeen
  BY DEF RetrainInv, CallInv, NoRetrainSeen
<1>5. QED
  BY <1>1, <1>2, <1>3, <1>4 DEF IInv

\* No step of a thread, and no step of none, leaves the invariant.
LEMMA NextIInv ==
    ASSUME IInv, [Next]_vars
    PROVE  IInv'
<1>1. CASE Next
  <2>1. PICK t \in Thread : Call(t) \/ Step(t)
    BY <1>1 DEF Next
  <2>2. CASE Call(t)
    BY <2>2, CallStep
  <2>3. CASE ReadFlag(t) \/ ReadValue(t) \/ SetFlag(t) \/ WriteValue(t) \/ ClearFlag(t)
    BY <2>3, ReadFlagStep, ReadValueStep, SetFlagStep, WriteValueStep, ClearFlagStep
  <2>4. CASE ReadSlot(t) \/ MissSlot(t) \/ NewSlot(t) \/ Recheck(t) \/ Publish(t)
    BY <2>4, ReadSlotStep, MissSlotStep, NewSlotStep, RecheckStep, PublishStep
  <2>5. CASE Lock(t) \/ Descend(t)
    BY <2>5, LockStep, DescendStep
  <2>6. CASE BinFails(t) \/ BinFinds(t) \/ BinChanges(t) \/ BinAsks(t) \/ Retrain(t)
    BY <2>6, BinFailsStep, BinFindsStep, BinChangesStep, BinAsksStep, RetrainStep
  <2>7. CASE Unlock(t) \/ Return(t)
    BY <2>7, UnlockStep, ReturnStep
  <2>8. QED
    BY <2>1, <2>2, <2>3, <2>4, <2>5, <2>6, <2>7 DEF Step
<1>2. CASE UNCHANGED vars
  <2>1. UNCHANGED <<TypeOK, HeldInv, InsideInv, PrivateInv>>
    BY <1>2 DEF vars, memory, local, TypeOK, HeldInv, InsideInv, Inside, PrivateInv,
                Private
  <2>2. UNCHANGED <<AllocatedInv, RetrainInv, CallInv, NoRetrainSeen>>
    BY <1>2 DEF vars, memory, local, AllocatedInv, RetrainInv, CallInv, key,
                NoRetrainSeen
  <2>3. QED
    BY <2>1, <2>2 DEF IInv
<1>3. QED
  BY <1>1, <1>2

\* The invariant holds in every state of every run.
THEOREM Invariance == Spec => []IInv
<1>1. Init => IInv
  BY InitIInv
<1>2. IInv /\ [Next]_vars => IInv'
  BY NextIInv
<1>3. QED
  BY <1>1, <1>2, PTL DEF Spec

\* For any number of threads and records every variable of AidelModel keeps
\* its type, and a deleted model_or_bin is never left locked.
THEOREM TypeCorrect == Spec => []TypeOK
<1>1. IInv => TypeOK
  BY DEF IInv
<1>2. QED
  BY <1>1, Invariance, PTL

\* For any number of threads at most one is inside a slot's bin or replaces
\* it by a model: the locks that model_or_bin::lock takes, and those a record
\* is born with in insert_model_or_bin, exclude each other.
THEOREM SlotsAreExclusive == Spec => []MutualExclusion
<1>1. IInv => MutualExclusion
  BY OneInside
<1>2. QED
  BY <1>1, Invariance, PTL

\* For any number of threads the assertions of find, update and remove
\* (aidel_model_impl.h lines 205, 366, 513) hold: none of them is ever handed
\* the result retrain.
THEOREM RetrainIsNeverSeen == Spec => []NoRetrainSeen
<1>1. IInv => NoRetrainSeen
  BY DEF IInv
<1>2. QED
  BY <1>1, Invariance, PTL

-----------------------------------------------------------------------------
(* The way of a search: what is stored is found. *)

\* The search for the key comes through this model: every set of models that
\* has Top in it and that the search does not leave has this one, too.
OnPath(m, k) == \A S \in SUBSET Model : Top \in S /\ (\A n \in S : Below(n, k) \in S) => m \in S

\* The models form no circle.
DepthInv ==
    \E depth \in [Model -> Nat] :
        \A m \in Model, g \in Gap : mobs[m][g] # NoMob => depth[m] < depth[mobs[m][g]]

\* What has not been trained has no array, what is trained or unknown no bin.
Blank(m) == isbin[m] /\ \A k \in Key : bin[m][k] = NoVal
BinInv ==
    /\ \A m \in Mob : isbin[m] => arr[m] = {} /\ \A g \in Gap : mobs[m][g] = NoMob
    /\ \A m \in Mob : ~isbin[m] => \A k \in Key : bin[m][k] = NoVal
    /\ \A m \in Mob \ used : Blank(m)
    /\ \A t \in Thread : Private(t) => Blank(mob[t])
    /\ \A m \in Model : valid[m] \subseteq arr[m] /\ \A k \in arr[m] : vals[m][k] \in Val

\* Where a call is in its model.
AtEntry == {"read", "write", "revive", "flag", "clear"}
AtSlot  == {"recheck", "publish", "lock", "inside", "retrain"}
PlaceOf(t) ==
    /\ cur[t] # Top => pc[t] # "idle" /\ ~isbin[cur[t]]
    /\ pc[t] \in AtEntry => key(t) \in arr[cur[t]]
    /\ pc[t] \in AtSlot => key(t) \notin arr[cur[t]]
    /\ pc[t] = "retrain" => isbin[mob[t]]
OpOf(t) ==
    /\ pc[t] # "idle" => call[t].val \in (IF call[t].op \in {"insert", "update"} THEN Val ELSE {NoVal})
    /\ pc[t] \in {"revive", "flag", "recheck", "publish", "retrain"} => call[t].op = "insert"
    /\ pc[t] = "write" => call[t].op \in {"insert", "update"}
    /\ pc[t] = "read" => call[t].op = "find"
    /\ pc[t] = "clear" => call[t].op = "remove"
PlaceInv == \A t \in Thread : PlaceOf(t) /\ OpOf(t)

\* Calls and keys are on the way of the search, unless a slot was overwritten.
WayOf(t) ==
    /\ pc[t] # "idle" => OnPath(cur[t], key(t))
    /\ pc[t] \in {"lock", "inside", "retrain"} => Slot(t) = mob[t]
Binned(m, k) == \E n \in Model : OnPath(n, k) /\ k \notin arr[n] /\ mobs[n][GapOf(n, k)] = m
WayInv ==
    ~lost =>
        /\ \A t \in Thread : WayOf(t)
        /\ \A m \in Mob, k \in Key : bin[m][k] # NoVal => Binned(m, k)
        /\ \A m \in Model, k \in Key : k \in arr[m] => OnPath(m, k)

RouteInv == DepthInv /\ BinInv /\ PlaceInv /\ WayInv

\* What the index held during a call, as far as its answer depends on it.
Absent(t)  == NoVal \in seen[t]
Present(t) == seen[t] \cap Val # {}
SeenOf(t) ==
    /\ pc[t] # "idle" => Holds(key(t)) \in seen[t]
    /\ pc[t] \in {"read", "clear"} \/ (pc[t] = "write" /\ call[t].op = "update") => Present(t)
    /\ pc[t] \in {"revive", "flag"} \/ (pc[t] = "write" /\ call[t].op = "insert") => Absent(t)
    /\ pc[t] = "unlock" => IF (res[t] = "ok") = (call[t].op = "insert") THEN Absent(t) ELSE Present(t)
SeenInv == ~lost => \A t \in Thread : SeenOf(t)

LEMMA BelowType ==
    ASSUME TypeOK, NEW m \in Model, NEW k \in Key
    PROVE  Below(m, k) \in Model
<1>1. GapOf(m, k) \in Gap
  BY GapOfType
<1>2. QED
  BY <1>1, NullsAssumption DEF TypeOK, Below, Model

LEMMA BelowIsDeeper ==
    ASSUME TypeOK, NEW depth \in [Model -> Nat],
           \A m \in Model, g \in Gap : mobs[m][g] # NoMob => depth[m] < depth[mobs[m][g]],
           NEW m \in Model, NEW k \in Key, Below(m, k) # m
    PROVE  depth[m] < depth[Below(m, k)]
<1>1. GapOf(m, k) \in Gap
  BY GapOfType
<1>2. QED
  BY <1>1 DEF Below

LEMMA ModelsAreFinite == IsFiniteSet(Model) /\ Cardinality(Mob) \in Nat /\ Cardinality(Model) = Cardinality(Mob) + 1
  BY MobAssumption, NullsAssumption, FS_AddElement, FS_CardinalityType DEF Model

\* Every search ends, and where a search ends is its leaf.
LEMMA LeafEnds ==
    ASSUME TypeOK, DepthInv, NEW k \in Key
    PROVE  /\ Leaf(k) \in Model /\ OnPath(Leaf(k), k) /\ Below(Leaf(k), k) = Leaf(k)
           /\ \A c \in Model : OnPath(c, k) /\ Below(c, k) = c => c = Leaf(k)
<1> DEFINE n == Cardinality(Mob)
           b == [m \in Model |-> Below(m, k)]
           D == CHOOSE h : h = [i \in 0 .. n |-> IF i = 0 THEN Top ELSE b[h[i - 1]]]
<1>1. n \in Nat /\ IsFiniteSet(Model) /\ Cardinality(Model) <= n + 1 /\ Top \in Model
  <2>1. Top \in Model
    BY DEF Model
  <2>2. QED
    BY <2>1, ModelsAreFinite
<1>2. Into(Model, b) /\ \A m \in Model : b[m] = Below(m, k)
  BY BelowType DEF Into
<1>3. Leaf(k) = D[n]
  BY Zenon DEF Leaf
<1> HIDE DEF n, b, D
<1>4. IsWalk(Model, b, n, D) /\ D[0] = Top
  <2>1. D = CHOOSE h : h = [i \in 0 .. n |-> IF i = 0 THEN Top ELSE b[h[i - 1]]]
    BY Zenon DEF D
  <2>2. QED
    BY <1>1, <1>2, <2>1, Descent
<1>5. D[n] \in Model /\ \A i \in 0 .. n : D[i] \in Model
  <2>1. n \in 0 .. n
    BY <1>1
  <2>2. QED
    BY <1>4, <2>1 DEF IsWalk
<1>6. b[D[n]] = D[n]
  <2>1. PICK depth \in [Model -> Nat] :
            \A m \in Model, g \in Gap : mobs[m][g] # NoMob => depth[m] < depth[mobs[m][g]]
    BY DEF DepthInv
  <2>2. \A m \in Model : b[m] # m => depth[m] < depth[b[m]]
    BY <1>2, <2>1, BelowIsDeeper
  <2>3. QED
    BY <1>1, <1>2, <1>4, <2>2, WalkIsFinite
<1>7. OnPath(D[n], k)
  <2> SUFFICES ASSUME NEW S \in SUBSET Model, Top \in S, \A m \in S : Below(m, k) \in S
               PROVE  D[n] \in S
    BY DEF OnPath
  <2>1. \A m \in S : b[m] \in S
    BY <1>2
  <2>2. \A i \in 0 .. n : D[i] \in S
    BY <1>1, <1>2, <1>4, <2>1, WalkStaysIn
  <2>3. QED
    BY <1>1, <2>2
<1>8. ASSUME NEW c \in Model, OnPath(c, k), Below(c, k) = c PROVE c = D[n]
  <2> DEFINE S == {D[i] : i \in 0 .. n}
  <2>1. S \in SUBSET Model /\ Top \in S
    <3>1. 0 \in 0 .. n
      BY <1>1
    <3>2. QED
      BY <1>4, <1>5, <3>1
  <2>2. ASSUME NEW m \in S PROVE Below(m, k) \in S
    <3>1. PICK i \in 0 .. n : m = D[i]
      BY <2>2
    <3>2. Below(m, k) = b[D[i]]
      BY <1>2, <1>5, <3>1
    <3>3. CASE i = n
      BY <1>6, <3>1, <3>2, <3>3
    <3>4. CASE i # n
      <4>1. i + 1 \in 1 .. n /\ i + 1 \in 0 .. n /\ (i + 1) - 1 = i
        BY <1>1, <3>4
      <4>2. b[D[i]] = D[i + 1]
        BY <1>4, <4>1 DEF IsWalk
      <4>3. QED
        BY <3>2, <4>1, <4>2
    <3>5. QED
      BY <3>3, <3>4
  <2>3. c \in S
    <3> HIDE DEF S
    <3>1. QED
      BY <1>8, <2>1, <2>2 DEF OnPath
  <2>4. PICK i \in 0 .. n : c = D[i]
    BY <2>3
  <2>5. b[D[i]] = D[i]
    BY <1>2, <1>8, <2>4
  <2>6. QED
    BY <1>1, <1>2, <1>4, <2>4, <2>5, WalkEnds
<1>9. QED
  BY <1>2, <1>3, <1>5, <1>6, <1>7, <1>8

-----------------------------------------------------------------------------
(* What a step leaves as it is. *)

Quiet(t) == Call(t) \/ (Step(t) /\ ~Publish(t) /\ ~Retrain(t))
Elsewhere(t) ==
    \A s \in Thread \ {t} :
        pc'[s] = pc[s] /\ call'[s] = call[s] /\ cur'[s] = cur[s] /\ mob'[s] = mob[s] /\ res'[s] = res[s]

LEMMA OthersWait ==
    ASSUME TypeOK, NEW t \in Thread, Call(t) \/ Step(t)
    PROVE  Elsewhere(t)
<1> USE DEF TypeOK, Elsewhere, GoTo, Finish, local
<1>1. CASE Call(t)
  BY <1>1 DEF Call
<1>2. CASE ReadFlag(t) \/ ReadValue(t) \/ SetFlag(t) \/ WriteValue(t) \/ ClearFlag(t)
  BY <1>2 DEF ReadFlag, ReadValue, SetFlag, WriteValue, ClearFlag
<1>3. CASE ReadSlot(t) \/ MissSlot(t) \/ NewSlot(t) \/ Recheck(t) \/ Publish(t)
  BY <1>3 DEF ReadSlot, MissSlot, NewSlot, Recheck, Publish
<1>4. CASE Lock(t) \/ Descend(t) \/ Unlock(t) \/ Return(t)
  BY <1>4 DEF Lock, Descend, Unlock, Return
<1>5. CASE BinFails(t) \/ BinFinds(t) \/ BinChanges(t) \/ BinAsks(t) \/ Retrain(t)
  BY <1>5 DEF BinFails, BinFinds, BinChanges, BinAsks, Retrain
<1>6. QED
  BY <1>1, <1>2, <1>3, <1>4, <1>5 DEF Step

\* Only publishing and retraining change the tree of models.
LEMMA TreeStays ==
    ASSUME NEW t \in Thread, Quiet(t)
    PROVE  UNCHANGED <<arr, mobs, isbin, lost>>
<1> USE DEF memory, entries, slots
<1>1. CASE Call(t)
  BY <1>1 DEF Call
<1>2. CASE ReadFlag(t) \/ ReadValue(t) \/ SetFlag(t) \/ WriteValue(t) \/ ClearFlag(t)
  BY <1>2 DEF ReadFlag, ReadValue, SetFlag, WriteValue, ClearFlag
<1>3. CASE ReadSlot(t) \/ MissSlot(t) \/ NewSlot(t) \/ Recheck(t)
  BY <1>3 DEF ReadSlot, MissSlot, NewSlot, Recheck
<1>4. CASE Lock(t) \/ Descend(t) \/ Unlock(t) \/ Return(t)
  BY <1>4 DEF Lock, Descend, Unlock, Return
<1>5. CASE BinFails(t) \/ BinFinds(t) \/ BinChanges(t) \/ BinAsks(t)
  BY <1>5 DEF BinFails, BinFinds, BinChanges, BinAsks
<1>6. QED
  BY <1>1, <1>2, <1>3, <1>4, <1>5 DEF Step, Quiet

LEMMA SameLeaf ==
    ASSUME NEW k, \A m \in Model : Below(m, k)' = Below(m, k)
    PROVE  Leaf(k)' = Leaf(k)
<1> DEFINE End(b) == (CHOOSE h : h = [d \in 0 .. Cardinality(Mob) |-> IF d = 0 THEN Top ELSE b[h[d - 1]]])
                         [Cardinality(Mob)]
<1>1. Leaf(k) = End([m \in Model |-> Below(m, k)])
  BY Zenon DEF Leaf
<1>2. Leaf(k)' = End([m \in Model |-> Below(m, k)'])
  BY Zenon DEF Leaf
<1>3. [m \in Model |-> Below(m, k)'] = [m \in Model |-> Below(m, k)]
  OBVIOUS
<1> HIDE DEF End
<1>4. QED
  BY <1>1, <1>2, <1>3

LEMMA SameTree ==
    ASSUME UNCHANGED <<arr, mobs, isbin>>
    PROVE  /\ \A m, k : GapOf(m, k)' = GapOf(m, k) /\ Below(m, k)' = Below(m, k)
           /\ \A m, k : OnPath(m, k)' = OnPath(m, k)
           /\ \A k : Leaf(k)' = Leaf(k)
<1>1. \A m, k : GapOf(m, k)' = GapOf(m, k)
  BY DEF GapOf
<1>2. \A m, k : Below(m, k)' = Below(m, k)
  BY <1>1 DEF Below
<1>3. \A m, k : OnPath(m, k)' = OnPath(m, k)
  BY <1>2 DEF OnPath
<1>4. \A k : Leaf(k)' = Leaf(k)
  BY <1>2, SameLeaf
<1>5. QED
  BY <1>1, <1>2, <1>3, <1>4

\* Who is inside a slot has a record in use, which nobody else has.
LEMMA InsideIsUsed ==
    ASSUME IInv, NEW t \in Thread, Inside(t)
    PROVE  /\ mob[t] \in Mob /\ mob[t] \in used /\ owner[mob[t]] = t
           /\ \A s \in Thread : s # t /\ (Inside(s) \/ Private(s)) => mob[s] # mob[t]
<1>1. mob[t] \in Mob /\ owner[mob[t]] = t
  <2>1. held[t] \in Seq(Mob) /\ held[t] # <<>> /\ mob[t] \in Mob /\ held[t][Len(held[t])] = mob[t]
    BY DEF IInv, TypeOK, InsideInv
  <2>2. Len(held[t]) \in 1 .. Len(held[t])
    BY <2>1, LenProperties, EmptySeq
  <2>3. QED
    BY <2>1, <2>2 DEF IInv, HeldInv
<1>2. mob[t] \in used
  BY <1>1, NullsAssumption DEF IInv, TypeOK
<1>3. \A s \in Thread : s # t /\ Private(s) => mob[s] # mob[t]
  BY <1>1 DEF IInv, PrivateInv
<1>4. \A s \in Thread : s # t /\ Inside(s) => mob[s] # mob[t]
  BY OneInside DEF MutualExclusion
<1>5. QED
  BY <1>1, <1>2, <1>3, <1>4

-----------------------------------------------------------------------------
(* The models form a tree. *)

LEMMA NextDepth ==
    ASSUME IInv, DepthInv, BinInv, PlaceInv, NEW t \in Thread, Call(t) \/ Step(t)
    PROVE  DepthInv'
<1>1. CASE ~Publish(t)
  <2>1. UNCHANGED mobs
    <3>1. CASE Retrain(t)
      BY <3>1 DEF Retrain
    <3>2. CASE ~Retrain(t)
      BY <1>1, <3>2, TreeStays DEF Quiet
    <3>3. QED
      BY <3>1, <3>2
  <2>2. QED
    BY <2>1 DEF DepthInv
<1>2. CASE Publish(t)
  <2>1. PICK depth \in [Model -> Nat] :
            \A m \in Model, g \in Gap : mobs[m][g] # NoMob => depth[m] < depth[mobs[m][g]]
    BY DEF DepthInv
  <2> DEFINE new == mob[t]
             g0 == GapOf(cur[t], key(t))
             deep == [m \in Model |-> IF m = new THEN depth[cur[t]] + 1 ELSE depth[m]]
  <2>2. new \in Mob /\ new \in Model /\ cur[t] \in Model /\ g0 \in Gap
    BY <1>2, GapOfType DEF IInv, TypeOK, CallInv, PrivateInv, Private, Publish, Model
  <2>3. \A m \in Model, g \in Gap : mobs[m][g] # new
    BY <1>2 DEF IInv, PrivateInv, Private, Publish
  <2>4. \A m \in Model, g \in Gap : mobs'[m][g] = IF m = cur[t] /\ g = g0 THEN new ELSE mobs[m][g]
    BY <1>2, <2>2 DEF IInv, TypeOK, Publish
  <2>5. \A m \in Model, g \in Gap : mobs[m][g] \in Mob \cup {NoMob}
    BY DEF IInv, TypeOK
  <2> HIDE DEF g0
  <2>6. cur[t] # new /\ \A g \in Gap : mobs[new][g] = NoMob
    <3>1. isbin[new] /\ (cur[t] # Top => ~isbin[cur[t]])
      BY <1>2 DEF BinInv, Blank, PlaceInv, PlaceOf, Private, Publish
    <3>2. QED
      BY <2>2, <3>1, NullsAssumption DEF BinInv
  <2>7. deep \in [Model -> Nat]
    BY <2>1, <2>2
  <2>8. ASSUME NEW m \in Model, NEW g \in Gap, mobs'[m][g] # NoMob
        PROVE  deep[m] < deep[mobs'[m][g]]
    <3>1. CASE m = cur[t] /\ g = g0
      <4>1. deep[m] = depth[cur[t]] /\ deep[new] = depth[cur[t]] + 1 /\ depth[cur[t]] \in Nat
        BY <2>1, <2>2, <2>6, <3>1
      <4>2. QED
        BY <2>4, <3>1, <4>1
    <3>2. CASE ~(m = cur[t] /\ g = g0)
      <4>1. mobs'[m][g] = mobs[m][g] /\ mobs[m][g] \in Model /\ mobs[m][g] # new /\ m # new
        BY <2>3, <2>4, <2>5, <2>8, <2>6, <3>2 DEF Model
      <4>2. depth[m] < depth[mobs[m][g]]
        BY <2>1, <2>8, <4>1
      <4>3. QED
        BY <4>1, <4>2
    <3>3. QED
      BY <3>1, <3>2
  <2>9. QED
    BY <2>7, <2>8 DEF DepthInv
<1>3. QED
  BY <1>1, <1>2

-----------------------------------------------------------------------------
(* Bins and arrays, and what a call is about. *)

LEMMA OthersPlace ==
    ASSUME NEW t \in Thread, Elsewhere(t), NEW s \in Thread, s # t, PlaceOf(s), OpOf(s),
           cur[s] # Top => ~isbin'[cur[s]],
           arr'[cur[s]] = arr[cur[s]], pc[s] = "retrain" => isbin'[mob[s]]
    PROVE  PlaceOf(s)' /\ OpOf(s)'
<1>1. pc'[s] = pc[s] /\ call'[s] = call[s] /\ cur'[s] = cur[s] /\ mob'[s] = mob[s]
  BY DEF Elsewhere
<1>2. PlaceOf(s)'
  BY <1>1 DEF PlaceOf, key
<1>3. OpOf(s)'
  BY <1>1 DEF OpOf
<1>4. QED
  BY <1>2, <1>3

LEMMA CallPlace ==
    ASSUME IInv, PlaceInv, NEW t \in Thread, Call(t) \/ Return(t)
    PROVE  PlaceOf(t)' /\ OpOf(t)'
<1> USE DEF PlaceInv, PlaceOf, OpOf, AtEntry, AtSlot, GoTo, IInv, TypeOK, memory, entries, slots
<1>1. CASE Call(t)
  <2>1. PICK op \in Ops, k \in Key, v \in Val :
           call' = [call EXCEPT ![t] = [op |-> op, key |-> k, val |-> IF op \in {"insert", "update"} THEN v ELSE NoVal]]
    BY <1>1 DEF Call
  <2>2. /\ call'[t].op = op /\ call'[t].val = IF op \in {"insert", "update"} THEN v ELSE NoVal
    BY <2>1
  <2>3. pc[t] = "idle" /\ pc'[t] = "start" /\ cur'[t] = cur[t]
    BY <1>1 DEF Call
  <2>4. QED
    BY <2>2, <2>3
<1>2. CASE Return(t)
  BY <1>2 DEF Return
<1>3. QED
  BY <1>1, <1>2

LEMMA EntryPlace ==
    ASSUME IInv, PlaceInv, NEW t \in Thread,
           ReadFlag(t) \/ ReadValue(t) \/ SetFlag(t) \/ WriteValue(t) \/ ClearFlag(t)
    PROVE  PlaceOf(t)' /\ OpOf(t)'
<1> USE DEF PlaceInv, PlaceOf, OpOf, AtEntry, AtSlot, GoTo, Finish, IInv, TypeOK, memory, slots, key
<1>1. CASE ReadFlag(t)
  <2>1. /\ pc[t] = "start" /\ key(t) \in arr[cur[t]] /\ UNCHANGED <<arr, isbin, call, cur>>
        /\ \/ pc'[t] = "unlock"
           \/ /\ pc'[t] \in {"read", "write", "revive", "clear"}
              /\ pc'[t] = "read" => call[t].op = "find"
              /\ pc'[t] = "write" => call[t].op = "update"
              /\ pc'[t] = "revive" => call[t].op = "insert"
              /\ pc'[t] = "clear" => call[t].op = "remove"
    <3>1. pc[t] = "start" /\ key(t) \in arr[cur[t]] /\ UNCHANGED <<arr, isbin, call, cur>>
      BY <1>1 DEF ReadFlag, InArray
    <3>2. call[t].op \in Ops /\ pc \in [Thread -> Label]
      BY <3>1 DEF Idle, Ops
    <3>3. CASE pc' = [pc EXCEPT ![t] = "unlock"]
      BY <3>1, <3>3
    <3>4. CASE pc' = [pc EXCEPT ![t] = CASE call[t].op = "find"   -> "read"
                                         [] call[t].op = "update" -> "write"
                                         [] call[t].op = "insert" -> "revive"
                                         [] call[t].op = "remove" -> "clear"]
      BY <3>1, <3>2, <3>4 DEF Ops
    <3>5. QED
      BY <1>1, <3>3, <3>4 DEF ReadFlag
  <2>2. QED
    BY <2>1
<1>2. CASE ReadValue(t)
  BY <1>2 DEF ReadValue, entries
<1>3. CASE SetFlag(t)
  BY <1>3 DEF SetFlag
<1>4. CASE WriteValue(t)
  BY <1>4 DEF WriteValue
<1>5. CASE ClearFlag(t)
  BY <1>5 DEF ClearFlag
<1>6. QED
  BY <1>1, <1>2, <1>3, <1>4, <1>5

LEMMA SlotPlace ==
    ASSUME IInv, PlaceInv, NEW t \in Thread,
           ReadSlot(t) \/ MissSlot(t) \/ NewSlot(t) \/ Recheck(t) \/ Publish(t) \/ Lock(t) \/ Descend(t)
    PROVE  PlaceOf(t)' /\ OpOf(t)'
<1> USE DEF PlaceInv, PlaceOf, OpOf, AtEntry, AtSlot, GoTo, Finish, IInv, TypeOK, memory, slots, entries, key
<1>1. CASE ReadSlot(t)
  BY <1>1 DEF ReadSlot, InArray
<1>2. CASE MissSlot(t)
  BY <1>2 DEF MissSlot
<1>3. CASE NewSlot(t)
  BY <1>3 DEF NewSlot, InArray
<1>4. CASE Recheck(t)
  BY ZenonT(60), <1>4 DEF Recheck
<1>5. CASE Publish(t)
  BY <1>5 DEF Publish
<1>6. CASE Lock(t)
  BY <1>6 DEF Lock
<1>7. CASE Descend(t)
  BY <1>7 DEF Descend
<1>8. QED
  BY <1>1, <1>2, <1>3, <1>4, <1>5, <1>6, <1>7

LEMMA BinPlace ==
    ASSUME IInv, PlaceInv, NEW t \in Thread,
           BinFails(t) \/ BinFinds(t) \/ BinChanges(t) \/ BinAsks(t) \/ Retrain(t) \/ Unlock(t)
    PROVE  PlaceOf(t)' /\ OpOf(t)'
<1> USE DEF PlaceInv, PlaceOf, OpOf, AtEntry, AtSlot, GoTo, Finish, IInv, TypeOK, memory, slots, entries, key
<1>1. CASE BinFails(t)
  BY <1>1 DEF BinFails, InBin
<1>2. CASE BinFinds(t)
  BY <1>2 DEF BinFinds, InBin
<1>3. CASE BinChanges(t)
  BY <1>3 DEF BinChanges, InBin
<1>4. CASE BinAsks(t)
  BY <1>4 DEF BinAsks, InBin
<1>5. CASE Retrain(t)
  <2>1. mob[t] \in Mob
    BY <1>5, InsideIsUsed DEF Retrain, Inside
  <2>2. QED
    BY <1>5, <2>1 DEF Retrain
<1>6. CASE Unlock(t)
  BY <1>6 DEF Unlock
<1>7. QED
  BY <1>1, <1>2, <1>3, <1>4, <1>5, <1>6

\* A record is replaced by a model once, by the one thread inside.
LEMMA RetrainChanges ==
    ASSUME IInv, BinInv, PlaceInv, NEW t \in Thread, Retrain(t), NEW m, m = mob[t]
    PROVE  /\ m \in Mob /\ m # Top /\ isbin[m] /\ arr[m] = {} /\ m \in used
           /\ isbin' = [isbin EXCEPT ![m] = FALSE] /\ arr' = [arr EXCEPT ![m] = Keys(m)]
           /\ valid' = [valid EXCEPT ![m] = Keys(m)] /\ vals' = [vals EXCEPT ![m] = bin[m]]
           /\ bin' = [bin EXCEPT ![m] = Empty] /\ cur' = [cur EXCEPT ![t] = m]
           /\ UNCHANGED <<mobs, owner, used, call, mob, held, res, done, lost>>
           /\ pc[t] = "retrain" /\ pc' = [pc EXCEPT ![t] = "start"]
           /\ \A s \in Thread : cur[s] # m
           /\ \A s \in Thread \ {t} : Inside(s) \/ Private(s) => mob[s] # m
<1>1. pc[t] = "retrain" /\ Inside(t)
  BY DEF Retrain, Inside
<1>2. m \in Mob /\ m \in used /\ \A s \in Thread \ {t} : Inside(s) \/ Private(s) => mob[s] # m
  BY <1>1, InsideIsUsed
<1>3. isbin[m] /\ m # Top /\ arr[m] = {}
  BY <1>1, <1>2, NullsAssumption DEF PlaceInv, PlaceOf, BinInv
<1>4. \A s \in Thread : cur[s] # m
  BY <1>3 DEF PlaceInv, PlaceOf
<1>5. QED
  BY <1>1, <1>2, <1>3, <1>4 DEF Retrain, GoTo

LEMMA NextPlace ==
    ASSUME IInv, BinInv, PlaceInv, NEW t \in Thread, Call(t) \/ Step(t)
    PROVE  PlaceInv'
<1>1. PlaceOf(t)' /\ OpOf(t)'
  BY CallPlace, EntryPlace, SlotPlace, BinPlace DEF Step
<1>2. Elsewhere(t)
  BY OthersWait DEF IInv
<1>3. ASSUME NEW s \in Thread, s # t PROVE PlaceOf(s)' /\ OpOf(s)'
  <2>1. PlaceOf(s) /\ OpOf(s) /\ cur[s] \in Model
    BY DEF PlaceInv, IInv, TypeOK
  <2>2. CASE Retrain(t)
    <3> DEFINE m == mob[t]
    <3>1. /\ m \in Mob /\ isbin' = [isbin EXCEPT ![m] = FALSE] /\ arr' = [arr EXCEPT ![m] = Keys(m)]
          /\ cur[s] # m /\ (Inside(s) => mob[s] # m)
      BY <1>3, <2>2, RetrainChanges
    <3>2. arr'[cur[s]] = arr[cur[s]] /\ (cur[s] # Top => ~isbin'[cur[s]])
      BY <2>1, <3>1 DEF IInv, TypeOK, PlaceOf, Model
    <3>3. pc[s] = "retrain" => isbin'[mob[s]]
      BY <2>1, <3>1, InsideIsUsed DEF IInv, TypeOK, PlaceOf, Inside
    <3>4. QED
      BY <1>2, <1>3, <2>1, <3>2, <3>3, OthersPlace
  <2>3. CASE ~Retrain(t)
    <3>1. UNCHANGED <<arr, isbin>>
      <4>1. CASE Publish(t)
        BY <4>1 DEF Publish, entries
      <4>2. CASE ~Publish(t)
        BY <2>3, <4>2, TreeStays DEF Quiet
      <4>3. QED
        BY <4>1, <4>2
    <3>2. QED
      BY <1>2, <1>3, <2>1, <3>1, OthersPlace DEF PlaceOf
  <2>4. QED
    BY <2>2, <2>3
<1>4. QED
  BY <1>1, <1>3 DEF PlaceInv

\* Steps that touch neither a bin nor an array, nor take a record.
LEMMA QuietBin ==
    ASSUME IInv, BinInv, NEW t \in Thread, UNCHANGED <<arr, valid, vals, mobs, isbin, bin, used>>,
           Elsewhere(t), Private(t)' => Private(t) /\ mob'[t] = mob[t]
    PROVE  BinInv'
<1>1. \A m : Blank(m)' <=> Blank(m)
  BY DEF Blank
<1>2. ASSUME NEW s \in Thread, Private(s)' PROVE Private(s) /\ mob'[s] = mob[s]
  BY <1>2 DEF Elsewhere, Private
<1>3. QED
  BY <1>1, <1>2 DEF BinInv

LEMMA EntryBin ==
    ASSUME IInv, BinInv, PlaceInv, NEW t \in Thread, SetFlag(t) \/ WriteValue(t) \/ ClearFlag(t)
    PROVE  BinInv'
<1>1. Elsewhere(t)
  BY OthersWait DEF IInv, Step
<1>2. /\ UNCHANGED <<arr, mobs, isbin, bin, used, mob>>
      /\ pc[t] \in {"revive", "flag", "write", "clear"} /\ pc'[t] \in {"write", "flag", "unlock"}
  BY DEF SetFlag, WriteValue, ClearFlag, slots, GoTo, Finish, IInv, TypeOK
<1>3. \A m : Blank(m)' <=> Blank(m)
  BY <1>2 DEF Blank
<1>4. \A s \in Thread : Private(s)' => Private(s)
  BY <1>1, <1>2 DEF Elsewhere, Private
<1>5. key(t) \in arr[cur[t]] /\ key(t) \in Key /\ cur[t] \in Model
  BY <1>2 DEF PlaceInv, PlaceOf, AtEntry, IInv, TypeOK, CallInv
<1>6. \A m \in Model : valid'[m] \subseteq arr[m] /\ \A k \in arr[m] : vals'[m][k] \in Val
  <2>1. CASE SetFlag(t)
    BY <1>5, <2>1 DEF SetFlag, BinInv, IInv, TypeOK
  <2>2. CASE WriteValue(t)
    <3>1. call[t].val \in Val
      BY <2>2 DEF WriteValue, PlaceInv, OpOf
    <3>2. valid' = valid /\ vals' = [vals EXCEPT ![cur[t]][key(t)] = call[t].val]
      BY <2>2 DEF WriteValue
    <3>3. \A m \in Model, k \in Key : vals'[m][k] = IF m = cur[t] /\ k = key(t) THEN call[t].val ELSE vals[m][k]
      BY <1>5, <3>2 DEF IInv, TypeOK
    <3>4. \A m \in Model : arr[m] \subseteq Key
      BY DEF IInv, TypeOK
    <3>5. QED
      BY <3>1, <3>2, <3>3, <3>4 DEF BinInv
  <2>3. CASE ClearFlag(t)
    BY <1>5, <2>3 DEF ClearFlag, BinInv, IInv, TypeOK
  <2>4. QED
    BY <2>1, <2>2, <2>3
<1>7. QED
  BY <1>2, <1>3, <1>4, <1>6 DEF BinInv

LEMMA NewSlotBin ==
    ASSUME IInv, BinInv, NEW t \in Thread, NewSlot(t)
    PROVE  BinInv'
<1>1. Elsewhere(t)
  BY OthersWait DEF IInv, Step
<1>2. UNCHANGED <<arr, valid, vals, mobs, isbin, bin>>
  BY DEF NewSlot, entries
<1>3. used \subseteq used' /\ mob'[t] \in Mob \ used
  BY DEF NewSlot, IInv, TypeOK
<1>4. \A m : Blank(m)' <=> Blank(m)
  BY <1>2 DEF Blank
<1>5. ASSUME NEW s \in Thread, Private(s)' PROVE Blank(mob'[s])
  <2>1. CASE s = t
    BY <1>3, <2>1 DEF BinInv
  <2>2. CASE s # t
    BY <1>1, <1>5, <2>2 DEF BinInv, Elsewhere, Private
  <2>3. QED
    BY <2>1, <2>2
<1>6. QED
  BY <1>2, <1>3, <1>4, <1>5 DEF BinInv

LEMMA RecheckBin ==
    ASSUME IInv, BinInv, NEW t \in Thread, Recheck(t)
    PROVE  BinInv'
<1>1. Elsewhere(t)
  BY OthersWait DEF IInv, Step
<1>2. UNCHANGED <<arr, valid, vals, mobs, isbin, bin>>
  BY DEF Recheck, entries
<1>3. used \ used' \subseteq {mob[t]} /\ Private(t)
  BY DEF Recheck, Private
<1>4. \A m : Blank(m)' <=> Blank(m)
  BY <1>2 DEF Blank
<1>5. ASSUME NEW s \in Thread, Private(s)' PROVE Private(s) /\ mob'[s] = mob[s]
  BY <1>1, <1>5 DEF Elsewhere, Private, Recheck, GoTo, IInv, TypeOK
<1>6. \A m \in Mob \ used' : Blank(m)
  BY <1>3 DEF BinInv
<1>7. QED
  BY <1>2, <1>4, <1>5, <1>6 DEF BinInv

\* A record is published by a thread in a model, and has no slots of its own in use.
LEMMA PublishBin ==
    ASSUME IInv, BinInv, PlaceInv, NEW t \in Thread, Publish(t)
    PROVE  BinInv'
<1>1. Elsewhere(t)
  BY OthersWait DEF IInv, Step
<1>2. UNCHANGED <<arr, valid, vals, isbin, bin, used, mob>> /\ cur[t] \in Model
  BY DEF Publish, entries, IInv, TypeOK
<1>3. \A m : Blank(m)' <=> Blank(m)
  BY <1>2 DEF Blank
<1>4. \A s \in Thread : Private(s)' => Private(s)
  BY <1>1 DEF Elsewhere, Private, Publish, GoTo, IInv, TypeOK
<1>5. \A m \in Mob : isbin[m] => mobs'[m] = mobs[m]
  BY <1>2, NullsAssumption DEF Publish, PlaceInv, PlaceOf, IInv, TypeOK
<1>6. QED
  BY <1>2, <1>3, <1>4, <1>5 DEF BinInv

LEMMA BinChangesBin ==
    ASSUME IInv, BinInv, NEW t \in Thread, BinChanges(t)
    PROVE  BinInv'
<1>1. Elsewhere(t)
  BY OthersWait DEF IInv, Step
<1>2. UNCHANGED <<arr, valid, vals, mobs, isbin, used, mob>>
  BY DEF BinChanges, entries
<1>3. /\ mob[t] \in used /\ mob[t] \in Mob
      /\ \A s \in Thread : s # t /\ (Inside(s) \/ Private(s)) => mob[s] # mob[t]
  BY InsideIsUsed DEF BinChanges, InBin, Inside
<1>4. isbin[mob[t]] /\ \A m \in Mob : m # mob[t] => bin'[m] = bin[m]
  BY <1>3 DEF BinChanges, InBin, Put, IInv, TypeOK
<1>5. \A m \in Mob : m # mob[t] => (Blank(m)' <=> Blank(m))
  BY <1>2, <1>4 DEF Blank
<1>6. ASSUME NEW s \in Thread, Private(s)' PROVE Private(s) /\ mob[s] # mob[t]
  <2>1. pc'[t] = "unlock"
    BY DEF BinChanges, Finish, GoTo, IInv, TypeOK
  <2>2. s # t
    BY <1>6, <2>1 DEF Private
  <2>3. QED
    BY <1>1, <1>3, <1>6, <2>2 DEF Elsewhere, Private
<1>7. \A s \in Thread : Private(s) => mob[s] \in Mob
  BY DEF IInv, TypeOK, PrivateInv
<1>8. \A s \in Thread : Private(s)' => Blank(mob[s])'
  BY <1>2, <1>5, <1>6, <1>7 DEF BinInv
<1>9. \A m \in Mob \ used' : Blank(m)'
  BY <1>2, <1>3, <1>5 DEF BinInv
<1>10. QED
  BY <1>2, <1>4, <1>8, <1>9 DEF BinInv

LEMMA RetrainBin ==
    ASSUME IInv, BinInv, PlaceInv, NEW t \in Thread, Retrain(t)
    PROVE  BinInv'
<1>m. PICK m : m = mob[t]
  OBVIOUS
<1>1. Elsewhere(t)
  BY OthersWait DEF IInv, Step
<1>2. /\ m \in Mob /\ m # Top /\ isbin[m] /\ arr[m] = {} /\ m \in used
      /\ isbin' = [isbin EXCEPT ![m] = FALSE] /\ arr' = [arr EXCEPT ![m] = Keys(m)]
      /\ valid' = [valid EXCEPT ![m] = Keys(m)] /\ vals' = [vals EXCEPT ![m] = bin[m]]
      /\ bin' = [bin EXCEPT ![m] = Empty]
      /\ mobs' = mobs /\ used' = used /\ mob' = mob
      /\ pc' = [pc EXCEPT ![t] = "start"]
      /\ \A s \in Thread \ {t} : Inside(s) \/ Private(s) => mob[s] # m
  <2>1. /\ m \in Mob /\ m # Top /\ isbin[m] /\ arr[m] = {} /\ m \in used
        /\ \A s \in Thread \ {t} : Inside(s) \/ Private(s) => mob[s] # m
    BY SMTT(60), <1>m, RetrainChanges
  <2>2. /\ isbin' = [isbin EXCEPT ![m] = FALSE] /\ arr' = [arr EXCEPT ![m] = Keys(m)]
        /\ valid' = [valid EXCEPT ![m] = Keys(m)] /\ vals' = [vals EXCEPT ![m] = bin[m]]
        /\ bin' = [bin EXCEPT ![m] = Empty] /\ pc' = [pc EXCEPT ![t] = "start"]
    BY <1>m, RetrainChanges
  <2>3. mobs' = mobs /\ used' = used /\ mob' = mob
    BY <1>m, RetrainChanges
  <2>4. QED
    BY <2>1, <2>2, <2>3
<1>3. ASSUME NEW n \in Model, n # m
      PROVE  arr'[n] = arr[n] /\ valid'[n] = valid[n] /\ vals'[n] = vals[n]
  BY <1>2, <1>3 DEF IInv, TypeOK
<1>4. ASSUME NEW n \in Mob, n # m PROVE isbin'[n] = isbin[n] /\ bin'[n] = bin[n] /\ n \in Model
  BY <1>2, <1>4 DEF IInv, TypeOK, Model
<1>5. /\ ~isbin'[m] /\ bin'[m] = Empty /\ m \in Model
      /\ arr'[m] = Keys(m) /\ valid'[m] = Keys(m) /\ vals'[m] = bin[m]
  BY <1>2 DEF IInv, TypeOK, Model
<1>6. \A n \in Mob : n # m => (Blank(n)' <=> Blank(n))
  BY <1>4 DEF Blank
<1>7. \A n \in Mob : isbin'[n] => arr'[n] = {} /\ \A g \in Gap : mobs'[n][g] = NoMob
  BY <1>2, <1>3, <1>4, <1>5 DEF BinInv
<1>8. \A n \in Mob : ~isbin'[n] => \A k \in Key : bin'[n][k] = NoVal
  BY <1>4, <1>5 DEF BinInv, Empty
<1>9. \A n \in Mob \ used' : Blank(n)'
  BY <1>2, <1>6 DEF BinInv
<1>10. ASSUME NEW s \in Thread, Private(s)' PROVE Blank(mob[s])'
  <2>1. s # t /\ Private(s)
    BY <1>1, <1>2, <1>10 DEF Elsewhere, Private, IInv, TypeOK
  <2>2. mob[s] \in Mob /\ mob[s] # m
    BY <1>2, <2>1 DEF IInv, TypeOK, PrivateInv
  <2>3. QED
    BY <1>2, <1>6, <2>1, <2>2 DEF BinInv
<1>11. \A n \in Model : valid'[n] \subseteq arr'[n] /\ \A k \in arr'[n] : vals'[n][k] \in Val
  <2>1. \A k \in Keys(m) : bin[m][k] \in Val
    BY <1>2 DEF Keys, IInv, TypeOK
  <2>2. QED
    BY <1>3, <1>5, <2>1 DEF BinInv
<1>12. QED
  BY <1>7, <1>8, <1>9, <1>10, <1>11 DEF BinInv

LEMMA NextBin ==
    ASSUME IInv, BinInv, PlaceInv, NEW t \in Thread, Call(t) \/ Step(t)
    PROVE  BinInv'
<1>1. CASE SetFlag(t) \/ WriteValue(t) \/ ClearFlag(t)
  BY <1>1, EntryBin
<1>2. CASE NewSlot(t) \/ Recheck(t) \/ Publish(t)
  BY <1>2, NewSlotBin, RecheckBin, PublishBin
<1>3. CASE BinChanges(t) \/ Retrain(t)
  BY <1>3, BinChangesBin, RetrainBin
<1> DEFINE Nothing == /\ UNCHANGED <<arr, valid, vals, mobs, isbin, bin, used>>
                      /\ (Private(t)' => Private(t) /\ mob'[t] = mob[t])
<1> USE DEF Private, memory, entries, slots, GoTo, Finish, IInv, TypeOK
<1>4. CASE Call(t) \/ Return(t)
  <2>1. Nothing
    BY <1>4 DEF Call, Return
  <2>2. QED
    BY <2>1, OthersWait, QuietBin
<1>5. CASE ReadFlag(t) \/ ReadValue(t) \/ ReadSlot(t) \/ MissSlot(t)
  <2>1. Nothing
    <3>1. CASE ReadFlag(t)
      <4>1. /\ UNCHANGED <<arr, valid, vals, mobs, isbin, bin, used, mob>>
            /\ pc'[t] \in {"unlock", "read", "write", "revive", "clear"}
        <5>1. call[t].op \in Ops
          BY DEF Idle, Ops
        <5>2. UNCHANGED <<arr, valid, vals, mobs, isbin, bin, used, mob>>
          BY <3>1 DEF ReadFlag
        <5>3. CASE pc' = [pc EXCEPT ![t] = "unlock"]
          BY <5>2, <5>3
        <5>4. CASE pc' = [pc EXCEPT ![t] = CASE call[t].op = "find"   -> "read"
                                             [] call[t].op = "update" -> "write"
                                             [] call[t].op = "insert" -> "revive"
                                             [] call[t].op = "remove" -> "clear"]
          BY <5>1, <5>2, <5>4 DEF Ops
        <5>5. QED
          BY <3>1, <5>3, <5>4 DEF ReadFlag
      <4>2. QED
        BY <4>1
    <3>2. CASE ReadValue(t) \/ ReadSlot(t) \/ MissSlot(t)
      BY <3>2 DEF ReadValue, ReadSlot, MissSlot
    <3>3. QED
      BY <1>5, <3>1, <3>2
  <2>2. QED
    BY <1>5, <2>1, OthersWait, QuietBin DEF Step
<1>6. CASE Lock(t) \/ Descend(t) \/ BinFails(t) \/ BinFinds(t) \/ BinAsks(t) \/ Unlock(t)
  <2>1. Nothing
    BY <1>6 DEF Lock, Descend, BinFails, BinFinds, BinAsks, Unlock
  <2>2. QED
    BY <1>6, <2>1, OthersWait, QuietBin DEF Step
<1>7. QED
  BY <1>1, <1>2, <1>3, <1>4, <1>5, <1>6 DEF Step

-----------------------------------------------------------------------------
(* The way of a search only gets longer. *)

LEMMA PathStarts ==
    ASSUME NEW k
    PROVE  OnPath(Top, k)
  BY DEF OnPath

LEMMA PathGoesOn ==
    ASSUME TypeOK, NEW n \in Model, NEW k \in Key, OnPath(n, k)
    PROVE  OnPath(Below(n, k), k)
  BY DEF OnPath

LEMMA PathGrows ==
    ASSUME TypeOK, TypeOK', NEW k \in Key, \A n \in Model : Below(n, k) \in {n, Below(n, k)'}
    PROVE  \A n \in Model : OnPath(n, k) => OnPath(n, k)'
<1> SUFFICES ASSUME NEW n \in Model, OnPath(n, k),
                    NEW S \in SUBSET Model, Top \in S, \A c \in S : Below(c, k)' \in S
             PROVE  n \in S
  BY DEF OnPath
<1>1. \A c \in S : Below(c, k) \in S
  OBVIOUS
<1>2. QED
  BY <1>1 DEF OnPath

\* A search goes at least as far as before, and finds a record where it did.
Grows ==
    /\ \A n \in Model, k \in Key : OnPath(n, k) => OnPath(n, k)'
    /\ \A n \in Model, k \in Key :
          k \notin arr[n] /\ mobs[n][GapOf(n, k)] # NoMob
          => k \notin arr'[n] /\ mobs'[n][GapOf(n, k)'] = mobs[n][GapOf(n, k)]

\* A record published in an empty slot is a bin: the search ends where it did.
LEMMA PublishGrows ==
    ASSUME IInv, IInv', BinInv, NEW t \in Thread, Publish(t), ~lost'
    PROVE  Grows /\ ~lost
<1>1. ~lost /\ Slot(t) = NoMob /\ UNCHANGED <<arr, isbin>>
  BY DEF Publish, entries, IInv, TypeOK
<1>2. cur[t] \in Model /\ GapOf(cur[t], key(t)) \in Gap /\ mob[t] \in Mob
  <2>1. cur[t] \in Model /\ key(t) \in Key /\ mob[t] \in used
    BY DEF Publish, IInv, TypeOK, CallInv, PrivateInv, Private
  <2>2. QED
    BY <2>1, GapOfType DEF IInv, TypeOK
<1>3. \A n \in Model, g \in Gap :
         mobs'[n][g] = IF n = cur[t] /\ g = GapOf(cur[t], key(t)) THEN mob[t] ELSE mobs[n][g]
  BY <1>2 DEF Publish, IInv, TypeOK
<1>4. \A n, k : GapOf(n, k)' = GapOf(n, k)
  BY <1>1 DEF GapOf
<1>5. isbin[mob[t]] /\ mob[t] # NoMob
  <2>1. Private(t)
    BY DEF Publish, Private
  <2>2. QED
    BY <1>2, <2>1, NullsAssumption DEF BinInv, Blank
<1>6. \A n \in Model, k \in Key : mobs[n][GapOf(n, k)] # NoMob => mobs'[n][GapOf(n, k)] = mobs[n][GapOf(n, k)]
  BY <1>1, <1>3, GapOfType DEF IInv, Slot
<1>7. ASSUME NEW n \in Model, NEW k \in Key PROVE Below(n, k) \in {n, Below(n, k)'}
  BY <1>1, <1>4, <1>6, <1>7 DEF Below
<1>8. QED
  BY <1>1, <1>4, <1>6, <1>7, PathGrows DEF Grows, IInv

\* Where the search ended in the record's bin it goes on in its model.
LEMMA RetrainGrows ==
    ASSUME IInv, IInv', BinInv, PlaceInv, NEW t \in Thread, Retrain(t), ~lost'
    PROVE  Grows /\ ~lost
<1>m. PICK m : m = mob[t]
  OBVIOUS
<1>1. m \in Mob /\ isbin[m] /\ arr[m] = {}
  BY <1>m, RetrainChanges
<1>2. isbin' = [isbin EXCEPT ![m] = FALSE] /\ arr' = [arr EXCEPT ![m] = Keys(m)]
  BY <1>m, RetrainChanges
<1>3. mobs' = mobs /\ lost' = lost
  BY <1>m, RetrainChanges
<1>4. \A n \in Model : n # m => arr'[n] = arr[n]
  BY <1>2 DEF IInv, TypeOK
<1>5. \A n \in Model : n # m => \A k : GapOf(n, k)' = GapOf(n, k)
  BY <1>4 DEF GapOf
<1>6. ASSUME NEW k \in Key PROVE mobs[m][GapOf(m, k)] = NoMob /\ mobs[m][GapOf(m, k)'] = NoMob
  <2>1. m \in Model /\ GapOf(m, k) \in Gap
    BY <1>1, GapOfType DEF Model, IInv
  <2>2. GapOf(m, k)' \in Gap
    <3>1. arr'[m] \in SUBSET Key
      BY <2>1 DEF IInv, TypeOK
    <3>2. QED
      BY <3>1, GapRange DEF GapOf
  <2>3. QED
    BY <1>1, <2>1, <2>2 DEF BinInv
<1>7. ASSUME NEW n \in Model, NEW k \in Key PROVE Below(n, k) \in {n, Below(n, k)'}
  <2>1. CASE n = m
    BY <1>6, <2>1 DEF Below
  <2>2. CASE n # m
    <3>1. arr'[n] = arr[n] /\ GapOf(n, k)' = GapOf(n, k) /\ GapOf(n, k) \in Gap
      BY <1>4, <1>5, <2>2, GapOfType DEF IInv
    <3>2. ASSUME mobs[n][GapOf(n, k)] \in Mob, ~isbin[mobs[n][GapOf(n, k)]]
          PROVE  ~isbin'[mobs[n][GapOf(n, k)]]
      BY <1>1, <1>2, <3>2 DEF IInv, TypeOK
    <3>3. mobs[n][GapOf(n, k)] \in Mob \cup {NoMob}
      BY <3>1 DEF IInv, TypeOK
    <3>4. QED
      BY <1>3, <3>1, <3>2, <3>3 DEF Below
  <2>3. QED
    BY <2>1, <2>2
<1>8. \A n \in Model, k \in Key :
         k \notin arr[n] /\ mobs[n][GapOf(n, k)] # NoMob
         => k \notin arr'[n] /\ mobs'[n][GapOf(n, k)'] = mobs[n][GapOf(n, k)]
  BY <1>3, <1>4, <1>5, <1>6
<1>9. QED
  BY <1>3, <1>7, <1>8, PathGrows DEF Grows, IInv

LEMMA TreeGrows ==
    ASSUME IInv, IInv', BinInv, PlaceInv, NEW t \in Thread, Call(t) \/ Step(t), ~lost'
    PROVE  Grows /\ ~lost
<1>1. CASE Publish(t) \/ Retrain(t)
  BY <1>1, PublishGrows, RetrainGrows
<1>2. CASE ~Publish(t) /\ ~Retrain(t)
  <2>1. UNCHANGED <<arr, mobs, isbin, lost>>
    BY <1>2, TreeStays DEF Quiet
  <2>2. QED
    BY <2>1, SameTree DEF Grows
<1>3. QED
  BY <1>1, <1>2

\* A thread that waits for another keeps its place.
LEMMA OthersWay ==
    ASSUME IInv, PlaceInv, Grows, NEW t \in Thread, Elsewhere(t), NEW s \in Thread, s # t, WayOf(s)
    PROVE  WayOf(s)'
<1>1. pc'[s] = pc[s] /\ key(s)' = key(s) /\ cur'[s] = cur[s] /\ mob'[s] = mob[s] /\ cur[s] \in Model
  BY DEF Elsewhere, key, IInv, TypeOK
<1>2. pc[s] # "idle" => OnPath(cur[s], key(s))'
  <2>1. ASSUME pc[s] # "idle" PROVE OnPath(cur[s], key(s))'
    <3>1. key(s) \in Key /\ OnPath(cur[s], key(s))
      BY <2>1 DEF IInv, CallInv, WayOf
    <3>2. PICK c \in Model, k \in Key : c = cur[s] /\ k = key(s)
      BY <1>1, <3>1
    <3>3. OnPath(c, k)'
      BY <3>1, <3>2 DEF Grows
    <3>4. QED
      BY <1>1, <3>2, <3>3
  <2>2. QED
    BY <2>1
<1>3. ASSUME pc[s] \in {"lock", "inside", "retrain"} PROVE Slot(s)' = mob'[s]
  <2>1. Slot(s) = mob[s] /\ key(s) \in Key /\ key(s) \notin arr[cur[s]]
    BY <1>3 DEF WayOf, IInv, CallInv, PlaceInv, PlaceOf, AtSlot
  <2>2. mob[s] # NoMob
    BY <1>3, NullsAssumption DEF IInv, TypeOK, AllocatedInv, InsideInv, Inside
  <2>3. PICK c \in Model, k \in Key : c = cur[s] /\ k = key(s)
    BY <1>1, <2>1
  <2>4. mobs'[c][GapOf(c, k)'] = mob[s]
    BY <2>1, <2>2, <2>3 DEF Grows, Slot
  <2>5. Slot(s)' = mobs'[c][GapOf(c, k)']
    BY <1>1, <2>3 DEF Slot
  <2>6. QED
    BY <1>1, <2>4, <2>5
<1>4. QED
  BY <1>1, <1>2, <1>3 DEF WayOf

LEMMA EntryWay ==
    ASSUME IInv, IInv', Grows, NEW t \in Thread, WayOf(t),
           ReadFlag(t) \/ ReadValue(t) \/ SetFlag(t) \/ WriteValue(t) \/ ClearFlag(t)
           \/ MissSlot(t) \/ NewSlot(t) \/ Recheck(t)
           \/ BinFails(t) \/ BinFinds(t) \/ BinChanges(t) \/ Unlock(t) \/ Return(t)
    PROVE  WayOf(t)'
<1> USE DEF GoTo, Finish, IInv, TypeOK
<1>1. pc'[t] \notin {"lock", "inside", "retrain"} /\ (pc'[t] # "idle" => pc[t] # "idle" /\ call' = call /\ cur' = cur)
  <2>1. CASE ReadFlag(t) \/ ReadValue(t) \/ SetFlag(t) \/ WriteValue(t) \/ ClearFlag(t)
    <3>1. CASE ReadFlag(t)
      <4>1. pc[t] = "start" /\ call' = call /\ cur' = cur
        BY <3>1 DEF ReadFlag
      <4>2. call[t].op \in Ops
        BY DEF Idle, Ops
      <4>3. CASE pc' = [pc EXCEPT ![t] = "unlock"]
        BY <4>1, <4>3
      <4>4. CASE pc' = [pc EXCEPT ![t] = CASE call[t].op = "find"   -> "read"
                                           [] call[t].op = "update" -> "write"
                                           [] call[t].op = "insert" -> "revive"
                                           [] call[t].op = "remove" -> "clear"]
        BY <4>1, <4>2, <4>4 DEF Ops
      <4>5. QED
        BY <3>1, <4>3, <4>4 DEF ReadFlag
    <3>2. CASE ReadValue(t) \/ SetFlag(t) \/ WriteValue(t) \/ ClearFlag(t)
      BY <3>2 DEF ReadValue, SetFlag, WriteValue, ClearFlag
    <3>3. QED
      BY <2>1, <3>1, <3>2
  <2>2. CASE MissSlot(t) \/ NewSlot(t) \/ Recheck(t)
    BY <2>2 DEF MissSlot, NewSlot, Recheck
  <2>3. CASE BinFails(t) \/ BinFinds(t) \/ BinChanges(t) \/ Unlock(t) \/ Return(t)
    BY <2>3 DEF BinFails, BinFinds, BinChanges, InBin, Unlock, Return
  <2>4. QED
    BY <2>1, <2>2, <2>3
<1>2. ASSUME pc'[t] # "idle" PROVE OnPath(cur[t], key(t))'
  <2>1. cur'[t] = cur[t] /\ key(t)' = key(t) /\ cur[t] \in Model /\ key(t) \in Key /\ OnPath(cur[t], key(t))
    BY <1>1, <1>2 DEF key, WayOf, CallInv
  <2>2. PICK c \in Model, k \in Key : c = cur[t] /\ k = key(t)
    BY <2>1
  <2>3. OnPath(c, k)'
    BY <2>1, <2>2 DEF Grows
  <2>4. QED
    BY <2>1, <2>2, <2>3
<1>3. QED
  BY <1>1, <1>2 DEF WayOf

\* The record a thread finds, publishes or locks is the one on its way.
LEMMA SlotWay ==
    ASSUME IInv, IInv', PlaceInv, Grows, NEW t \in Thread, WayOf(t),
           ReadSlot(t) \/ Publish(t) \/ Lock(t) \/ BinAsks(t)
    PROVE  WayOf(t)'
<1> USE DEF GoTo, IInv, TypeOK
<1>1. /\ pc[t] # "idle" /\ call' = call /\ cur' = cur /\ arr' = arr
      /\ cur[t] \in Model /\ key(t) \in Key /\ key(t)' = key(t)
  BY DEF ReadSlot, Publish, Lock, BinAsks, InBin, key, memory, entries, CallInv
<1>2. OnPath(cur[t], key(t))'
  <2>1. PICK c \in Model, k \in Key : c = cur[t] /\ k = key(t)
    BY <1>1
  <2>2. OnPath(c, k)'
    BY <1>1, <2>1 DEF Grows, WayOf
  <2>3. QED
    BY <1>1, <2>1, <2>2
<1>3. GapOf(cur[t], key(t))' = GapOf(cur[t], key(t)) /\ GapOf(cur[t], key(t)) \in Gap
  BY <1>1, GapOfType DEF GapOf
<1>4. Slot(t)' = mob'[t]
  <2>1. CASE ReadSlot(t)
    BY <1>1, <1>3, <2>1 DEF ReadSlot, Slot, memory
  <2>2. CASE Publish(t)
    BY <1>1, <1>3, <2>2 DEF Publish, Slot
  <2>3. CASE Lock(t)
    BY <1>1, <1>3, <2>3 DEF Lock, Slot, WayOf
  <2>4. CASE BinAsks(t)
    BY <1>1, <1>3, <2>4 DEF BinAsks, InBin, Slot, WayOf
  <2>5. QED
    BY <2>1, <2>2, <2>3, <2>4
<1>5. QED
  BY <1>2, <1>4 DEF WayOf

LEMMA DescendWay ==
    ASSUME IInv, PlaceInv, NEW t \in Thread, WayOf(t), Descend(t)
    PROVE  WayOf(t)'
<1>1. /\ pc[t] = "inside" /\ cur[t] \in Model /\ key(t) \in Key /\ mob[t] \in Mob /\ ~isbin[mob[t]]
      /\ OnPath(cur[t], key(t)) /\ Slot(t) = mob[t] /\ key(t) \notin arr[cur[t]]
  BY DEF Descend, IInv, TypeOK, CallInv, InsideInv, Inside, WayOf, PlaceInv, PlaceOf, AtSlot
<1>2. Below(cur[t], key(t)) = mob[t]
  BY <1>1, NullsAssumption DEF Below, Slot
<1>3. OnPath(mob[t], key(t))
  BY <1>1, <1>2, PathGoesOn DEF IInv
<1>4. cur'[t] = mob[t] /\ key(t)' = key(t) /\ pc'[t] = "start" /\ UNCHANGED <<arr, mobs, isbin>>
  BY DEF Descend, memory, GoTo, key, IInv, TypeOK
<1>5. OnPath(cur[t], key(t))'
  BY <1>3, <1>4, SameTree
<1>6. QED
  BY <1>4, <1>5 DEF WayOf

LEMMA RetrainWay ==
    ASSUME IInv, IInv', BinInv, PlaceInv, Grows, NEW t \in Thread, WayOf(t), Retrain(t)
    PROVE  WayOf(t)'
<1>m. PICK m : m = mob[t]
  OBVIOUS
<1>1. m \in Mob /\ m # Top /\ isbin[m] /\ pc[t] = "retrain"
  BY <1>m, RetrainChanges
<1>2. isbin' = [isbin EXCEPT ![m] = FALSE] /\ cur' = [cur EXCEPT ![t] = m] /\ pc' = [pc EXCEPT ![t] = "start"]
  BY <1>m, RetrainChanges
<1>3. call' = call
  BY <1>m, RetrainChanges
<1>4. PICK c \in Model, k \in Key : c = cur[t] /\ k = key(t)
  BY <1>1 DEF IInv, TypeOK, CallInv
<1>5. OnPath(c, k) /\ k \notin arr[c] /\ mobs[c][GapOf(c, k)] = m
  BY <1>1, <1>4, <1>m DEF WayOf, PlaceInv, PlaceOf, AtSlot, Slot
<1>6. OnPath(c, k)' /\ k \notin arr'[c] /\ mobs'[c][GapOf(c, k)'] = m
  BY <1>1, <1>5, NullsAssumption DEF Grows
<1>7. Below(c, k)' = m
  <2>1. ~isbin'[m]
    BY <1>1, <1>2 DEF IInv, TypeOK
  <2>2. QED
    BY <1>1, <1>6, <2>1, NullsAssumption DEF Below
<1>8. OnPath(m, k)'
  BY <1>6, <1>7 DEF OnPath
<1>9. cur'[t] = m /\ key(t)' = k /\ pc'[t] = "start"
  BY <1>2, <1>3, <1>4 DEF IInv, TypeOK, key
<1>10. OnPath(cur[t], key(t))'
  BY <1>8, <1>9
<1>11. QED
  BY <1>9, <1>10 DEF WayOf

LEMMA CallWay ==
    ASSUME IInv, IInv', PlaceInv, NEW t \in Thread, Call(t)
    PROVE  WayOf(t)'
<1>1. cur'[t] = Top /\ pc'[t] = "start"
  BY DEF Call, GoTo, IInv, TypeOK, PlaceInv, PlaceOf
<1>2. OnPath(cur[t], key(t))'
  BY <1>1 DEF OnPath
<1>3. QED
  BY <1>1, <1>2 DEF WayOf

\* What is in a bin stays on its way, and gets there by a call on its way.
LEMMA NextBinned ==
    ASSUME IInv, IInv', BinInv, PlaceInv, Grows, NEW t \in Thread, Call(t) \/ Step(t), WayOf(t),
           \A m \in Mob, k \in Key : bin[m][k] # NoVal => Binned(m, k)
    PROVE  \A m \in Mob, k \in Key : bin'[m][k] # NoVal => Binned(m, k)'
<1>1. ASSUME NEW m \in Mob, NEW k \in Key, Binned(m, k) PROVE Binned(m, k)'
  <2>1. PICK n \in Model : OnPath(n, k) /\ k \notin arr[n] /\ mobs[n][GapOf(n, k)] = m
    BY <1>1 DEF Binned
  <2>2. OnPath(n, k)' /\ k \notin arr'[n] /\ mobs'[n][GapOf(n, k)'] = m
    BY <2>1, NullsAssumption DEF Grows
  <2>3. QED
    BY <2>2 DEF Binned
<1>2. CASE BinChanges(t)
  <2>1. /\ cur[t] \in Model /\ key(t) \in Key /\ mob[t] \in Mob
        /\ OnPath(cur[t], key(t)) /\ Slot(t) = mob[t] /\ key(t) \notin arr[cur[t]]
    BY <1>2 DEF BinChanges, InBin, IInv, TypeOK, CallInv, InsideInv, Inside, WayOf, PlaceInv, PlaceOf, AtSlot
  <2>2. Binned(mob[t], key(t))
    BY <2>1 DEF Binned, Slot
  <2>3. \A m \in Mob, k \in Key : bin'[m][k] # bin[m][k] => m = mob[t] /\ k = key(t)
    BY <1>2, <2>1 DEF BinChanges, Put, IInv, TypeOK
  <2>4. QED
    BY <1>1, <2>2, <2>3
<1>3. CASE Retrain(t)
  <2>m. PICK r : r = mob[t]
    OBVIOUS
  <2>1. r \in Mob /\ bin' = [bin EXCEPT ![r] = Empty]
    BY <1>3, <2>m, RetrainChanges
  <2>2. \A m \in Mob, k \in Key : bin'[m][k] # NoVal => bin'[m][k] = bin[m][k]
    BY <2>1 DEF Empty, IInv, TypeOK
  <2>3. QED
    BY <1>1, <2>2
<1>4. CASE ~BinChanges(t) /\ ~Retrain(t)
  <2>1. bin' = bin
    <3> USE DEF memory, slots
    <3>1. CASE Call(t) \/ Lock(t) \/ Descend(t) \/ Unlock(t) \/ Return(t)
      BY <3>1 DEF Call, Lock, Descend, Unlock, Return
    <3>2. CASE ReadFlag(t) \/ ReadValue(t) \/ SetFlag(t) \/ WriteValue(t) \/ ClearFlag(t)
      BY <3>2 DEF ReadFlag, ReadValue, SetFlag, WriteValue, ClearFlag
    <3>3. CASE ReadSlot(t) \/ MissSlot(t) \/ NewSlot(t) \/ Recheck(t) \/ Publish(t)
      BY <3>3 DEF ReadSlot, MissSlot, NewSlot, Recheck, Publish
    <3>4. CASE BinFails(t) \/ BinFinds(t) \/ BinAsks(t)
      BY <3>4 DEF BinFails, BinFinds, BinAsks
    <3>5. QED
      BY <1>4, <3>1, <3>2, <3>3, <3>4 DEF Step
  <2>2. QED
    BY <1>1, <2>1
<1>5. QED
  BY <1>2, <1>3, <1>4

\* A model is trained on what was in the bin on the same way.
LEMMA NextArrays ==
    ASSUME IInv, IInv', BinInv, PlaceInv, Grows, NEW t \in Thread, Call(t) \/ Step(t),
           \A m \in Mob, k \in Key : bin[m][k] # NoVal => Binned(m, k),
           \A m \in Model, k \in Key : k \in arr[m] => OnPath(m, k)
    PROVE  \A m \in Model, k \in Key : k \in arr'[m] => OnPath(m, k)'
<1>1. CASE Retrain(t)
  <2>m. PICK r : r = mob[t]
    OBVIOUS
  <2>1. r \in Mob /\ r # Top /\ isbin[r]
    BY <1>1, <2>m, RetrainChanges
  <2>2. isbin' = [isbin EXCEPT ![r] = FALSE] /\ arr' = [arr EXCEPT ![r] = Keys(r)]
    BY <1>1, <2>m, RetrainChanges
  <2>3. \A m \in Model : m # r => arr'[m] = arr[m]
    BY <2>2 DEF IInv, TypeOK
  <2>4. ASSUME NEW k \in Key, k \in arr'[r] PROVE OnPath(r, k)'
    <3>1. bin[r][k] # NoVal
      BY <2>1, <2>2, <2>4 DEF IInv, TypeOK, Keys, Model
    <3>2. PICK n \in Model : OnPath(n, k) /\ k \notin arr[n] /\ mobs[n][GapOf(n, k)] = r
      BY <2>1, <3>1 DEF Binned
    <3>3. OnPath(n, k)' /\ k \notin arr'[n] /\ mobs'[n][GapOf(n, k)'] = r
      BY <2>1, <3>2, NullsAssumption DEF Grows
    <3>4. Below(n, k)' = r
      <4>1. ~isbin'[r]
        BY <2>1, <2>2 DEF IInv, TypeOK
      <4>2. QED
        BY <2>1, <3>3, <4>1, NullsAssumption DEF Below
    <3>5. QED
      BY <3>3, <3>4 DEF OnPath
  <2>5. QED
    BY <2>3, <2>4 DEF Grows
<1>2. CASE ~Retrain(t)
  <2>1. arr' = arr
    <3>1. CASE Publish(t)
      BY <3>1 DEF Publish, entries
    <3>2. CASE ~Publish(t)
      BY <1>2, <3>2, TreeStays DEF Quiet
    <3>3. QED
      BY <3>1, <3>2
  <2>2. QED
    BY <2>1 DEF Grows
<1>3. QED
  BY <1>1, <1>2

LEMMA NextWay ==
    ASSUME IInv, IInv', BinInv, PlaceInv, WayInv, NEW t \in Thread, Call(t) \/ Step(t)
    PROVE  WayInv'
<1> SUFFICES ASSUME ~lost'
             PROVE  /\ \A s \in Thread : WayOf(s)'
                    /\ \A m \in Mob, k \in Key : bin'[m][k] # NoVal => Binned(m, k)'
                    /\ \A m \in Model, k \in Key : k \in arr'[m] => OnPath(m, k)'
  BY DEF WayInv
<1>1. Grows /\ ~lost
  BY TreeGrows
<1>2. /\ \A s \in Thread : WayOf(s)
      /\ \A m \in Mob, k \in Key : bin[m][k] # NoVal => Binned(m, k)
      /\ \A m \in Model, k \in Key : k \in arr[m] => OnPath(m, k)
  BY <1>1 DEF WayInv
<1>3. WayOf(t)'
  <2>1. CASE Call(t) \/ Descend(t) \/ Retrain(t)
    BY <1>1, <1>2, <2>1, CallWay, DescendWay, RetrainWay
  <2>2. CASE ReadSlot(t) \/ Publish(t) \/ Lock(t) \/ BinAsks(t)
    BY <1>1, <1>2, <2>2, SlotWay
  <2>3. CASE \/ ReadFlag(t) \/ ReadValue(t) \/ SetFlag(t) \/ WriteValue(t) \/ ClearFlag(t)
             \/ MissSlot(t) \/ NewSlot(t) \/ Recheck(t)
             \/ BinFails(t) \/ BinFinds(t) \/ BinChanges(t) \/ Unlock(t) \/ Return(t)
    BY <1>1, <1>2, <2>3, EntryWay
  <2>4. QED
    BY <2>1, <2>2, <2>3 DEF Step
<1>4. ASSUME NEW s \in Thread, s # t PROVE WayOf(s)'
  <2>1. Elsewhere(t)
    BY OthersWait DEF IInv
  <2>2. QED
    BY <1>1, <1>2, <1>4, <2>1, OthersWay
<1>5. \A m \in Mob, k \in Key : bin'[m][k] # NoVal => Binned(m, k)'
  BY <1>1, <1>2, NextBinned
<1>6. \A m \in Model, k \in Key : k \in arr'[m] => OnPath(m, k)'
  BY <1>1, <1>2, NextArrays
<1>7. QED
  BY <1>3, <1>4, <1>5, <1>6

LEMMA InitRoute ==
    ASSUME Init
    PROVE  RouteInv
<1> USE NullsAssumption, KeysAssumption
<1>1. DepthInv
  <2> DEFINE depth == [m \in Model |-> IF m = Top THEN 0 ELSE 1]
  <2>1. depth \in [Model -> Nat]
    OBVIOUS
  <2>2. ASSUME NEW m \in Model, NEW g \in Gap, mobs[m][g] # NoMob
        PROVE  m = Top /\ mobs[m][g] \in Mob
    BY <2>2 DEF Init
  <2>3. \A m \in Model, g \in Gap : mobs[m][g] # NoMob => depth[m] < depth[mobs[m][g]]
    BY <2>2 DEF Model
  <2>4. QED
    BY <2>1, <2>3 DEF DepthInv
<1>2. BinInv
  <2>1. \A m \in Mob : isbin[m] /\ m # Top /\ m \in Model
    BY DEF Init, Model
  <2>2. \A m \in Mob : arr[m] = {} /\ \A g \in Gap : mobs[m][g] = NoMob
    BY <2>1 DEF Init
  <2>3. \A m \in Mob \ used, k \in Key : bin[m][k] = NoVal
    BY DEF Init, Empty
  <2>4. \A t \in Thread : ~Private(t)
    BY DEF Init, Private
  <2>5. \A m \in Model : valid[m] \subseteq arr[m] /\ \A k \in arr[m] : vals[m][k] \in Val
    <3>1. PICK gone \in SUBSET ArrayKeys : valid = [m \in Model |-> IF m = Top THEN ArrayKeys \ gone ELSE {}]
      BY DEF Init
    <3>2. PICK v \in Val : vals = [m \in Model |-> [k \in Key |-> IF m = Top THEN v ELSE NoVal]]
      BY DEF Init
    <3>3. arr = [m \in Model |-> IF m = Top THEN ArrayKeys ELSE {}]
      BY DEF Init
    <3>4. QED
      BY <3>1, <3>2, <3>3
  <2>6. QED
    BY <2>1, <2>2, <2>3, <2>4, <2>5 DEF BinInv, Blank
<1>3. PlaceInv
  BY DEF Init, PlaceInv, PlaceOf, OpOf, AtEntry, AtSlot
<1>4. WayInv
  <2>1. \A t \in Thread : WayOf(t)
    BY DEF Init, WayOf
  <2>r. \/ bin = [m \in Mob |-> Empty]
        \/ \E b \in Mob, v \in Val, early \in SUBSET {k \in Key : \A a \in ArrayKeys : k < a} :
              /\ mobs = [m \in Model |-> [g \in Gap |-> IF m = Top /\ g = 0 THEN b ELSE NoMob]]
              /\ bin = [m \in Mob |-> [k \in Key |-> IF m = b /\ k \in early THEN v ELSE NoVal]]
              /\ used = {b}
    BY ZenonT(60) DEF Init
  <2>2. ASSUME NEW m \in Mob, NEW k \in Key, bin[m][k] # NoVal PROVE Binned(m, k)
    <3>1. PICK b \in Mob, v \in Val, early \in SUBSET {l \in Key : \A a \in ArrayKeys : l < a} :
            /\ mobs = [n \in Model |-> [g \in Gap |-> IF n = Top /\ g = 0 THEN b ELSE NoMob]]
            /\ bin = [n \in Mob |-> [l \in Key |-> IF n = b /\ l \in early THEN v ELSE NoVal]]
      <4>1. bin # [n \in Mob |-> Empty]
        BY <2>2 DEF Empty
      <4>2. QED
        BY ZenonT(60), <4>1, <2>r
    <3>2. m = b /\ k \in early
      BY <2>2, <3>1
    <3>3. arr[Top] = ArrayKeys /\ Top \in Model
      BY DEF Init, Model
    <3>4. {a \in arr[Top] : a < k} = {} /\ k \notin arr[Top]
      <4>1. \A a \in ArrayKeys : k < a
        BY <3>2
      <4>2. \A a \in ArrayKeys : ~(a < k) /\ a # k
        BY <4>1
      <4>3. QED
        BY <3>3, <4>2
    <3>5. GapOf(Top, k) = 0
      BY <3>4, FS_EmptySet DEF GapOf
    <3>6. mobs[Top][GapOf(Top, k)] = m
      <4>1. 0 \in Gap
        BY FS_CardinalityType DEF Gap
      <4>2. QED
        BY <3>1, <3>2, <3>3, <3>5, <4>1
    <3>7. QED
      BY <3>3, <3>4, <3>6, PathStarts DEF Binned
  <2>3. ASSUME NEW m \in Model, NEW k \in Key, k \in arr[m] PROVE OnPath(m, k)
    BY <2>3, PathStarts DEF Init
  <2>4. QED
    BY <2>1, <2>2, <2>3 DEF WayInv
<1>5. QED
  BY <1>1, <1>2, <1>3, <1>4 DEF RouteInv

LEMMA NextRoute ==
    ASSUME IInv, IInv', RouteInv, [Next]_vars
    PROVE  RouteInv'
<1>1. CASE Next
  <2>1. PICK t \in Thread : Call(t) \/ Step(t)
    BY <1>1 DEF Next
  <2>2. QED
    BY <2>1, NextDepth, NextBin, NextPlace, NextWay DEF RouteInv
<1>2. CASE UNCHANGED vars
  <2> USE <1>2 DEF vars, memory, local
  <2>1. DepthInv' /\ BinInv'
    BY DEF RouteInv, DepthInv, BinInv, Blank, Private
  <2>2. PlaceInv'
    BY DEF RouteInv, PlaceInv, PlaceOf, OpOf, key
  <2>3. WayInv'
    <3>1. UNCHANGED <<arr, mobs, isbin>>
      OBVIOUS
    <3>2. \A m, k : Binned(m, k)' <=> Binned(m, k)
      BY <3>1, SameTree DEF Binned
    <3>3. \A t \in Thread : WayOf(t)' <=> WayOf(t)
      BY <3>1, SameTree DEF WayOf, Slot, key
    <3>4. QED
      BY <3>1, <3>2, <3>3, SameTree DEF RouteInv, WayInv
  <2>4. QED
    BY <2>1, <2>2, <2>3 DEF RouteInv
<1>3. QED
  BY <1>1, <1>2

\* The invariant of the way of the searches holds in every state of every run.
THEOREM RouteInvariance == Spec => []RouteInv
<1>1. Init => RouteInv
  BY InitRoute
<1>2. IInv /\ IInv' /\ RouteInv /\ [Next]_vars => RouteInv'
  BY NextRoute
<1>3. QED
  BY <1>1, <1>2, Invariance, PTL DEF Spec

LEMMA RoutesKeys ==
    ASSUME IInv, RouteInv
    PROVE  KeysAreRouted
<1> SUFFICES ASSUME ~lost, NEW k \in Key
             PROVE  /\ \A m \in Mob : bin[m][k] # NoVal => mobs[Leaf(k)][GapOf(Leaf(k), k)] = m
                    /\ \A m \in Model : k \in valid[m] => Leaf(k) = m
  BY DEF KeysAreRouted
<1>1. \A c \in Model : OnPath(c, k) /\ Below(c, k) = c => c = Leaf(k)
  BY LeafEnds DEF IInv, RouteInv
<1>2. ASSUME NEW m \in Mob, bin[m][k] # NoVal PROVE mobs[Leaf(k)][GapOf(Leaf(k), k)] = m
  <2>1. PICK n \in Model : OnPath(n, k) /\ k \notin arr[n] /\ mobs[n][GapOf(n, k)] = m
    BY <1>2 DEF RouteInv, WayInv, Binned
  <2>2. isbin[m]
    BY <1>2 DEF RouteInv, BinInv
  <2>3. Below(n, k) = n
    BY <2>1, <2>2, NullsAssumption DEF Below
  <2>4. QED
    BY <1>1, <2>1, <2>3
<1>3. ASSUME NEW m \in Model, k \in valid[m] PROVE Leaf(k) = m
  <2>1. k \in arr[m] /\ OnPath(m, k)
    BY <1>3 DEF RouteInv, BinInv, WayInv
  <2>2. Below(m, k) = m
    BY <2>1 DEF Below
  <2>3. QED
    BY <1>1, <2>1, <2>2
<1>4. QED
  BY <1>2, <1>3

\* For any number of threads what is stored is found: a key in a bin or an
\* array is where the search of find_retrain and its siblings ends, through
\* every insertion, retraining and slot creation, unless a slot was overwritten.
THEOREM KeysAreFound == Spec => []KeysAreRouted
<1>1. IInv /\ RouteInv => KeysAreRouted
  BY RoutesKeys
<1>2. QED
  BY <1>1, Invariance, RouteInvariance, PTL

-----------------------------------------------------------------------------
(* What the index holds. *)

\* This model decides about the key, and holds this for it.
Decides(n, k) == OnPath(n, k) /\ Below(n, k) = n
Found(n, k) ==
    LET b == mobs[n][GapOf(n, k)]
    IN  IF k \in arr[n] THEN IF k \in valid[n] THEN vals[n][k] ELSE NoVal
        ELSE IF b = NoMob THEN NoVal ELSE bin[b][k]

LEMMA LeafDecides ==
    TypeOK /\ DepthInv => \A k \in Key : /\ Leaf(k) \in Model /\ Decides(Leaf(k), k)
                                         /\ \A n \in Model : Decides(n, k) => n = Leaf(k)
  BY LeafEnds DEF Decides

LEMMA HoldsFound ==
    TypeOK /\ DepthInv => \A k \in Key, n \in Model : Decides(n, k) => Leaf(k) = n /\ Holds(k) = Found(n, k)
<1>1. \A k : Holds(k) = Found(Leaf(k), k)
  BY DEF Holds, Found
<1>2. QED
  BY <1>1, LeafDecides

LEMMA HoldsFoundNext ==
    (TypeOK /\ DepthInv)' => (\A k \in Key, n \in Model : Decides(n, k) => Leaf(k) = n /\ Holds(k) = Found(n, k))'
  BY HoldsFound, PTL

\* The slot of the model that decides is empty or a bin.
LEMMA DecidesBin ==
    ASSUME TypeOK, DepthInv, NEW n \in Model, NEW k \in Key, k \notin arr[n], mobs[n][GapOf(n, k)] # NoMob
    PROVE  Below(n, k) = n <=> isbin[mobs[n][GapOf(n, k)]]
<1>1. mobs[n][GapOf(n, k)] # n
  <2>1. GapOf(n, k) \in Gap
    BY GapOfType
  <2>2. PICK depth \in [Model -> Nat] : \A m \in Model, g \in Gap : mobs[m][g] # NoMob => depth[m] < depth[mobs[m][g]]
    BY DEF DepthInv
  <2>3. depth[n] < depth[mobs[n][GapOf(n, k)]] /\ depth[n] \in Nat
    BY <2>1, <2>2
  <2>4. QED
    BY <2>3
<1>2. QED
  BY <1>1 DEF Below

\* The search of a running call ends in its model or goes on below.
LEMMA CallDecides ==
    ASSUME IInv, RouteInv, ~lost, NEW t \in Thread, pc[t] # "idle",
           \/ key(t) \in arr[cur[t]]
           \/ key(t) \notin arr[cur[t]] /\ Slot(t) = NoMob
           \/ key(t) \notin arr[cur[t]] /\ isbin[Slot(t)]
    PROVE  /\ cur[t] \in Model /\ key(t) \in Key /\ Decides(cur[t], key(t))
           /\ Leaf(key(t)) = cur[t] /\ Holds(key(t)) = Found(cur[t], key(t))
<1>1. cur[t] \in Model /\ key(t) \in Key /\ OnPath(cur[t], key(t))
  BY DEF IInv, TypeOK, CallInv, RouteInv, WayInv, WayOf
<1>2. Below(cur[t], key(t)) = cur[t]
  BY DEF Below, Slot
<1>3. QED
  BY <1>1, <1>2, HoldsFound DEF Decides, IInv, RouteInv

\* A key whose array entry and whose bin entries stay is held as before.
LEMMA SameKey ==
    ASSUME UNCHANGED <<arr, mobs, isbin>>, NEW k,
           k \in valid'[Leaf(k)] <=> k \in valid[Leaf(k)], vals'[Leaf(k)][k] = vals[Leaf(k)][k],
           LET b == mobs[Leaf(k)][GapOf(Leaf(k), k)] IN b # NoMob => bin'[b][k] = bin[b][k]
    PROVE  Holds(k)' = Holds(k)
<1>1. Leaf(k)' = Leaf(k) /\ \A m : GapOf(m, k)' = GapOf(m, k)
  BY SameTree
<1>2. QED
  BY <1>1 DEF Holds

LEMMA SameHolds ==
    ASSUME UNCHANGED <<arr, valid, vals, mobs, isbin, bin>>
    PROVE  \A k : Holds(k)' = Holds(k)
  BY SameKey

\* A record just published holds nothing.
LEMMA PublishKeeps ==
    ASSUME IInv, IInv', RouteInv, NEW t \in Thread, Publish(t), ~lost', NEW k \in Key
    PROVE  Holds(k)' = Holds(k)
<1>1. ~lost /\ Slot(t) = NoMob /\ UNCHANGED <<arr, valid, vals, isbin, bin>>
  BY DEF Publish, entries, IInv, TypeOK
<1>2. cur[t] \in Model /\ GapOf(cur[t], key(t)) \in Gap /\ mob[t] \in Mob
  <2>1. cur[t] \in Model /\ key(t) \in Key /\ mob[t] \in used
    BY DEF Publish, IInv, TypeOK, CallInv, PrivateInv, Private
  <2>2. QED
    BY <2>1, GapOfType DEF IInv, TypeOK
<1>3. \A n \in Model, g \in Gap :
         mobs'[n][g] = IF n = cur[t] /\ g = GapOf(cur[t], key(t)) THEN mob[t] ELSE mobs[n][g]
  BY <1>2 DEF Publish, IInv, TypeOK
<1>4. \A n, l : GapOf(n, l)' = GapOf(n, l)
  BY <1>1 DEF GapOf
<1>5. isbin[mob[t]] /\ mob[t] # NoMob /\ bin[mob[t]][k] = NoVal
  <2>1. Private(t)
    BY DEF Publish, Private
  <2>2. QED
    BY <1>2, <2>1, NullsAssumption DEF RouteInv, BinInv, Blank
<1>6. ASSUME NEW n \in Model PROVE Below(n, k)' = Below(n, k)
  <2>1. GapOf(n, k) \in Gap
    BY GapOfType DEF IInv
  <2>2. QED
    BY <1>1, <1>3, <1>4, <1>5, <2>1 DEF Below, Slot
<1>7. Leaf(k)' = Leaf(k)
  BY <1>6, SameLeaf
<1>8. Leaf(k) \in Model /\ GapOf(Leaf(k), k) \in Gap
  BY LeafDecides, GapOfType DEF IInv, RouteInv
<1>9. QED
  BY <1>1, <1>3, <1>4, <1>5, <1>7, <1>8 DEF Holds, Slot

\* Retraining moves the keys of the bin to the model's array.
LEMMA RetrainKeeps ==
    ASSUME IInv, IInv', RouteInv, RouteInv', NEW t \in Thread, Retrain(t), ~lost', NEW k \in Key
    PROVE  Holds(k)' = Holds(k)
<1>m. PICK m : m = mob[t]
  OBVIOUS
<1>1. m \in Mob /\ m # Top /\ isbin[m] /\ arr[m] = {} /\ m \in Model
  BY <1>m, RetrainChanges DEF RouteInv, Model
<1>2. isbin' = [isbin EXCEPT ![m] = FALSE] /\ arr' = [arr EXCEPT ![m] = Keys(m)]
  BY <1>m, RetrainChanges DEF RouteInv
<1>3. valid' = [valid EXCEPT ![m] = Keys(m)] /\ vals' = [vals EXCEPT ![m] = bin[m]] /\ bin' = [bin EXCEPT ![m] = Empty]
  BY <1>m, RetrainChanges DEF RouteInv
<1>4. mobs' = mobs
  BY <1>m, RetrainChanges DEF RouteInv
<1>5. ~lost /\ Grows
  BY RetrainGrows DEF RouteInv
<1>6. PICK n \in Model : n = Leaf(k) /\ Decides(n, k) /\ Holds(k) = Found(n, k)
  BY LeafDecides, HoldsFound DEF IInv, RouteInv
<1>7. n # m
  <2> DEFINE S == Model \ {m}
  <2>1. Top \in S /\ S \in SUBSET Model
    BY <1>1 DEF Model
  <2>2. \A c \in S : Below(c, k) \in S
    <3>1. \A c \in S : Below(c, k) # m
      BY <1>1 DEF Below
    <3>2. QED
      BY <3>1, BelowType DEF IInv
  <2>3. n \in S
    <3> HIDE DEF S
    <3>1. QED
      BY <1>6, <2>1, <2>2 DEF Decides, OnPath
  <2>4. QED
    BY <2>3
<1>8. arr'[n] = arr[n] /\ valid'[n] = valid[n] /\ vals'[n] = vals[n] /\ GapOf(n, k)' = GapOf(n, k)
  BY <1>2, <1>3, <1>7 DEF IInv, TypeOK, GapOf
<1>9. OnPath(n, k)' /\ GapOf(n, k) \in Gap
  BY <1>5, <1>6, GapOfType DEF Grows, Decides, IInv
<1>d. ASSUME NEW c \in Model, Decides(c, k)' PROVE Holds(k)' = Found(c, k)'
  BY <1>d, HoldsFoundNext DEF IInv, RouteInv
<1> DEFINE b == mobs[n][GapOf(n, k)]
<1>10. CASE k \in arr[n] \/ b = NoMob
  <2>1. Below(n, k)' = n
    BY <1>4, <1>8, <1>10 DEF Below
  <2>2. Holds(k)' = Found(n, k)'
    BY <1>9, <1>d, <2>1 DEF Decides
  <2>3. Found(n, k)' = Found(n, k)
    BY <1>4, <1>8, <1>10 DEF Found
  <2>4. QED
    BY <1>6, <2>2, <2>3
<1>11. CASE k \notin arr[n] /\ b # NoMob
  <2>1. b \in Mob /\ isbin[b] /\ Found(n, k) = bin[b][k]
    BY <1>6, <1>9, <1>11, DecidesBin DEF IInv, TypeOK, RouteInv, Decides, Found
  <2>2. CASE b # m
    <3>1. isbin'[b] /\ bin'[b] = bin[b]
      BY <1>1, <1>2, <1>3, <2>1, <2>2 DEF IInv, TypeOK
    <3>2. Below(n, k)' = n
      BY <1>4, <1>8, <1>11, <3>1 DEF Below
    <3>3. Holds(k)' = Found(n, k)'
      BY <1>9, <1>d, <3>2 DEF Decides
    <3>4. Found(n, k)' = bin[b][k]
      BY <1>4, <1>8, <1>11, <3>1 DEF Found
    <3>5. QED
      BY <1>6, <2>1, <3>3, <3>4
  <2>3. CASE b = m
    <3>1. ~isbin'[m] /\ arr'[m] = Keys(m) /\ valid'[m] = Keys(m) /\ vals'[m] = bin[m]
      BY <1>1, <1>2, <1>3 DEF IInv, TypeOK
    <3>2. Below(n, k)' = m
      BY <1>4, <1>8, <1>11, <2>3, <3>1 DEF Below
    <3>3. GapOf(m, k)' \in Gap
      <4>1. arr'[m] \in SUBSET Key
        BY <1>1 DEF IInv, TypeOK
      <4>2. QED
        BY <4>1, GapRange DEF GapOf
    <3>4. mobs'[m][GapOf(m, k)'] = NoMob
      BY <1>1, <1>4, <3>3 DEF RouteInv, BinInv
    <3>5. Below(m, k)' = m
      BY <3>4 DEF Below
    <3>6. OnPath(m, k)'
      BY <1>9, <3>2 DEF OnPath
    <3>7. Holds(k)' = Found(m, k)'
      BY <1>1, <1>d, <3>5, <3>6 DEF Decides
    <3>8. Found(m, k)' = bin[m][k]
      BY <3>1, <3>4 DEF Found, Keys
    <3>9. QED
      BY <1>6, <2>1, <2>3, <3>7, <3>8
  <2>4. QED
    BY <2>2, <2>3
<1>12. QED
  BY <1>10, <1>11

\* A step that changes an array entry or a bin works for a call on the key.
Serves(t, k) == key(t) = k /\ call[t].op \in Becomes(k) /\ pc'[t] # pc[t]

LEMMA FlagServes ==
    ASSUME IInv, RouteInv, ~lost, NEW t \in Thread, SetFlag(t) \/ WriteValue(t) \/ ClearFlag(t),
           NEW k \in Key, Holds(k)' # Holds(k)
    PROVE  Serves(t, k)
<1>1. /\ UNCHANGED <<arr, mobs, isbin, bin>> /\ pc[t] # "idle" /\ pc'[t] # pc[t] /\ pc[t] \in AtEntry
      /\ cur[t] \in Model /\ key(t) \in Key
  BY DEF SetFlag, WriteValue, ClearFlag, slots, GoTo, Finish, AtEntry, IInv, TypeOK, CallInv
<1>2. key(t) \in arr[cur[t]]
  BY <1>1 DEF RouteInv, PlaceInv, PlaceOf
<1>3. Leaf(key(t)) = cur[t] /\ \A l : Leaf(l)' = Leaf(l)
  <2>1. \A l : Leaf(l)' = Leaf(l)
    BY <1>1, SameTree
  <2>2. Leaf(key(t)) = cur[t]
    BY <1>1, <1>2, CallDecides
  <2>3. QED
    BY <2>1, <2>2
<1>4. vals[cur[t]][key(t)] \in Val
  BY <1>1, <1>2 DEF RouteInv, BinInv
<1>5. Leaf(k) \in Model
  BY LeafDecides DEF IInv, RouteInv
<1>6. key(t) = k
  <2> SUFFICES ASSUME key(t) # k PROVE Holds(k)' = Holds(k)
    OBVIOUS
  <2>1. \A m \in Model : k \in valid'[m] <=> k \in valid[m]
    <3>1. \/ valid' = valid
          \/ valid' = [valid EXCEPT ![cur[t]] = @ \cup {key(t)}]
          \/ valid' = [valid EXCEPT ![cur[t]] = @ \ {key(t)}]
      BY DEF SetFlag, WriteValue, ClearFlag
    <3>2. k \notin {key(t)}
      OBVIOUS
    <3> DEFINE own == {key(t)}
    <3> HIDE DEF own
    <3>3. CASE valid' = [valid EXCEPT ![cur[t]] = @ \cup own]
      BY <1>1, <3>2, <3>3 DEF IInv, TypeOK, own
    <3>4. CASE valid' = [valid EXCEPT ![cur[t]] = @ \ own]
      BY <1>1, <3>2, <3>4 DEF IInv, TypeOK, own
    <3>5. QED
      BY <3>1, <3>3, <3>4 DEF own
  <2>2. \A m \in Model : vals'[m][k] = vals[m][k]
    <3>1. CASE vals' = vals
      BY <3>1
    <3>2. CASE vals' = [vals EXCEPT ![cur[t]][key(t)] = call[t].val]
      BY <1>1, <3>2 DEF IInv, TypeOK
    <3>3. QED
      BY <3>1, <3>2 DEF SetFlag, WriteValue, ClearFlag
  <2>3. QED
    BY <1>1, <1>5, <2>1, <2>2, SameKey
<1>7. /\ Holds(k) = IF k \in valid[cur[t]] THEN vals[cur[t]][k] ELSE NoVal
      /\ Holds(k)' = IF k \in valid'[cur[t]] THEN vals'[cur[t]][k] ELSE NoVal
  <2>1. k \in arr[cur[t]] /\ k \in arr'[cur[t]] /\ Leaf(k) = cur[t] /\ Leaf(k)' = cur[t]
    BY <1>1, <1>2, <1>3, <1>6
  <2>2. QED
    BY <2>1 DEF Holds
<1>8. call[t].op \in Becomes(k)
  <2>1. CASE SetFlag(t)
    <3>1. call[t].op = "insert"
      BY <2>1 DEF SetFlag, RouteInv, PlaceInv, OpOf
    <3>2. valid' = [valid EXCEPT ![cur[t]] = @ \cup {key(t)}] /\ vals' = vals
      BY <2>1 DEF SetFlag
    <3>3. k \in valid'[cur[t]]
      BY <1>1, <1>6, <3>2 DEF IInv, TypeOK
    <3>4. Holds(k)' # NoVal
      BY <1>4, <1>6, <1>7, <3>2, <3>3, NullsAssumption
    <3>5. QED
      BY <3>1, <3>4 DEF Becomes
  <2>2. CASE WriteValue(t)
    <3>1. call[t].val \in Val /\ call[t].op \in {"insert", "update"}
      BY <2>2 DEF WriteValue, RouteInv, PlaceInv, OpOf
    <3>2. valid' = valid /\ vals' = [vals EXCEPT ![cur[t]][key(t)] = call[t].val]
      BY <2>2 DEF WriteValue
    <3>3. vals'[cur[t]][k] = call[t].val
      BY <1>1, <1>6, <3>2 DEF IInv, TypeOK
    <3>4. k \in valid[cur[t]]
      BY <1>7, <3>2
    <3>5. Holds(k)' # NoVal /\ Holds(k) # NoVal
      BY <1>4, <1>6, <1>7, <3>1, <3>2, <3>3, <3>4, NullsAssumption
    <3>6. QED
      BY <3>1, <3>5 DEF Becomes
  <2>3. CASE ClearFlag(t)
    <3>1. call[t].op = "remove"
      BY <2>3 DEF ClearFlag, RouteInv, PlaceInv, OpOf
    <3>2. k \notin valid'[cur[t]]
      BY <1>1, <1>6, <2>3 DEF ClearFlag, IInv, TypeOK
    <3>3. QED
      BY <1>7, <3>1, <3>2 DEF Becomes
  <2>4. QED
    BY <2>1, <2>2, <2>3
<1>9. QED
  BY <1>1, <1>6, <1>8 DEF Serves

LEMMA BinServes ==
    ASSUME IInv, RouteInv, ~lost, NEW t \in Thread, BinChanges(t), NEW k \in Key, Holds(k)' # Holds(k)
    PROVE  Serves(t, k)
<1>1. /\ UNCHANGED <<arr, valid, vals, mobs, isbin>> /\ pc[t] = "inside" /\ pc'[t] # pc[t] /\ isbin[mob[t]]
      /\ mob[t] \in Mob /\ cur[t] \in Model /\ key(t) \in Key /\ mob[t] # NoMob
      /\ bin' = [bin EXCEPT ![mob[t]][key(t)] = call[t].val]
  BY NullsAssumption DEF BinChanges, InBin, Put, entries, GoTo, Finish, IInv, TypeOK, CallInv, InsideInv, Inside
<1>2. Slot(t) = mob[t] /\ key(t) \notin arr[cur[t]]
  BY <1>1 DEF RouteInv, WayInv, WayOf, PlaceInv, PlaceOf, AtSlot
<1>3. Leaf(key(t)) = cur[t] /\ \A l : Leaf(l)' = Leaf(l)
  <2>1. \A l : Leaf(l)' = Leaf(l)
    BY <1>1, SameTree
  <2>2. Leaf(key(t)) = cur[t]
    BY <1>1, <1>2, CallDecides
  <2>3. QED
    BY <2>1, <2>2
<1>4. key(t) = k
  <2> SUFFICES ASSUME key(t) # k PROVE Holds(k)' = Holds(k)
    OBVIOUS
  <2>1. Leaf(k) \in Model /\ GapOf(Leaf(k), k) \in Gap
    BY LeafDecides, GapOfType DEF IInv, RouteInv
  <2>2. mobs[Leaf(k)][GapOf(Leaf(k), k)] \in Mob \cup {NoMob}
    BY <2>1 DEF IInv, TypeOK
  <2>3. \A b \in Mob : bin'[b][k] = bin[b][k]
    BY <1>1 DEF IInv, TypeOK
  <2>4. QED
    BY <1>1, <2>2, <2>3, SameKey
<1>5. Holds(k) = bin[mob[t]][k] /\ Holds(k)' = bin'[mob[t]][k]
  <2>1. \A m, l : GapOf(m, l)' = GapOf(m, l)
    BY <1>1, SameTree
  <2>2. k \notin arr[Leaf(k)] /\ mobs[Leaf(k)][GapOf(Leaf(k), k)] = mob[t]
    BY <1>2, <1>3, <1>4 DEF Slot
  <2>3. Leaf(k)' = Leaf(k)
    BY <1>3, <1>4
  <2>4. QED
    BY <1>1, <2>1, <2>2, <2>3 DEF Holds
<1>6. bin'[mob[t]][k] = call[t].val
  BY <1>1, <1>4 DEF IInv, TypeOK
<1>7. /\ call[t].op \in {"insert", "update", "remove"}
      /\ call[t].val \in (IF call[t].op \in {"insert", "update"} THEN Val ELSE {NoVal})
      /\ (bin[mob[t]][k] = NoVal) = (call[t].op = "insert")
  <2>1. call[t].op \in Ops /\ call[t].op # "find"
    BY <1>1 DEF BinChanges, IInv, TypeOK, Idle, Ops
  <2>2. call[t].val \in (IF call[t].op \in {"insert", "update"} THEN Val ELSE {NoVal})
    BY <1>1 DEF RouteInv, PlaceInv, OpOf
  <2>3. (bin[mob[t]][k] = NoVal) = (call[t].op = "insert")
    BY <1>4 DEF BinChanges
  <2>4. QED
    BY <2>1, <2>2, <2>3 DEF Ops
<1>8. call[t].op \in Becomes(k)
  BY <1>5, <1>6, <1>7, NullsAssumption DEF Becomes
<1>9. QED
  BY <1>1, <1>4, <1>8 DEF Serves

\* The other steps change no array entry and no bin.
LEMMA RestKeeps ==
    ASSUME IInv, NEW t \in Thread, Call(t) \/ Step(t),
           ~SetFlag(t), ~WriteValue(t), ~ClearFlag(t), ~BinChanges(t), ~Publish(t), ~Retrain(t)
    PROVE  \A k : Holds(k)' = Holds(k)
<1>1. UNCHANGED <<arr, mobs, isbin>>
  BY TreeStays DEF Quiet
<1>2. UNCHANGED <<valid, vals, bin>>
  <2> USE DEF memory, entries, slots
  <2>1. CASE Call(t) \/ Lock(t) \/ Descend(t) \/ Unlock(t) \/ Return(t)
    BY <2>1 DEF Call, Lock, Descend, Unlock, Return
  <2>2. CASE ReadFlag(t) \/ ReadValue(t) \/ ReadSlot(t) \/ MissSlot(t) \/ NewSlot(t) \/ Recheck(t)
    BY <2>2 DEF ReadFlag, ReadValue, ReadSlot, MissSlot, NewSlot, Recheck
  <2>3. CASE BinFails(t) \/ BinFinds(t) \/ BinAsks(t)
    BY <2>3 DEF BinFails, BinFinds, BinAsks
  <2>4. QED
    BY <2>1, <2>2, <2>3 DEF Step
<1>3. QED
  BY <1>1, <1>2, SameHolds

LEMMA StepServes ==
    ASSUME IInv, IInv', RouteInv, RouteInv', NEW t \in Thread, Call(t) \/ Step(t), ~lost',
           NEW k \in Key, Holds(k)' # Holds(k)
    PROVE  Serves(t, k)
<1>1. ~lost
  BY TreeGrows DEF RouteInv
<1>2. ~Publish(t) /\ ~Retrain(t)
  BY PublishKeeps, RetrainKeeps
<1>3. CASE SetFlag(t) \/ WriteValue(t) \/ ClearFlag(t)
  BY <1>1, <1>3, FlagServes
<1>4. CASE BinChanges(t)
  BY <1>1, <1>4, BinServes
<1>5. QED
  BY <1>2, <1>3, <1>4, RestKeeps

\* For any number of threads a key disappears only in a remove of it, appears
\* only in an insert of it, and changes its value only in an insert or an
\* update of it: creating slots and retraining (aidel_model_impl.h lines
\* 302 and 411) lose nothing, unless a slot in use is overwritten.
THEOREM KeysChangeInCalls == Spec => OnlyCallsChangeKeys
<1> DEFINE Change == ~lost' => \A k \in Key :
                        Holds(k)' # Holds(k) =>
                            \E t \in Thread : key(t) = k /\ call[t].op \in Becomes(k) /\ pc'[t] # pc[t]
<1>1. IInv /\ IInv' /\ RouteInv /\ RouteInv' /\ [Next]_vars => [Change]_vars
  <2> SUFFICES ASSUME IInv, IInv', RouteInv, RouteInv', Next, ~lost', NEW k \in Key, Holds(k)' # Holds(k)
               PROVE  \E t \in Thread : key(t) = k /\ call[t].op \in Becomes(k) /\ pc'[t] # pc[t]
    OBVIOUS
  <2>1. PICK t \in Thread : Call(t) \/ Step(t)
    BY DEF Next
  <2>2. Serves(t, k)
    BY <2>1, StepServes
  <2>3. QED
    BY <2>2 DEF Serves
<1>2. QED
  BY <1>1, Invariance, RouteInvariance, PTL DEF Spec, OnlyCallsChangeKeys

-----------------------------------------------------------------------------
(* What a call has seen, and what it answers. *)

LEMMA Watching ==
    ASSUME Witness, NEW t \in Thread, pc'[t] # "idle"
    PROVE  seen[t] \subseteq seen'[t] /\ Holds(key(t))' \in seen'[t]
  BY DEF Witness, Now

\* A call that meets its key's array entry sees what the entry says.
LEMMA EntrySees ==
    ASSUME IInv, RouteInv, ~lost, NEW t \in Thread, SeenOf(t), pc[t] = "start", key(t) \in arr[cur[t]]
    PROVE  IF key(t) \in valid[cur[t]] THEN Present(t) ELSE Absent(t)
<1>1. cur[t] \in Model /\ Holds(key(t)) = Found(cur[t], key(t)) /\ Holds(key(t)) \in seen[t]
  BY CallDecides DEF SeenOf
<1>2. vals[cur[t]][key(t)] \in Val
  BY <1>1 DEF RouteInv, BinInv
<1>3. QED
  BY <1>1, <1>2 DEF Found, Present, Absent

\* A call in its key's bin sees what the bin holds, and no other is in it.
LEMMA BinSees ==
    ASSUME IInv, RouteInv, ~lost, NEW t \in Thread, SeenOf(t), InBin(t)
    PROVE  /\ ~retraining[mob[t]]
           /\ IF bin[mob[t]][key(t)] = NoVal THEN Absent(t) ELSE Present(t)
<1>1. pc[t] = "inside" /\ mob[t] \in Mob /\ isbin[mob[t]] /\ key(t) \in Key
  BY DEF InBin, IInv, InsideInv, Inside, CallInv
<1>2. ~retraining[mob[t]]
  BY <1>1, OneInside DEF IInv, RetrainInv, MutualExclusion, Inside
<1>3. Slot(t) = mob[t] /\ key(t) \notin arr[cur[t]]
  BY <1>1 DEF RouteInv, WayInv, WayOf, PlaceInv, PlaceOf, AtSlot
<1>4. Holds(key(t)) = bin[mob[t]][key(t)] /\ Holds(key(t)) \in seen[t]
  BY <1>1, <1>3, CallDecides, NullsAssumption DEF Found, SeenOf, Slot
<1>5. bin[mob[t]][key(t)] \in Val \cup {NoVal}
  BY <1>1 DEF IInv, TypeOK
<1>6. QED
  BY <1>2, <1>4, <1>5 DEF Absent, Present

LEMMA StepSees ==
    ASSUME IInv, RouteInv, ~lost, NEW t \in Thread, SeenOf(t), Call(t) \/ Step(t), Witness
    PROVE  SeenOf(t)'
<1> DEFINE Keeps == (Absent(t) => Absent(t)') /\ (Present(t) => Present(t)')
<1>1. pc'[t] # "idle" => Keeps /\ Holds(key(t))' \in seen'[t]
  BY Watching DEF Absent, Present
<1> HIDE DEF Keeps
<1> USE DEF GoTo, Finish, IInv, TypeOK
<1>2. CASE Call(t) \/ ReadSlot(t) \/ NewSlot(t) \/ Recheck(t) \/ Publish(t)
           \/ Lock(t) \/ Descend(t) \/ BinAsks(t) \/ Retrain(t) \/ Return(t)
  <2>1. pc'[t] \in {"start", "lock", "recheck", "publish", "inside", "retrain", "idle"}
    <3>1. CASE Call(t) \/ ReadSlot(t) \/ NewSlot(t) \/ Recheck(t) \/ Publish(t)
      BY <3>1 DEF Call, ReadSlot, NewSlot, Recheck, Publish
    <3>2. CASE Lock(t) \/ Descend(t) \/ BinAsks(t) \/ Retrain(t) \/ Return(t)
      BY <3>2 DEF Lock, Descend, BinAsks, Retrain, Return
    <3>3. QED
      BY <1>2, <3>1, <3>2
  <2>2. QED
    BY <1>1, <2>1 DEF SeenOf
<1>3. CASE ReadFlag(t)
  <2>1. /\ pc[t] = "start" /\ key(t) \in arr[cur[t]] /\ call' = call
        /\ IF key(t) \in valid[cur[t]] THEN Present(t) ELSE Absent(t)
    BY <1>3, EntrySees DEF ReadFlag, InArray
  <2>2. CASE pc' = [pc EXCEPT ![t] = "unlock"] /\ res' = [res EXCEPT ![t] = "failed"]
             /\ (key(t) \in valid[cur[t]]) = (call[t].op = "insert")
    <3>1. pc'[t] = "unlock" /\ res'[t] = "failed" /\ call'[t] = call[t]
      BY <2>1, <2>2
    <3>2. IF call[t].op = "insert" THEN Present(t) ELSE Absent(t)
      BY <2>1, <2>2
    <3>3. IF call[t].op = "insert" THEN Present(t)' ELSE Absent(t)'
      BY <1>1, <3>1, <3>2 DEF Keeps
    <3>4. QED
      BY <1>1, <3>1, <3>3 DEF SeenOf
  <2>3. CASE /\ (key(t) \in valid[cur[t]]) # (call[t].op = "insert")
             /\ pc' = [pc EXCEPT ![t] = CASE call[t].op = "find"   -> "read"
                                          [] call[t].op = "update" -> "write"
                                          [] call[t].op = "insert" -> "revive"
                                          [] call[t].op = "remove" -> "clear"]
    <3>1. call[t].op \in {"find", "update", "insert", "remove"} /\ call'[t] = call[t]
      BY <2>1 DEF Idle, Ops
    <3>2. IF call[t].op = "insert" THEN pc'[t] = "revive" /\ Absent(t) ELSE pc'[t] \in {"read", "write", "clear"} /\ Present(t)
      BY <2>1, <2>3, <3>1
    <3>3. IF call[t].op = "insert" THEN Absent(t)' ELSE Present(t)'
      BY <1>1, <3>2 DEF Keeps
    <3>4. QED
      BY <1>1, <3>1, <3>2, <3>3 DEF SeenOf
  <2>4. QED
    BY <1>3, <2>2, <2>3 DEF ReadFlag
<1>4. CASE ReadValue(t) \/ SetFlag(t) \/ WriteValue(t) \/ ClearFlag(t)
  <2>1. OpOf(t)
    BY DEF RouteInv, PlaceInv
  <2>2. call'[t] = call[t] /\ pc'[t] # "idle"
    BY <1>4 DEF ReadValue, SetFlag, WriteValue, ClearFlag
  <2>3. CASE ReadValue(t)
    BY <1>1, <2>1, <2>2, <2>3 DEF ReadValue, SeenOf, OpOf, Keeps
  <2>4. CASE SetFlag(t)
    BY <1>1, <2>1, <2>2, <2>4 DEF SetFlag, SeenOf, OpOf, Keeps
  <2>5. CASE WriteValue(t)
    BY <1>1, <2>1, <2>2, <2>5 DEF WriteValue, SeenOf, OpOf, Keeps
  <2>6. CASE ClearFlag(t)
    BY <1>1, <2>1, <2>2, <2>6 DEF ClearFlag, SeenOf, OpOf, Keeps
  <2>7. QED
    BY <1>4, <2>3, <2>4, <2>5, <2>6
<1>5. CASE MissSlot(t)
  <2>1. pc[t] = "start" /\ key(t) \notin arr[cur[t]] /\ Slot(t) = NoMob /\ call[t].op # "insert"
    BY <1>5 DEF MissSlot, InArray
  <2>2. pc'[t] = "unlock" /\ res'[t] = "failed" /\ call'[t] = call[t]
    BY <1>5 DEF MissSlot
  <2>3. Absent(t)
    BY <2>1, CallDecides DEF Found, Slot, SeenOf, Absent
  <2>4. QED
    BY <1>1, <2>1, <2>2, <2>3 DEF SeenOf, Keeps
<1>6. CASE BinFails(t) \/ BinFinds(t) \/ BinChanges(t)
  <2>1. InBin(t)
    BY <1>6 DEF BinFails, BinFinds, BinChanges
  <2>2. /\ ~retraining[mob[t]]
        /\ IF bin[mob[t]][key(t)] = NoVal THEN Absent(t) ELSE Present(t)
    BY <2>1, BinSees
  <2>3. pc'[t] = "unlock" /\ call'[t] = call[t]
    BY <1>6 DEF BinFails, BinFinds, BinChanges
  <2>4. IF (res'[t] = "ok") = (call[t].op = "insert") THEN Absent(t) ELSE Present(t)
    <3>1. CASE BinFails(t)
      <4>1. res'[t] = "failed" /\ (bin[mob[t]][key(t)] = NoVal) = (call[t].op # "insert")
        BY <2>2, <3>1 DEF BinFails
      <4>2. QED
        BY <2>2, <4>1
    <3>2. CASE BinFinds(t)
      <4>1. res'[t] = "ok" /\ bin[mob[t]][key(t)] # NoVal /\ call[t].op # "insert"
        BY <3>2 DEF BinFinds
      <4>2. QED
        BY <2>2, <4>1
    <3>3. CASE BinChanges(t)
      <4>1. res'[t] = "ok" /\ (bin[mob[t]][key(t)] = NoVal) = (call[t].op = "insert")
        BY <3>3 DEF BinChanges
      <4>2. QED
        BY <2>2, <4>1
    <3>4. QED
      BY <1>6, <3>1, <3>2, <3>3
  <2>5. IF (res'[t] = "ok") = (call[t].op = "insert") THEN Absent(t)' ELSE Present(t)'
    BY <1>1, <2>3, <2>4 DEF Keeps
  <2>6. QED
    BY <1>1, <2>3, <2>5 DEF SeenOf
<1>7. CASE Unlock(t)
  <2>1. pc[t] = "unlock" /\ pc'[t] = "unlock" /\ res'[t] = res[t] /\ call'[t] = call[t]
    BY <1>7 DEF Unlock
  <2>2. IF (res[t] = "ok") = (call[t].op = "insert") THEN Absent(t)' ELSE Present(t)'
    BY <1>1, <2>1 DEF SeenOf, Keeps
  <2>3. QED
    BY <1>1, <2>1, <2>2 DEF SeenOf
<1>8. QED
  BY <1>2, <1>3, <1>4, <1>5, <1>6, <1>7 DEF Step

LEMMA OthersSee ==
    ASSUME NEW t \in Thread, Elsewhere(t), Witness, NEW s \in Thread, s # t, SeenOf(s)
    PROVE  SeenOf(s)'
<1>1. pc'[s] = pc[s] /\ call'[s] = call[s] /\ res'[s] = res[s]
  BY DEF Elsewhere
<1>2. pc'[s] # "idle" => /\ Holds(key(s))' \in seen'[s]
                         /\ (Absent(s) => Absent(s)') /\ (Present(s) => Present(s)')
  BY Watching DEF Absent, Present
<1>3. QED
  BY <1>1, <1>2 DEF SeenOf

LEMMA NextSeen ==
    ASSUME IInv, IInv', RouteInv, SeenInv, [Next]_vars
    PROVE  SeenInv'
<1> SUFFICES ASSUME ~lost', NEW s \in Thread PROVE SeenOf(s)'
  BY DEF SeenInv
<1>1. CASE Next
  <2>1. PICK t \in Thread : Call(t) \/ Step(t)
    BY <1>1 DEF Next
  <2>2. ~lost /\ SeenOf(s) /\ SeenOf(t)
    BY <2>1, TreeGrows DEF SeenInv, RouteInv
  <2>3. Witness /\ Elsewhere(t)
    BY <1>1, <2>1, OthersWait DEF Next, IInv
  <2>4. CASE s = t
    BY <2>1, <2>2, <2>3, <2>4, StepSees
  <2>5. CASE s # t
    BY <2>2, <2>3, <2>5, OthersSee
  <2>6. QED
    BY <2>4, <2>5
<1>2. CASE UNCHANGED vars
  <2>1. SeenOf(s)
    BY <1>2 DEF SeenInv, vars
  <2>2. Holds(key(s))' = Holds(key(s))
    <3>1. \A k : Holds(k)' = Holds(k)
      BY <1>2, SameHolds DEF vars, memory
    <3>2. key(s)' = key(s)
      BY <1>2 DEF vars, local, key
    <3>3. PICK k : k = key(s)
      OBVIOUS
    <3>4. Holds(key(s))' = Holds(k)'
      BY <3>2, <3>3
    <3>5. QED
      BY <3>1, <3>3, <3>4
  <2>3. QED
    BY <1>2, <2>1, <2>2 DEF vars, local, SeenOf, Absent, Present
<1>3. QED
  BY <1>1, <1>2

\* For any number of threads every answer was true of the key at some moment
\* of the call: the answers of the four operations can be explained by the
\* order of those moments, unless a slot in use is overwritten.
THEOREM CallsAnswerTruly == Spec => []AnswersAreTrue
<1>1. Init => SeenInv
  BY DEF Init, SeenInv, SeenOf
<1>2. IInv /\ IInv' /\ RouteInv /\ SeenInv /\ [Next]_vars => SeenInv'
  BY NextSeen
<1>3. SeenInv => AnswersAreTrue
  BY DEF SeenInv, SeenOf, AnswersAreTrue, Absent, Present
<1>4. QED
  BY <1>1, <1>2, <1>3, Invariance, RouteInvariance, PTL DEF Spec

=============================================================================
