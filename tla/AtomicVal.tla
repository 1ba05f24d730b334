----------------------------- MODULE AtomicVal ------------------------------
(***************************************************************************)
(* AtomicVal (include/util.h): a value guarded by a status word that holds *)
(* a version, a lock bit, a removed flag and a pointer flag.  Writers take *)
(* the lock, change value and flags, increment the version, unlock.        *)
(* Readers take no lock: status, value, status again.                      *)
(*                                                                         *)
(* With the pointer flag the value is the address of another AtomicVal,    *)
(* and every operation goes on there; replace_pointer fetches its value.   *)
(* Here Top may point to Leaf.  Every memory access is a step; a value may *)
(* take several words, which are copied in any order.                      *)
(***************************************************************************)
EXTENDS Integers, Sequences

CONSTANTS
    Thread,
    Val,
    Word,        \* the words of a value
    Top, Leaf,   \* the cell that is called, and the one it may point to
    Gone,        \* what a removed cell holds
    Yes, No,     \* what update and remove answer
    Pending,     \* no answer yet
    Ops,         \* the operations called
    MaxOps       \* bound: calls a thread makes

\* All words of a value are of this value; so are those of a pointer.
Value   == {[w \in Word |-> x] : x \in Val}
Pointer == [w \in Word |-> Leaf]

ASSUME NameAssumption ==
    /\ Word # {} /\ Top # Leaf /\ Leaf \notin Val
    /\ {Gone, Yes, No, Pending} \cap [Word -> Val \cup {Leaf}] = {}
    /\ Gone \notin {Yes, No, Pending} /\ Pending \notin {Yes, No}
Ignoring == {"read_ignoring_ptr", "remove_ignoring_ptr", "update_ignoring_ptr"}
ASSUME OpsAssumption == Ops \subseteq {"read", "remove", "update", "replace"} \cup Ignoring
ASSUME BoundAssumption == MaxOps \in Nat

VARIABLES
    val,      \* cell -> its union: a value or Pointer
    status,   \* cell -> [version, locked, removed, ptr]
    pc,
    call,
    path,     \* the cells a thread is in, outermost first
    st, v,    \* status and value a reader has read
    todo,     \* words a thread has still to copy
    answer,
    done,     \* calls a thread has completed
    content,  \* history: what the cell holds, wherever the pointer leads
    seen      \* history: what it held since the call began

cells == <<val, status>>
local == <<call, path, st, v, todo, answer, done>>
vars  == <<cells, pc, local, content, seen>>

Cell   == {Top, Leaf}
Status == [version : Nat, locked : BOOLEAN, removed : BOOLEAN, ptr : BOOLEAN]
Fresh  == [version |-> 0, locked |-> FALSE, removed |-> FALSE, ptr |-> FALSE]

Updates == {"update", "update_ignoring_ptr"}
IsRead(t)   == call[t].op \in {"read", "read_ignoring_ptr"}
IsUpdate(t) == call[t].op \in Updates
IsRemove(t) == call[t].op \in {"remove", "remove_ignoring_ptr"}

at(t) == path[t][Len(path[t])]
Init ==
    /\ content \in Value
    /\ \E indirect \in BOOLEAN :
        /\ val = [c \in Cell |-> IF c = Top /\ indirect THEN Pointer ELSE content]
        /\ status = [c \in Cell |-> [Fresh EXCEPT !.ptr = (c = Top /\ indirect)]]
    /\ pc = [t \in Thread |-> "idle"]
    /\ call = [t \in Thread |-> [op |-> "none"]]
    /\ path = [t \in Thread |-> <<Top>>]
    /\ st = [t \in Thread |-> Fresh]
    /\ v = [t \in Thread |-> Pointer]
    /\ todo = [t \in Thread |-> {}]
    /\ answer = [t \in Thread |-> Pending]
    /\ done = [t \in Thread |-> 0]
    /\ seen = [t \in Thread |-> {}]

GoTo(t, label) == pc' = [pc EXCEPT ![t] = label]
SetStatus(c, s) == status' = [status EXCEPT ![c] = s]

\* replace_pointer is called once for a pointer: nobody replaces or has done so.
\* The _ignoring_ptr variants are for cells that are no pointers.
MayReplace == status[Top].ptr /\ \A t \in Thread : call[t].op # "replace"

Call(t) ==
    /\ pc[t] = "idle" /\ done[t] < MaxOps
    /\ \E op \in Ops :
        /\ op = "replace" => MayReplace
        /\ op \in Ignoring => ~status[Top].ptr
        /\ IF op \in Updates
           THEN \E x \in Value : call' = [call EXCEPT ![t] = [op |-> op, arg |-> x]]
           ELSE call' = [call EXCEPT ![t] = [op |-> op]]
        /\ GoTo(t, IF op \in {"read", "read_ignoring_ptr"} THEN "status" ELSE "lock")
    /\ UNCHANGED <<cells, path, st, v, todo, answer, done, content>>

Return(t) ==
    /\ pc[t] = "return"
    /\ GoTo(t, "idle")
    /\ call' = [call EXCEPT ![t] = [op |-> "none"]]
    /\ path' = [path EXCEPT ![t] = <<Top>>]
    /\ st' = [st EXCEPT ![t] = Fresh]
    /\ v' = [v EXCEPT ![t] = Pointer]
    /\ answer' = [answer EXCEPT ![t] = Pending]
    /\ done' = [done EXCEPT ![t] = @ + 1]
    /\ UNCHANGED <<cells, todo, content>>

-----------------------------------------------------------------------------
(* Reading. *)

ReadStatus(t) ==
    /\ pc[t] = "status"
    /\ st' = [st EXCEPT ![t] = status[at(t)]]
    /\ todo' = [todo EXCEPT ![t] = Word]
    /\ GoTo(t, "value")
    /\ UNCHANGED <<cells, call, path, v, answer, done, content>>

ReadWord(t) ==
    /\ pc[t] = "value"
    /\ \E w \in todo[t] :
        /\ v' = [v EXCEPT ![t][w] = val[at(t)][w]]
        /\ todo' = [todo EXCEPT ![t] = @ \ {w}]
        /\ IF todo[t] = {w} THEN GoTo(t, "check") ELSE UNCHANGED pc
    /\ UNCHANGED <<cells, call, path, st, answer, done, content>>

\* Fault for PointersAreSafe: only the versions are compared.
StaleByVersion(t) == status[at(t)].version # st[t].version

\* read looks at the lock bit of the second status, read_ignoring_ptr at that
\* of the first one.
Stale(t) ==
    \/ status[at(t)].version # st[t].version
    \/ IF call[t].op = "read_ignoring_ptr" THEN st[t].locked ELSE status[at(t)].locked

Retry(t) ==
    /\ pc[t] = "check" /\ Stale(t)
    /\ GoTo(t, "status")
    /\ UNCHANGED <<cells, local, content>>

Follow(t) ==
    /\ pc[t] = "check" /\ ~Stale(t) /\ st[t].ptr
    /\ path' = [path EXCEPT ![t] = Append(@, Leaf)]
    /\ GoTo(t, "status")
    /\ UNCHANGED <<cells, call, st, v, todo, answer, done, content>>

Answer(t) ==
    /\ pc[t] = "check" /\ ~Stale(t) /\ ~st[t].ptr /\ IsRead(t)
    /\ answer' = [answer EXCEPT ![t] = IF st[t].removed THEN Gone ELSE v[t]]
    /\ GoTo(t, "return")
    /\ UNCHANGED <<cells, call, path, st, v, todo, done, content>>

-----------------------------------------------------------------------------
(* Writing. *)

\* cmpxchg from the unlocked status to the locked one.
Lock(t) ==
    /\ pc[t] = "lock" /\ ~status[at(t)].locked
    /\ SetStatus(at(t), [status[at(t)] EXCEPT !.locked = TRUE])
    /\ GoTo(t, "act")
    /\ UNCHANGED <<val, local, content>>

\* Under the lock of a pointer the operation goes on in the cell it points to;
\* replace_pointer reads that cell as any reader does.
Descend(t) ==
    /\ pc[t] = "act" /\ status[at(t)].ptr
    /\ path' = [path EXCEPT ![t] = Append(@, Leaf)]
    /\ GoTo(t, IF call[t].op = "replace" THEN "status" ELSE "lock")
    /\ UNCHANGED <<cells, call, st, v, todo, answer, done, content>>

Fail(t) ==
    /\ pc[t] = "act" /\ ~status[at(t)].ptr /\ status[at(t)].removed
    /\ answer' = [answer EXCEPT ![t] = No]
    /\ GoTo(t, "version")
    /\ UNCHANGED <<cells, call, path, st, v, todo, done, content>>

Update(t) ==
    /\ pc[t] = "act" /\ IsUpdate(t) /\ ~status[at(t)].ptr /\ ~status[at(t)].removed
    /\ todo' = [todo EXCEPT ![t] = Word]
    /\ GoTo(t, "write")
    /\ UNCHANGED <<cells, call, path, st, v, answer, done, content>>

WriteWord(t) ==
    /\ pc[t] = "write"
    /\ \E w \in todo[t] :
        /\ val' = [val EXCEPT ![at(t)][w] = call[t].arg[w]]
        /\ todo' = [todo EXCEPT ![t] = @ \ {w}]
        /\ IF todo[t] = {w} THEN GoTo(t, "version") ELSE UNCHANGED pc
    /\ content' = call[t].arg
    /\ answer' = [answer EXCEPT ![t] = Yes]
    /\ UNCHANGED <<status, call, path, st, v, done>>

Remove(t) ==
    /\ pc[t] = "act" /\ IsRemove(t) /\ ~status[at(t)].ptr /\ ~status[at(t)].removed
    /\ SetStatus(at(t), [status[at(t)] EXCEPT !.removed = TRUE])
    /\ content' = Gone
    /\ answer' = [answer EXCEPT ![t] = Yes]
    /\ GoTo(t, "version")
    /\ UNCHANGED <<val, call, path, st, v, todo, done>>

\* replace_pointer: what the read returns is stored over the pointer.
Fetched(t) ==
    /\ pc[t] = "check" /\ ~Stale(t) /\ ~st[t].ptr /\ ~IsRead(t)
    /\ todo' = [todo EXCEPT ![t] = Word]
    /\ path' = [path EXCEPT ![t] = <<Top>>]
    /\ GoTo(t, "copy")
    /\ UNCHANGED <<cells, call, st, v, answer, done, content>>

CopyWord(t) ==
    /\ pc[t] = "copy"
    /\ \E w \in todo[t] :
        /\ val' = [val EXCEPT ![Top][w] = v[t][w]]
        /\ todo' = [todo EXCEPT ![t] = @ \ {w}]
        /\ IF todo[t] # {w} THEN UNCHANGED pc
           ELSE GoTo(t, IF st[t].removed THEN "set_removed" ELSE "unset_is_ptr")
    /\ UNCHANGED <<status, call, path, st, v, answer, done, content>>

SetRemoved(t) ==
    /\ pc[t] = "set_removed"
    /\ SetStatus(Top, [status[Top] EXCEPT !.removed = TRUE])
    /\ GoTo(t, "unset_is_ptr")
    /\ UNCHANGED <<val, local, content>>

UnsetIsPtr(t) ==
    /\ pc[t] = "unset_is_ptr"
    /\ SetStatus(Top, [status[Top] EXCEPT !.ptr = FALSE])
    /\ GoTo(t, "version")
    /\ UNCHANGED <<val, local, content>>

\* Fault for Implements: the version stays.
IncrNothing(t) ==
    /\ pc[t] = "version"
    /\ GoTo(t, "unlock")
    /\ UNCHANGED <<cells, local, content>>

IncrVersion(t) ==
    /\ pc[t] = "version"
    /\ SetStatus(at(t), [status[at(t)] EXCEPT !.version = @ + 1])
    /\ GoTo(t, "unlock")
    /\ UNCHANGED <<val, local, content>>

\* A call that came through a pointer goes on there, with the version.
Unlock(t) ==
    /\ pc[t] = "unlock"
    /\ SetStatus(at(t), [status[at(t)] EXCEPT !.locked = FALSE])
    /\ IF at(t) = Leaf
       THEN path' = [path EXCEPT ![t] = <<Top>>] /\ GoTo(t, "version")
       ELSE UNCHANGED path /\ GoTo(t, "return")
    /\ UNCHANGED <<val, call, st, v, todo, answer, done, content>>

Step(t) ==
    \/ Return(t)
    \/ ReadStatus(t) \/ ReadWord(t) \/ Retry(t) \/ Follow(t) \/ Answer(t)
    \/ Lock(t) \/ Descend(t) \/ Fail(t) \/ Update(t) \/ WriteWord(t) \/ Remove(t)
    \/ Fetched(t) \/ CopyWord(t) \/ SetRemoved(t) \/ UnsetIsPtr(t)
    \/ IncrVersion(t) \/ Unlock(t)

\* History: every call under way notices the content.
Observe == seen' = [t \in Thread |-> IF pc'[t] = "idle" THEN {} ELSE seen[t] \cup {content'}]

Next == \E t \in Thread : (Call(t) \/ Step(t)) /\ Observe
Spec == Init /\ [][Next]_vars

-----------------------------------------------------------------------------
(* Properties. *)

\* Every variable keeps its type; a call is at most one pointer deep.
TypeOK ==
    /\ val \in [Cell -> [Word -> Val \cup {Leaf}]]
    /\ status \in [Cell -> Status]
    /\ pc \in [Thread -> {"idle", "status", "value", "check", "lock", "act", "write", "copy",
                          "set_removed", "unset_is_ptr", "version", "unlock", "return"}]
    /\ call \in [Thread -> [op : (Ops \cup {"none"}) \ Updates] \cup [op : Ops \cap Updates, arg : Value]]
    /\ path \in [Thread -> {<<Top>>, <<Top, Leaf>>}]
    /\ st \in [Thread -> Status] /\ v \in [Thread -> [Word -> Val \cup {Leaf}]]
    /\ todo \in [Thread -> SUBSET Word]
    /\ answer \in [Thread -> [Word -> Val] \cup {Gone, Yes, No, Pending}]
    /\ done \in [Thread -> Nat]
    /\ content \in Value \cup {Gone}
    /\ seen \in [Thread -> SUBSET (Value \cup {Gone})]

\* What a reader is about to follow is a pointer, and what it is about to
\* return is not, though replace_pointer stores a value over the pointer
\* while the status still says pointer.
NoWildPointer ==
    \A t \in Thread :
        /\ pc[t] = "check" /\ ~Stale(t) => (st[t].ptr <=> v[t] = Pointer)
        /\ pc[t] = "act" => (status[at(t)].ptr <=> val[at(t)] = Pointer)

\* assert(!removed(status)) (lines 343, 357, 376, 395): a removal never marks a
\* pointer removed, but what it points to; assert(is_ptr(status)) (line 394).
PointerNotRemoved ==
    \A t \in Thread :
        /\ pc[t] = "check" /\ ~Stale(t) /\ st[t].ptr => ~st[t].removed
        /\ pc[t] = "act" /\ status[at(t)].ptr => ~status[at(t)].removed
        /\ pc[t] = "act" /\ call[t].op = "replace" => status[at(t)].ptr

\* Every step of another thread leaves a reader or writer a pointer it can
\* follow, or a value it can return or change.
PointersAreSafe == TypeOK /\ NoWildPointer /\ PointerNotRemoved

\* "semantics: atomically read the value and the `removed` flag" (line 325): the
\* cell is the atomic one of AtomicCell, where replace_pointer has no effect.
\* Only read_ignoring_ptr promises less: it does not notice a writer that came
\* after it read the status and has not incremented the version.
Plain(op) ==
    CASE op \in {"update", "update_ignoring_ptr"} -> "update"
      [] op \in {"remove", "remove_ignoring_ptr"} -> "remove"
      [] op = "read"                              -> "read"
      [] op = "read_ignoring_ptr"                 -> "read_words"
      [] OTHER                                    -> "none"
PlainCall == [t \in Thread |-> [call[t] EXCEPT !.op = Plain(@)]]
PlainSeen == [t \in Thread |-> IF PlainCall[t].op = "none" THEN {} ELSE seen[t]]
Atomic == INSTANCE AtomicCell WITH Val <- Value, call <- PlainCall, seen <- PlainSeen
Implements == Atomic!CellSpec
=============================================================================
