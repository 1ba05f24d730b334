----------------------------- MODULE AtomicCell -----------------------------
(***************************************************************************)
(* What AtomicVal (include/util.h) promises: a cell with a value that can  *)
(* be read, updated and removed atomically.  An update or a removal takes  *)
(* effect in one step between its call and its return.  A read returns     *)
(* what the cell held at some moment between its call and its return; the  *)
(* weaker read_words does so for each word of the value.                   *)
(***************************************************************************)
CONSTANTS Thread, Word, Val, Gone, Yes, No, Pending   \* Val: functions on Word

VARIABLES
    content,   \* the value, or Gone after a removal
    call,      \* thread -> its call: name and argument
    answer,    \* thread -> what the call will return, or Pending
    seen       \* thread -> what the cell held since the call began

cellVars == <<content, call, answer, seen>>

CellInit ==
    /\ content \in Val
    /\ call = [t \in Thread |-> [op |-> "none"]]
    /\ answer = [t \in Thread |-> Pending]
    /\ seen = [t \in Thread |-> {}]

Calls == [op : {"read", "read_words", "remove"}] \cup [op : {"update"}, arg : Val]

Begin(t) ==
    /\ call[t].op = "none"
    /\ call' \in {[call EXCEPT ![t] = c] : c \in Calls}
    /\ seen' = [seen EXCEPT ![t] = {content}]
    /\ UNCHANGED <<content, answer>>

\* Everyone under way can see the new content.
Becomes(c) ==
    /\ content' = c
    /\ seen' = [t \in Thread |-> IF call[t].op = "none" THEN {} ELSE seen[t] \cup {c}]

Read(t) ==
    /\ call[t].op = "read" /\ answer[t] = Pending
    /\ answer' \in {[answer EXCEPT ![t] = c] : c \in seen[t]}
    /\ UNCHANGED <<content, call, seen>>

\* A value put together from those the cell held.
Mixtures(t) == {[w \in Word |-> held[w][w]] : held \in [Word -> seen[t] \ {Gone}]}
ReadWords(t) ==
    /\ call[t].op = "read_words" /\ answer[t] = Pending
    /\ answer' \in {[answer EXCEPT ![t] = c] : c \in Mixtures(t) \cup (seen[t] \cap {Gone})}
    /\ UNCHANGED <<content, call, seen>>

\* An update or a removal fails, and changes nothing, once the value is removed.
Change(t) ==
    /\ call[t].op \in {"update", "remove"} /\ answer[t] = Pending
    /\ answer' = [answer EXCEPT ![t] = IF content # Gone THEN Yes ELSE No]
    /\ IF content = Gone THEN UNCHANGED <<content, seen>>
       ELSE Becomes(IF call[t].op = "update" THEN call[t].arg ELSE Gone)
    /\ UNCHANGED call

End(t) ==
    /\ answer[t] # Pending
    /\ call' = [call EXCEPT ![t] = [op |-> "none"]]
    /\ answer' = [answer EXCEPT ![t] = Pending]
    /\ seen' = [seen EXCEPT ![t] = {}]
    /\ UNCHANGED content

CellNext == \E t \in Thread : Begin(t) \/ Read(t) \/ ReadWords(t) \/ Change(t) \/ End(t)
CellSpec == CellInit /\ [][CellNext]_cellVars
=============================================================================
