-------------------------- MODULE AtomicValProofs --------------------------
(***************************************************************************)
(* What holds of AtomicVal for any number of threads, words and values:    *)
(* its assertions, and that it is the atomic cell of AtomicCell.           *)
(***************************************************************************)
EXTENDS AtomicVal, SequenceTheorems, TLAPS

IsReplace(t) == call[t].op = "replace"
InLeaf(t)    == path[t] = <<Top, Leaf>>
Replacing    == {"copy", "set_removed", "unset_is_ptr"}
Locking      == {"lock", "act", "write", "version", "unlock"}

\* Who holds the lock of the outer cell, of the inner one, and may still change
\* the cell: its version was not yet incremented.
Holds(t)       == ~IsRead(t) /\ pc[t] \notin {"idle", "return"} /\ ~(pc[t] = "lock" /\ ~InLeaf(t))
HoldsLeaf(t)   == InLeaf(t) /\ pc[t] \in {"act", "write", "version", "unlock"}
Changing(t, c) == IF c = Top THEN Holds(t) /\ ~(pc[t] = "unlock" /\ ~InLeaf(t))
                  ELSE HoldsLeaf(t) /\ pc[t] # "unlock"

\* A lock bit says that there is a holder; who holds the inner lock holds the
\* outer one, so both exclude each other.
LockInv ==
    /\ \A s, t \in Thread : Holds(s) /\ Holds(t) => s = t
    /\ status[Top].locked <=> \E t \in Thread : Holds(t)
    /\ status[Leaf].locked <=> \E t \in Thread : HoldsLeaf(t)

\* Which calls get where, and what is left to copy there.
ControlInv ==
    \A t \in Thread :
        /\ pc[t] = "idle" <=> call[t].op = "none"
        /\ pc[t] = "idle" => path[t] = <<Top>>
        /\ pc[t] \in {"status", "value", "check"} => IsRead(t) \/ (IsReplace(t) /\ InLeaf(t))
        /\ pc[t] \in Locking => ~IsRead(t) /\ (IsReplace(t) => ~InLeaf(t))
        /\ pc[t] = "write" => IsUpdate(t) /\ todo[t] # {}
        /\ pc[t] \in Replacing => IsReplace(t) /\ ~InLeaf(t)
        /\ pc[t] = "copy" => todo[t] # {}
        /\ pc[t] = "check" => todo[t] = {}
        /\ pc[t] = "return" /\ InLeaf(t) => IsRead(t)

\* An answer is given once.
AnswerInv ==
    \A t \in Thread :
        /\ IsReplace(t) \/ pc[t] \in {"idle", "lock", "act", "status", "value", "check"}
              => answer[t] = Pending
        /\ pc[t] = "write" => answer[t] = IF todo[t] = Word THEN Pending ELSE Yes
        /\ pc[t] \in {"version", "unlock"} /\ ~IsReplace(t) => answer[t] \in {Yes, No}
        /\ pc[t] = "return" /\ ~IsReplace(t) => answer[t] # Pending

\* While the status says pointer, nobody but the one that replaces it touches
\* the outer cell; afterwards nobody gets to the inner one.
PointerOf(t) ==
    /\ call[t].op \in Ignoring => ~InLeaf(t) /\ ~status[Top].ptr
    /\ ~IsRead(t) /\ InLeaf(t) => status[Top].ptr
    /\ IsReplace(t) /\ pc[t] \notin {"version", "unlock", "return"} => status[Top].ptr
    /\ pc[t] = "write" => ~status[at(t)].ptr /\ ~status[at(t)].removed
PointerInv ==
    /\ ~status[Leaf].ptr
    /\ \A s, t \in Thread : IsReplace(s) /\ IsReplace(t) => s = t
    /\ \A t \in Thread : PointerOf(t)

\* The words of a cell, and its flags, with and without a pointer.
CellInv ==
    /\ val[Leaf] \in [Word -> Val]
    /\ ~status[Top].ptr => val[Top] \in [Word -> Val]
    /\ status[Top].ptr /\ (\A t \in Thread : pc[t] \notin Replacing) => val[Top] = Pointer
    /\ status[Top].ptr /\ (\A t \in Thread : pc[t] # "unset_is_ptr") => ~status[Top].removed

\* What replace_pointer has fetched is what the inner cell holds.
FetchOf(t) ==
    /\ v[t] = val[Leaf] /\ st[t].removed = status[Leaf].removed
    /\ \A w \in Word : (pc[t] = "copy" /\ w \in todo[t]) \/ val[Top][w] = v[t][w]
    /\ pc[t] = "set_removed" => st[t].removed
    /\ pc[t] = "unset_is_ptr" => status[Top].removed = st[t].removed
FetchInv == \A t \in Thread : pc[t] \in Replacing => FetchOf(t)

Held(c) == IF status[c].removed THEN Gone ELSE val[c]
Source  == IF status[Top].ptr THEN Leaf ELSE Top

\* The content is what the cell holds, or about to be.
WriteOf(t) ==
    /\ \A w \in Word : w \in todo[t] \/ val[at(t)][w] = call[t].arg[w]
    /\ content = IF todo[t] = Word THEN val[at(t)] ELSE call[t].arg
ContentInv ==
    /\ (\A t \in Thread : pc[t] # "write") => content = Held(Source)
    /\ \A t \in Thread : pc[t] = "write" => WriteOf(t)

\* A reader whose version is still that of the cell, with nobody changing the
\* cell, has copied what is there.
Clean(c) == \A s \in Thread : ~Changing(s, c)
Copied(t, c) ==
    /\ st[t].removed = status[c].removed /\ st[t].ptr = status[c].ptr
    /\ \A w \in Word : w \in todo[t] \/ v[t][w] = val[c][w]
ReadOf(t) ==
    /\ st[t].version <= status[at(t)].version
    /\ InLeaf(t) \/ call[t].op \in Ignoring => ~st[t].ptr
    /\ call[t].op \in Ignoring => \A w \in Word : w \in todo[t] \/ v[t][w] \in Val
    /\ st[t].version = status[at(t)].version /\ Clean(at(t)) => Copied(t, at(t))
ReadInv == \A t \in Thread : pc[t] \in {"value", "check"} => ReadOf(t)

IInv ==
    /\ TypeOK /\ LockInv /\ ControlInv /\ AnswerInv /\ PointerInv
    /\ CellInv /\ FetchInv /\ ContentInv /\ ReadInv

Seeable(t, x, w) == \E h \in seen[t] \ {Gone} : x = h[w]

\* What a reader that takes word after word has seen, and may still read.
SeenWords(t) ==
    /\ st[t].removed => Gone \in seen[t]
    /\ ~st[t].removed /\ ~st[t].locked /\ st[t].version = status[Top].version =>
        \A w \in Word : /\ Seeable(t, val[Top][w], w)
                        /\ w \in todo[t] \/ Seeable(t, v[t][w], w)

\* A call under way has seen the content; a reader at the inner cell has seen
\* what that holds, also when it is no longer the content.
SeenInv ==
    \A t \in Thread :
        /\ pc[t] = "idle" => seen[t] = {}
        /\ pc[t] # "idle" => content \in seen[t]
        /\ IsRead(t) /\ InLeaf(t) /\ (\A s \in Thread : ~(pc[s] = "write" /\ InLeaf(s)))
              => Held(Leaf) \in seen[t]
        /\ call[t].op = "read_ignoring_ptr" /\ pc[t] \in {"value", "check"} => SeenWords(t)

\* What no step of another thread touches.
Own(t) == <<pc[t], call[t], path[t], st[t], v[t], todo[t], answer[t]>>
Others(t) == \A s \in Thread \ {t} : Own(s)' = Own(s)

\* What no reader of the cell can miss: it was changed, or the version was.
Steady(c) ==
    /\ status'[c].version >= status[c].version
    /\ status'[c].version = status[c].version /\ Clean(c)' =>
        /\ Clean(c) /\ val'[c] = val[c]
        /\ status'[c].removed = status[c].removed /\ status'[c].ptr = status[c].ptr

-----------------------------------------------------------------------------
LEMMA PathEnd ==
    ASSUME NEW p \in {<<Top>>, <<Top, Leaf>>}
    PROVE  /\ p[Len(p)] = IF p = <<Top, Leaf>> THEN Leaf ELSE Top
           /\ p # <<Top, Leaf>> => Append(p, Leaf) = <<Top, Leaf>>
           /\ <<Top>> # <<Top, Leaf>>
<1>1. Len(<<Top>>) = 1 /\ Len(<<Top, Leaf>>) = 2
  OBVIOUS
<1>2. <<Top>> # <<Top, Leaf>>
  BY <1>1
<1>3. CASE p = <<Top>>
  <2>1. <<Top>> \in Seq({Top, Leaf}) /\ <<Top, Leaf>> \in Seq({Top, Leaf}) /\ Leaf \in {Top, Leaf}
    OBVIOUS
  <2>2. /\ Append(<<Top>>, Leaf) \in Seq({Top, Leaf}) /\ Len(Append(<<Top>>, Leaf)) = 2
        /\ Append(<<Top>>, Leaf)[1] = Top /\ Append(<<Top>>, Leaf)[2] = Leaf
    BY <1>1, <2>1, AppendProperties
  <2>3. \A i \in 1 .. 2 : Append(<<Top>>, Leaf)[i] = <<Top, Leaf>>[i]
    BY <2>2
  <2>4. Append(<<Top>>, Leaf) = <<Top, Leaf>>
    BY <1>1, <2>1, <2>2, <2>3, SeqEqual
  <2>5. QED
    BY <1>1, <1>2, <1>3, <2>4
<1>4. CASE p = <<Top, Leaf>>
  BY <1>1, <1>2, <1>4
<1>5. QED
  BY <1>3, <1>4

LEMMA Where ==
    ASSUME TypeOK, NEW t \in Thread
    PROVE  /\ at(t) = IF InLeaf(t) THEN Leaf ELSE Top
           /\ ~InLeaf(t) => path[t] = <<Top>>
           /\ InLeaf(t) => path[t] # <<Top>>
  BY PathEnd DEF TypeOK, at, InLeaf

LEMMA WhereNext ==
    ASSUME TypeOK'
    PROVE  \A t \in Thread : at(t)' = IF InLeaf(t)' THEN Leaf ELSE Top
<1>1. SUFFICES ASSUME NEW t \in Thread PROVE at(t)' = IF InLeaf(t)' THEN Leaf ELSE Top
  OBVIOUS
<1>2. path'[t] \in {<<Top>>, <<Top, Leaf>>}
  BY DEF TypeOK
<1>3. QED
  BY <1>2, PathEnd DEF at, InLeaf

\* Where a thread is after a step of another one.
LEMMA OtherStays ==
    ASSUME NEW t \in Thread, Others(t), NEW s \in Thread, s # t
    PROVE  /\ pc'[s] = pc[s] /\ call'[s] = call[s] /\ path'[s] = path[s] /\ st'[s] = st[s]
           /\ v'[s] = v[s] /\ todo'[s] = todo[s] /\ answer'[s] = answer[s]
           /\ at(s)' = at(s) /\ InLeaf(s)' = InLeaf(s)
  BY DEF Others, Own, at, InLeaf

\* A reader is not deceived by a step of another thread.
LEMMA ReaderStays ==
    ASSUME IInv, TypeOK', NEW t \in Thread, Others(t), \A c \in Cell : Steady(c),
           NEW s \in Thread, s # t, pc'[s] \in {"value", "check"}
    PROVE  ReadOf(s)'
<1>1. /\ pc'[s] = pc[s] /\ call'[s] = call[s] /\ st'[s] = st[s] /\ v'[s] = v[s]
      /\ todo'[s] = todo[s] /\ at(s)' = at(s) /\ InLeaf(s)' = InLeaf(s)
  BY OtherStays
<1>2. at(s) \in Cell /\ ReadOf(s)
  BY <1>1, Where DEF IInv, ReadInv, Cell
<1>3. st[s].version \in Nat /\ status[at(s)].version \in Nat /\ status'[at(s)].version \in Nat
  BY <1>2 DEF IInv, TypeOK, Status
<1>4. Steady(at(s))
  BY <1>2
<1>5. (st[s].version <= status[at(s)].version)'
  BY <1>1, <1>2, <1>3, <1>4 DEF ReadOf, Steady
<1>6. ASSUME (st[s].version = status[at(s)].version /\ Clean(at(s)))'
      PROVE  Copied(s, at(s))'
  <2>1. status'[at(s)].version = status[at(s)].version /\ Clean(at(s))'
    BY <1>1, <1>2, <1>3, <1>4, <1>6 DEF ReadOf, Steady
  <2>2. Copied(s, at(s))
    BY <1>1, <1>2, <1>4, <1>6, <2>1 DEF ReadOf, Steady
  <2>3. QED
    BY <1>1, <1>4, <2>1, <2>2 DEF Copied, Steady
<1>7. QED
  BY <1>1, <1>2, <1>5, <1>6 DEF ReadOf

\* A step that leaves the cells alone is not noticed; neither is one of the
\* holder, who has still to increment the version.
LEMMA QuietIsSteady ==
    ASSUME IInv, UNCHANGED cells,
           \A s \in Thread, c \in Cell : Changing(s, c) => Changing(s, c)'
    PROVE  \A c \in Cell : Steady(c)
  BY DEF Steady, Clean, IInv, TypeOK, Status, cells

LEMMA ChangeIsSteady ==
    ASSUME IInv, NEW d \in Cell, \E t \in Thread : Changing(t, d)',
           \A s \in Thread, c \in Cell : Changing(s, c) => Changing(s, c)',
           \A c \in Cell : status'[c].version = status[c].version,
           \A c \in Cell : c # d => status'[c] = status[c] /\ val'[c] = val[c]
    PROVE  \A c \in Cell : Steady(c)
<1>1. \A c \in Cell : status[c].version \in Nat
  BY DEF IInv, TypeOK, Status
<1>2. ~Clean(d)'
  BY DEF Clean
<1>3. \A c \in Cell : status'[c].version >= status[c].version
  <2> TAKE c \in Cell
  <2>1. status'[c].version = status[c].version
    OBVIOUS
  <2>2. QED
    BY <1>1, <2>1
<1>4. \A c \in Cell : Clean(c)' => Clean(c)
  BY DEF Clean
<1>5. QED
  BY <1>2, <1>3, <1>4 DEF Steady

LEMMA LockInvStays ==
    ASSUME IInv, \A s \in Thread : (Holds(s)' <=> Holds(s)) /\ (HoldsLeaf(s)' <=> HoldsLeaf(s)),
           \A c \in Cell : status'[c].locked = status[c].locked
    PROVE  LockInv'
  BY DEF IInv, LockInv, Cell

LEMMA PointerInvStays ==
    ASSUME IInv, NEW t \in Thread, Others(t), PointerOf(t)',
           ~status'[Leaf].ptr, status'[Top].ptr = status[Top].ptr, IsReplace(t)' => IsReplace(t),
           \A s \in Thread \ {t} : pc[s] = "write" =>
               status'[at(s)].ptr = status[at(s)].ptr /\ status'[at(s)].removed = status[at(s)].removed
    PROVE  PointerInv'
<1>1. \A r, s \in Thread : IsReplace(r)' /\ IsReplace(s)' => r = s
  BY OtherStays DEF IInv, PointerInv, IsReplace
<1>2. \A s \in Thread \ {t} : PointerOf(s)'
  BY OtherStays DEF IInv, PointerInv, PointerOf, IsRead, IsReplace
<1>3. QED
  BY <1>1, <1>2 DEF PointerInv

LEMMA ReadInvStays ==
    ASSUME IInv, TypeOK', NEW t \in Thread, Others(t), \A c \in Cell : Steady(c),
           pc'[t] \in {"value", "check"} => ReadOf(t)'
    PROVE  ReadInv'
  BY ReaderStays DEF ReadInv

\* The content is left alone by a step that leaves words and flags alone.
LEMMA ContentStays ==
    ASSUME IInv, NEW t \in Thread, Others(t), UNCHANGED <<val, content>>,
           pc[t] # "write", pc'[t] # "write",
           \A c \in Cell : status'[c].ptr = status[c].ptr /\ status'[c].removed = status[c].removed
    PROVE  ContentInv'
<1>1. Held(Source)' = Held(Source)
  BY DEF Held, Source, Cell
<1>2. \A s \in Thread : pc'[s] = "write" <=> pc[s] = "write"
  BY OtherStays
<1>3. ASSUME NEW s \in Thread, pc'[s] = "write" PROVE WriteOf(s)'
  BY <1>2, <1>3, OtherStays DEF IInv, ContentInv, WriteOf
<1>4. QED
  BY <1>1, <1>2, <1>3 DEF IInv, ContentInv

\* Who has locked a cell is alone there.
LEMMA OnlyHolder ==
    ASSUME IInv, NEW t \in Thread, Holds(t)
    PROVE  \A s \in Thread \ {t} :
               ~Holds(s) /\ pc[s] \notin {"act", "write", "version", "unlock"} \cup Replacing
  BY DEF IInv, LockInv, ControlInv, Holds, Locking, Replacing, IsRead, IsReplace

LEMMA InnerHoldsOuter ==
    ASSUME IInv, NEW t \in Thread, HoldsLeaf(t)
    PROVE  Holds(t)
  BY DEF IInv, ControlInv, Holds, HoldsLeaf, Locking

\* What a reader has copied when it finds neither another version nor a lock.
LEMMA FreshRead ==
    ASSUME IInv, NEW t \in Thread, pc[t] = "check", ~Stale(t), call[t].op # "read_ignoring_ptr"
    PROVE  /\ ~status[at(t)].locked
           /\ v[t] = val[at(t)]
           /\ st[t].removed = status[at(t)].removed /\ st[t].ptr = status[at(t)].ptr
<1>1. status[at(t)].version = st[t].version /\ ~status[at(t)].locked
  BY DEF Stale
<1>2. at(t) \in Cell /\ (at(t) = Top \/ at(t) = Leaf) /\ Top # Leaf
  BY Where, NameAssumption DEF NameAssumption, IInv, Cell
<1>3. Clean(at(t))
  BY <1>1, <1>2 DEF IInv, LockInv, Clean, Changing
<1>4. Copied(t, at(t)) /\ todo[t] = {}
  BY <1>1, <1>3 DEF IInv, ReadInv, ReadOf, ControlInv
<1>5. \A w \in Word : v[t][w] = val[at(t)][w]
  BY <1>4 DEF Copied
<1>6. v[t] = val[at(t)]
  BY <1>2, <1>5 DEF IInv, TypeOK
<1>7. QED
  BY <1>1, <1>4, <1>6 DEF Copied

\* A step that leaves call and path alone.
LEMMA PointerStays ==
    ASSUME IInv, NEW t \in Thread, call'[t] = call[t], path'[t] = path[t],
           status'[Top].ptr = status[Top].ptr, pc'[t] # "write",
           pc[t] \in {"version", "unlock", "return"} => pc'[t] \in {"version", "unlock", "return"}
    PROVE  PointerOf(t)'
  BY DEF IInv, PointerInv, PointerOf, InLeaf, IsRead, IsReplace

LEMMA StatusType ==
    ASSUME status \in [Cell -> Status], NEW c \in Cell, NEW b \in BOOLEAN
    PROVE  /\ [status EXCEPT ![c] = [status[c] EXCEPT !.locked = b]] \in [Cell -> Status]
           /\ [status EXCEPT ![c] = [status[c] EXCEPT !.removed = b]] \in [Cell -> Status]
           /\ [status EXCEPT ![c] = [status[c] EXCEPT !.ptr = b]] \in [Cell -> Status]
           /\ [status EXCEPT ![c] = [status[c] EXCEPT !.version = @ + 1]] \in [Cell -> Status]
<1>0. status[c] \in Status
  OBVIOUS
<1>1. [status[c] EXCEPT !.locked = b] \in Status
  BY <1>0 DEF Status
<1>2. [status[c] EXCEPT !.removed = b] \in Status
  BY <1>0 DEF Status
<1>3. [status[c] EXCEPT !.ptr = b] \in Status
  BY <1>0 DEF Status
<1>4. [status[c] EXCEPT !.version = @ + 1] \in Status
  BY <1>0 DEF Status
<1>5. QED
  BY <1>1, <1>2, <1>3, <1>4

\* A call begins where nobody holds anything.
LEMMA CallStep ==
    ASSUME IInv, NEW t \in Thread, Call(t), Observe
    PROVE  IInv' /\ Others(t) /\ \A c \in Cell : Steady(c)
<1> USE NameAssumption DEF NameAssumption, GoTo, SetStatus, cells, local, Cell
<1>w. \A s \in Thread : at(s) = IF InLeaf(s) THEN Leaf ELSE Top
  BY Where DEF IInv
<1>q. PICK op \in Ops :
        /\ op = "replace" => MayReplace
        /\ op \in Ignoring => ~status[Top].ptr
        /\ IF op \in Updates THEN \E x \in Value : call' = [call EXCEPT ![t] = [op |-> op, arg |-> x]]
                             ELSE call' = [call EXCEPT ![t] = [op |-> op]]
        /\ pc' = [pc EXCEPT ![t] = IF op \in {"read", "read_ignoring_ptr"} THEN "status" ELSE "lock"]
  BY DEF Call
<1>n. op # "none"
  BY OpsAssumption DEF OpsAssumption, Ignoring
<1>c. PICK r \in [op : Ops \ Updates] \cup [op : Ops \cap Updates, arg : Value] :
        call' = [call EXCEPT ![t] = r] /\ r.op = op
  <2>1. CASE op \in Updates
    <3>1. PICK x \in Value : call' = [call EXCEPT ![t] = [op |-> op, arg |-> x]]
      BY <1>q, <2>1
    <3>2. [op |-> op, arg |-> x] \in [op : Ops \cap Updates, arg : Value] /\ [op |-> op, arg |-> x].op = op
      BY <2>1
    <3>3. QED
      BY <3>1, <3>2
  <2>2. CASE op \notin Updates
    <3>1. [op |-> op] \in [op : Ops \ Updates] /\ [op |-> op].op = op
      BY <2>2
    <3>2. call' = [call EXCEPT ![t] = [op |-> op]]
      BY <1>q, <2>2
    <3>3. QED
      BY <3>1, <3>2
  <2>3. QED
    BY <2>1, <2>2
<1>r. call'[t].op = op /\ op # "none" /\ \A s \in Thread \ {t} : call'[s] = call[s]
  BY <1>n, <1>c DEF IInv, TypeOK
<1>i. pc[t] = "idle" /\ ~InLeaf(t) /\ path[t] = <<Top>> /\ ~InLeaf(t)'
  BY PathEnd DEF Call, IInv, ControlInv, InLeaf
<1>t. TypeOK'
  <2>1. call' \in [Thread -> [op : (Ops \cup {"none"}) \ Updates] \cup [op : Ops \cap Updates, arg : Value]]
    BY <1>c DEF IInv, TypeOK
  <2>2. seen' \in [Thread -> SUBSET (Value \cup {Gone})]
    BY DEF Call, Observe, IInv, TypeOK
  <2>3. QED
    BY <1>q, <2>1, <2>2 DEF Call, IInv, TypeOK
<1>x. \A s \in Thread : at(s)' = IF InLeaf(s)' THEN Leaf ELSE Top
  BY <1>t, WhereNext
<1>o. Others(t)
  BY DEF Others, Own, IInv, TypeOK, Call
<1>h. \A s \in Thread : (Holds(s)' <=> Holds(s)) /\ (HoldsLeaf(s)' <=> HoldsLeaf(s))
  <2>1. ~Holds(t) /\ ~Holds(t)' /\ ~HoldsLeaf(t) /\ ~HoldsLeaf(t)'
    BY <1>q, <1>r, <1>i DEF IInv, TypeOK, Holds, HoldsLeaf, IsRead
  <2>2. QED
    BY <1>o, <2>1, OtherStays DEF Holds, HoldsLeaf, IsRead
<1>1. LockInv'
  <2>1. \A c \in Cell : status'[c].locked = status[c].locked
    BY DEF IInv, TypeOK, Status, Call
  <2>2. QED
    BY <1>h, <2>1, LockInvStays
<1>f. \A c \in Cell : Steady(c)
  <2>1. \A s \in Thread, c \in Cell : Changing(s, c) => Changing(s, c)'
    BY <1>h, <1>t, <1>w, <1>x, PathEnd DEF Changing, HoldsLeaf, InLeaf, IInv, TypeOK, ControlInv, Call
  <2>2. QED
    BY <2>1, QuietIsSteady DEF Call
<1>2. ControlInv'
  <2>1. op \in {"read", "remove", "update", "replace"} \cup Ignoring
    BY OpsAssumption DEF OpsAssumption
  <2>2. /\ pc'[t] = IF op \in {"read", "read_ignoring_ptr"} THEN "status" ELSE "lock"
        /\ path'[t] = <<Top>>
    BY <1>q, <1>i DEF Call, IInv, TypeOK
  <2>3. ASSUME NEW s \in Thread, s # t PROVE pc'[s] = pc[s] /\ call'[s] = call[s] /\ path'[s] = path[s] /\ todo'[s] = todo[s]
    BY <1>o, <2>3, OtherStays
  <2>4. QED
    BY <1>r, <1>i, <2>1, <2>2, <2>3 DEF IInv, ControlInv, InLeaf,
       Locking, Replacing, Ignoring, Updates, IsRead, IsReplace, IsUpdate
<1>3. AnswerInv'
  BY <1>q, <1>r, <1>i DEF Call, IInv, TypeOK, ControlInv, AnswerInv, IsReplace
<1>4. PointerInv'
  <2>1. status' = status
    BY DEF Call
  <2>2. \A q, s \in Thread : IsReplace(q)' /\ IsReplace(s)' => q = s
    BY <1>q, <1>r DEF IInv, PointerInv, IsReplace, MayReplace
  <2>3. PointerOf(t)'
    BY <1>q, <1>r, <1>i, <2>1 DEF IInv, TypeOK, PointerOf, MayReplace, IsRead, IsReplace
  <2>4. \A s \in Thread \ {t} : PointerOf(s)'
    BY <1>o, <2>1, OtherStays DEF IInv, PointerInv, PointerOf, IsRead, IsReplace
  <2>5. QED
    BY <2>1, <2>2, <2>3, <2>4 DEF IInv, PointerInv
<1>5. CellInv'
  BY <1>h, <1>t, <1>w, <1>x, PathEnd DEF InLeaf, IInv, TypeOK, Call, CellInv, ControlInv, PointerInv, PointerOf, LockInv, Holds, Locking, Replacing, IsRead, IsReplace, IsUpdate, FetchInv, FetchOf
<1>6. FetchInv'
  BY <1>h, <1>t, <1>w, <1>x, PathEnd DEF InLeaf, IInv, TypeOK, Call, FetchInv, FetchOf, LockInv, ControlInv, ReadInv, ReadOf, Holds, Locking, Replacing, IsRead, IsReplace, IsUpdate, IsRemove
<1>7. ContentInv'
  <2>1. UNCHANGED <<val, content>> /\ pc[t] # "write" /\ pc'[t] # "write"
    BY <1>t DEF Call, IInv, TypeOK
  <2>2. \A c \in Cell : status'[c].ptr = status[c].ptr /\ status'[c].removed = status[c].removed
    BY <1>w DEF Call, IInv, TypeOK, Status
  <2>3. QED
    BY <1>o, <2>1, <2>2, ContentStays
<1>8. ReadInv'
  <2>1. pc'[t] \notin {"value", "check"}
    BY <1>t DEF IInv, TypeOK, Call
  <2>2. QED
    BY <1>t, <1>o, <1>f, <2>1, ReadInvStays
<1>9. QED
  BY <1>t, <1>o, <1>f, <1>1, <1>2, <1>3, <1>4, <1>5, <1>6, <1>7, <1>8 DEF IInv

\* A call that returns holds nothing.
LEMMA ReturnStep ==
    ASSUME IInv, NEW t \in Thread, Return(t), Observe
    PROVE  IInv' /\ Others(t) /\ \A c \in Cell : Steady(c)
<1> USE NameAssumption DEF NameAssumption, GoTo, SetStatus, cells, local, Cell
<1>w. \A s \in Thread : at(s) = IF InLeaf(s) THEN Leaf ELSE Top
  BY Where DEF IInv
<1>t. TypeOK'
  BY <1>w, PathEnd, OpsAssumption DEF OpsAssumption, Ignoring, Updates, IInv, TypeOK, Return,
     Observe, Status, Fresh, Value, Pointer, InLeaf
<1>x. \A s \in Thread : at(s)' = IF InLeaf(s)' THEN Leaf ELSE Top
  BY <1>t, WhereNext
<1>o. Others(t)
  BY DEF Others, Own, IInv, TypeOK, Return
<1>h. \A s \in Thread : (Holds(s)' <=> Holds(s)) /\ (HoldsLeaf(s)' <=> HoldsLeaf(s))
  BY <1>t, <1>w, <1>x, PathEnd DEF InLeaf, IInv, TypeOK, Return, ControlInv, Holds, HoldsLeaf,
     Locking, Replacing, IsRead, IsReplace, IsUpdate, Updates
<1>1. LockInv'
  <2>1. \A c \in Cell : status'[c].locked = status[c].locked
    BY DEF IInv, TypeOK, Status, Return
  <2>2. QED
    BY <1>h, <2>1, LockInvStays
<1>f. \A c \in Cell : Steady(c)
  <2>1. \A s \in Thread, c \in Cell : Changing(s, c) => Changing(s, c)'
    BY <1>h, <1>t, <1>w, <1>x, PathEnd DEF Changing, HoldsLeaf, InLeaf, IInv, TypeOK, ControlInv, Return
  <2>2. QED
    BY <2>1, QuietIsSteady DEF Return
<1>2. ControlInv'
  BY <1>h, <1>t, <1>w, <1>x, PathEnd DEF InLeaf, IInv, TypeOK, Return, ControlInv, Locking, Replacing, Updates, Ignoring, IsRead, IsReplace, IsUpdate
<1>3. AnswerInv'
  BY <1>h, <1>t, <1>w, <1>x, PathEnd DEF InLeaf, IInv, TypeOK, Return, AnswerInv, ControlInv, Locking, Replacing, Updates, IsReplace, IsRead, IsUpdate, IsRemove
<1>4. PointerInv'
  <2>1. ~status'[Leaf].ptr /\ status'[Top].ptr = status[Top].ptr /\ (IsReplace(t)' => IsReplace(t))
    BY <1>w DEF IInv, TypeOK, Status, PointerInv, IsReplace, Return
  <2>2. \A s \in Thread \ {t} : pc[s] = "write" =>
            status'[at(s)].ptr = status[at(s)].ptr /\ status'[at(s)].removed = status[at(s)].removed
    BY <1>w DEF IInv, TypeOK, Status, Return
  <2>3. PointerOf(t)'
    BY ZenonT(60), <1>t, PathEnd DEF Return, PointerOf, InLeaf, Ignoring, IsRead, IsReplace, IInv, TypeOK
  <2>4. QED
    BY <1>o, <2>1, <2>2, <2>3, PointerInvStays
<1>5. CellInv'
  BY <1>h, <1>t, <1>w, <1>x, PathEnd DEF InLeaf, IInv, TypeOK, Return, CellInv, ControlInv, PointerInv, PointerOf, LockInv, Holds, Locking, Replacing, IsRead, IsReplace, IsUpdate, FetchInv, FetchOf
<1>6. FetchInv'
  BY <1>h, <1>t, <1>w, <1>x, PathEnd DEF InLeaf, IInv, TypeOK, Return, FetchInv, FetchOf, LockInv, ControlInv, ReadInv, ReadOf, Holds, Locking, Replacing, IsRead, IsReplace, IsUpdate, IsRemove
<1>7. ContentInv'
  <2>1. UNCHANGED <<val, content>> /\ pc[t] # "write" /\ pc'[t] # "write"
    BY <1>t DEF Return, IInv, TypeOK
  <2>2. \A c \in Cell : status'[c].ptr = status[c].ptr /\ status'[c].removed = status[c].removed
    BY <1>w DEF Return, IInv, TypeOK, Status
  <2>3. QED
    BY <1>o, <2>1, <2>2, ContentStays
<1>8. ReadInv'
  <2>1. pc'[t] \notin {"value", "check"}
    BY <1>t DEF IInv, TypeOK, Return
  <2>2. QED
    BY <1>t, <1>o, <1>f, <2>1, ReadInvStays
<1>9. QED
  BY <1>t, <1>o, <1>f, <1>1, <1>2, <1>3, <1>4, <1>5, <1>6, <1>7, <1>8 DEF IInv

\* A reader takes the status and has all words still to copy.
LEMMA ReadStatusStep ==
    ASSUME IInv, NEW t \in Thread, ReadStatus(t), Observe
    PROVE  IInv' /\ Others(t) /\ \A c \in Cell : Steady(c)
<1> USE NameAssumption DEF NameAssumption, GoTo, SetStatus, cells, local, Cell
<1>w. \A s \in Thread : at(s) = IF InLeaf(s) THEN Leaf ELSE Top
  BY Where DEF IInv
<1>t. TypeOK'
  BY <1>w, PathEnd, OpsAssumption DEF OpsAssumption, Ignoring, Updates, IInv, TypeOK, ReadStatus,
     Observe, Status, Fresh, Value, Pointer, InLeaf
<1>x. \A s \in Thread : at(s)' = IF InLeaf(s)' THEN Leaf ELSE Top
  BY <1>t, WhereNext
<1>o. Others(t)
  BY DEF Others, Own, IInv, TypeOK, ReadStatus
<1>h. \A s \in Thread : (Holds(s)' <=> Holds(s)) /\ (HoldsLeaf(s)' <=> HoldsLeaf(s))
  BY <1>t, <1>w, <1>x, PathEnd DEF InLeaf, IInv, TypeOK, ReadStatus, ControlInv, Holds, HoldsLeaf,
     Locking, Replacing, IsRead, IsReplace, IsUpdate, Updates
<1>1. LockInv'
  <2>1. \A c \in Cell : status'[c].locked = status[c].locked
    BY DEF IInv, TypeOK, Status, ReadStatus
  <2>2. QED
    BY <1>h, <2>1, LockInvStays
<1>f. \A c \in Cell : Steady(c)
  <2>1. \A s \in Thread, c \in Cell : Changing(s, c) => Changing(s, c)'
    BY <1>h, <1>t, <1>w, <1>x, PathEnd DEF Changing, HoldsLeaf, InLeaf, IInv, TypeOK, ControlInv, ReadStatus
  <2>2. QED
    BY <2>1, QuietIsSteady DEF ReadStatus
<1>2. ControlInv'
  BY <1>h, <1>t, <1>w, <1>x, PathEnd DEF InLeaf, IInv, TypeOK, ReadStatus, ControlInv, Locking, Replacing, Updates, Ignoring, IsRead, IsReplace, IsUpdate
<1>3. AnswerInv'
  BY <1>h, <1>t, <1>w, <1>x, PathEnd DEF InLeaf, IInv, TypeOK, ReadStatus, AnswerInv, ControlInv, Locking, Replacing, Updates, IsReplace, IsRead, IsUpdate, IsRemove
<1>4. PointerInv'
  <2>1. ~status'[Leaf].ptr /\ status'[Top].ptr = status[Top].ptr /\ (IsReplace(t)' => IsReplace(t))
    BY <1>w DEF IInv, TypeOK, Status, PointerInv, IsReplace, ReadStatus
  <2>2. \A s \in Thread \ {t} : pc[s] = "write" =>
            status'[at(s)].ptr = status[at(s)].ptr /\ status'[at(s)].removed = status[at(s)].removed
    BY <1>w DEF IInv, TypeOK, Status, ReadStatus
  <2>3. PointerOf(t)'
    BY <1>t, <2>1, PointerStays DEF ReadStatus, IInv, TypeOK, ControlInv, Locking, Replacing, IsReplace
  <2>4. QED
    BY <1>o, <2>1, <2>2, <2>3, PointerInvStays
<1>5. CellInv'
  BY <1>h, <1>t, <1>w, <1>x, PathEnd DEF InLeaf, IInv, TypeOK, ReadStatus, CellInv, ControlInv, PointerInv, PointerOf, LockInv, Holds, Locking, Replacing, IsRead, IsReplace, IsUpdate, FetchInv, FetchOf
<1>6. FetchInv'
  BY <1>h, <1>t, <1>w, <1>x, PathEnd DEF InLeaf, IInv, TypeOK, ReadStatus, FetchInv, FetchOf, LockInv, ControlInv, ReadInv, ReadOf, Holds, Locking, Replacing, IsRead, IsReplace, IsUpdate, IsRemove
<1>7. ContentInv'
  <2>1. UNCHANGED <<val, content>> /\ pc[t] # "write" /\ pc'[t] # "write"
    BY <1>t DEF ReadStatus, IInv, TypeOK
  <2>2. \A c \in Cell : status'[c].ptr = status[c].ptr /\ status'[c].removed = status[c].removed
    BY <1>w DEF ReadStatus, IInv, TypeOK, Status
  <2>3. QED
    BY <1>o, <2>1, <2>2, ContentStays
<1>8. ReadInv'
  <2>1. ReadOf(t)'
    <3>1. /\ status' = status /\ call'[t] = call[t] /\ at(t)' = at(t) /\ InLeaf(t)' = InLeaf(t)
          /\ st'[t] = status[at(t)] /\ todo'[t] = Word
      BY DEF ReadStatus, IInv, TypeOK, at, InLeaf
    <3>2. status[at(t)].version \in Nat
      BY <1>w DEF IInv, TypeOK, Status
    <3>3. InLeaf(t) \/ call[t].op \in Ignoring => ~status[at(t)].ptr
      BY <1>w DEF IInv, PointerInv, PointerOf
    <3>4. QED
      BY <3>1, <3>2, <3>3 DEF ReadOf, Copied
  <2>2. QED
    BY <1>t, <1>o, <1>f, <2>1, ReadInvStays
<1>9. QED
  BY <1>t, <1>o, <1>f, <1>1, <1>2, <1>3, <1>4, <1>5, <1>6, <1>7, <1>8 DEF IInv

\* A word is copied as it is.
LEMMA ReadWordStep ==
    ASSUME IInv, NEW t \in Thread, ReadWord(t), Observe
    PROVE  IInv' /\ Others(t) /\ \A c \in Cell : Steady(c)
<1> USE NameAssumption DEF NameAssumption, GoTo, SetStatus, cells, local, Cell
<1>w. \A s \in Thread : at(s) = IF InLeaf(s) THEN Leaf ELSE Top
  BY Where DEF IInv
<1>t. TypeOK'
  BY <1>w, PathEnd, OpsAssumption DEF OpsAssumption, Ignoring, Updates, IInv, TypeOK, ReadWord,
     Observe, Status, Fresh, Value, Pointer, InLeaf
<1>x. \A s \in Thread : at(s)' = IF InLeaf(s)' THEN Leaf ELSE Top
  BY <1>t, WhereNext
<1>o. Others(t)
  BY DEF Others, Own, IInv, TypeOK, ReadWord
<1>h. \A s \in Thread : (Holds(s)' <=> Holds(s)) /\ (HoldsLeaf(s)' <=> HoldsLeaf(s))
  BY <1>t, <1>w, <1>x, PathEnd DEF InLeaf, IInv, TypeOK, ReadWord, ControlInv, Holds, HoldsLeaf,
     Locking, Replacing, IsRead, IsReplace, IsUpdate, Updates
<1>1. LockInv'
  <2>1. \A c \in Cell : status'[c].locked = status[c].locked
    BY DEF IInv, TypeOK, Status, ReadWord
  <2>2. QED
    BY <1>h, <2>1, LockInvStays
<1>f. \A c \in Cell : Steady(c)
  <2>1. \A s \in Thread, c \in Cell : Changing(s, c) => Changing(s, c)'
    BY <1>h, <1>t, <1>w, <1>x, PathEnd DEF Changing, HoldsLeaf, InLeaf, IInv, TypeOK, ControlInv, ReadWord
  <2>2. QED
    BY <2>1, QuietIsSteady DEF ReadWord
<1>2. ControlInv'
  BY <1>h, <1>t, <1>w, <1>x, PathEnd DEF InLeaf, IInv, TypeOK, ReadWord, ControlInv, Locking, Replacing, Updates, Ignoring, IsRead, IsReplace, IsUpdate
<1>3. AnswerInv'
  BY <1>h, <1>t, <1>w, <1>x, PathEnd DEF InLeaf, IInv, TypeOK, ReadWord, AnswerInv, ControlInv, Locking, Replacing, Updates, IsReplace, IsRead, IsUpdate, IsRemove
<1>4. PointerInv'
  <2>1. ~status'[Leaf].ptr /\ status'[Top].ptr = status[Top].ptr /\ (IsReplace(t)' => IsReplace(t))
    BY <1>w DEF IInv, TypeOK, Status, PointerInv, IsReplace, ReadWord
  <2>2. \A s \in Thread \ {t} : pc[s] = "write" =>
            status'[at(s)].ptr = status[at(s)].ptr /\ status'[at(s)].removed = status[at(s)].removed
    BY <1>w DEF IInv, TypeOK, Status, ReadWord
  <2>3. PointerOf(t)'
    BY <1>t, <2>1, PointerStays DEF ReadWord, IInv, TypeOK, ControlInv, Locking, Replacing, IsReplace
  <2>4. QED
    BY <1>o, <2>1, <2>2, <2>3, PointerInvStays
<1>5. CellInv'
  BY <1>h, <1>t, <1>w, <1>x, PathEnd DEF InLeaf, IInv, TypeOK, ReadWord, CellInv, ControlInv, PointerInv, PointerOf, LockInv, Holds, Locking, Replacing, IsRead, IsReplace, IsUpdate, FetchInv, FetchOf
<1>6. FetchInv'
  BY <1>h, <1>t, <1>w, <1>x, PathEnd DEF InLeaf, IInv, TypeOK, ReadWord, FetchInv, FetchOf, LockInv, ControlInv, ReadInv, ReadOf, Holds, Locking, Replacing, IsRead, IsReplace, IsUpdate, IsRemove
<1>7. ContentInv'
  <2>1. UNCHANGED <<val, content>> /\ pc[t] # "write" /\ pc'[t] # "write"
    BY <1>t DEF ReadWord, IInv, TypeOK
  <2>2. \A c \in Cell : status'[c].ptr = status[c].ptr /\ status'[c].removed = status[c].removed
    BY <1>w DEF ReadWord, IInv, TypeOK, Status
  <2>3. QED
    BY <1>o, <2>1, <2>2, ContentStays
<1>8. ReadInv'
  <2>1. ReadOf(t)'
    <3>1. PICK w \in todo[t] : v' = [v EXCEPT ![t][w] = val[at(t)][w]] /\ todo' = [todo EXCEPT ![t] = @ \ {w}]
      BY DEF ReadWord
    <3>2. /\ v[t] \in [Word -> Val \cup {Leaf}] /\ w \in Word
          /\ v'[t] = [v[t] EXCEPT ![w] = val[at(t)][w]] /\ todo'[t] = todo[t] \ {w}
      BY <3>1 DEF IInv, TypeOK
    <3>3. UNCHANGED cells /\ call'[t] = call[t] /\ at(t)' = at(t) /\ InLeaf(t)' = InLeaf(t) /\ st'[t] = st[t]
      BY DEF ReadWord, at, InLeaf
    <3>4. ReadOf(t)
      BY DEF ReadWord, IInv, ReadInv
    <3>5. call[t].op \in Ignoring => val[at(t)][w] \in Val
      BY <1>w, <3>2 DEF IInv, PointerInv, PointerOf, CellInv
    <3>6. Clean(at(t))' => Clean(at(t))
      BY <1>f, <1>w, <3>3 DEF Steady
    <3>7. Clean(at(t))' /\ st[t].version = status[at(t)].version => Copied(t, at(t))'
      BY <3>2, <3>3, <3>4, <3>6 DEF ReadOf, Copied
    <3>8. QED
      BY <3>2, <3>3, <3>4, <3>5, <3>7 DEF ReadOf
  <2>2. QED
    BY <1>t, <1>o, <1>f, <2>1, ReadInvStays
<1>9. QED
  BY <1>t, <1>o, <1>f, <1>1, <1>2, <1>3, <1>4, <1>5, <1>6, <1>7, <1>8 DEF IInv

\* A reader starts again.
LEMMA RetryStep ==
    ASSUME IInv, NEW t \in Thread, Retry(t), Observe
    PROVE  IInv' /\ Others(t) /\ \A c \in Cell : Steady(c)
<1> USE NameAssumption DEF NameAssumption, GoTo, SetStatus, cells, local, Cell
<1>w. \A s \in Thread : at(s) = IF InLeaf(s) THEN Leaf ELSE Top
  BY Where DEF IInv
<1>t. TypeOK'
  BY <1>w, PathEnd, OpsAssumption DEF OpsAssumption, Ignoring, Updates, IInv, TypeOK, Retry,
     Observe, Status, Fresh, Value, Pointer, InLeaf
<1>x. \A s \in Thread : at(s)' = IF InLeaf(s)' THEN Leaf ELSE Top
  BY <1>t, WhereNext
<1>o. Others(t)
  BY DEF Others, Own, IInv, TypeOK, Retry
<1>h. \A s \in Thread : (Holds(s)' <=> Holds(s)) /\ (HoldsLeaf(s)' <=> HoldsLeaf(s))
  BY <1>t, <1>w, <1>x, PathEnd DEF InLeaf, IInv, TypeOK, Retry, ControlInv, Holds, HoldsLeaf,
     Locking, Replacing, IsRead, IsReplace, IsUpdate, Updates
<1>1. LockInv'
  <2>1. \A c \in Cell : status'[c].locked = status[c].locked
    BY DEF IInv, TypeOK, Status, Retry
  <2>2. QED
    BY <1>h, <2>1, LockInvStays
<1>f. \A c \in Cell : Steady(c)
  <2>1. \A s \in Thread, c \in Cell : Changing(s, c) => Changing(s, c)'
    BY <1>h, <1>t, <1>w, <1>x, PathEnd DEF Changing, HoldsLeaf, InLeaf, IInv, TypeOK, ControlInv, Retry
  <2>2. QED
    BY <2>1, QuietIsSteady DEF Retry
<1>2. ControlInv'
  BY <1>h, <1>t, <1>w, <1>x, PathEnd DEF InLeaf, IInv, TypeOK, Retry, ControlInv, Locking, Replacing, Updates, Ignoring, IsRead, IsReplace, IsUpdate
<1>3. AnswerInv'
  BY <1>h, <1>t, <1>w, <1>x, PathEnd DEF InLeaf, IInv, TypeOK, Retry, AnswerInv, ControlInv, Locking, Replacing, Updates, IsReplace, IsRead, IsUpdate, IsRemove
<1>4. PointerInv'
  <2>1. ~status'[Leaf].ptr /\ status'[Top].ptr = status[Top].ptr /\ (IsReplace(t)' => IsReplace(t))
    BY <1>w DEF IInv, TypeOK, Status, PointerInv, IsReplace, Retry
  <2>2. \A s \in Thread \ {t} : pc[s] = "write" =>
            status'[at(s)].ptr = status[at(s)].ptr /\ status'[at(s)].removed = status[at(s)].removed
    BY <1>w DEF IInv, TypeOK, Status, Retry
  <2>3. PointerOf(t)'
    BY <1>t, <2>1, PointerStays DEF Retry, IInv, TypeOK, ControlInv, Locking, Replacing, IsReplace
  <2>4. QED
    BY <1>o, <2>1, <2>2, <2>3, PointerInvStays
<1>5. CellInv'
  BY <1>h, <1>t, <1>w, <1>x, PathEnd DEF InLeaf, IInv, TypeOK, Retry, CellInv, ControlInv, PointerInv, PointerOf, LockInv, Holds, Locking, Replacing, IsRead, IsReplace, IsUpdate, FetchInv, FetchOf
<1>6. FetchInv'
  BY <1>h, <1>t, <1>w, <1>x, PathEnd DEF InLeaf, IInv, TypeOK, Retry, FetchInv, FetchOf, LockInv, ControlInv, ReadInv, ReadOf, Holds, Locking, Replacing, IsRead, IsReplace, IsUpdate, IsRemove
<1>7. ContentInv'
  <2>1. UNCHANGED <<val, content>> /\ pc[t] # "write" /\ pc'[t] # "write"
    BY <1>t DEF Retry, IInv, TypeOK
  <2>2. \A c \in Cell : status'[c].ptr = status[c].ptr /\ status'[c].removed = status[c].removed
    BY <1>w DEF Retry, IInv, TypeOK, Status
  <2>3. QED
    BY <1>o, <2>1, <2>2, ContentStays
<1>8. ReadInv'
  <2>1. pc'[t] \notin {"value", "check"}
    BY <1>t DEF IInv, TypeOK, Retry
  <2>2. QED
    BY <1>t, <1>o, <1>f, <2>1, ReadInvStays
<1>9. QED
  BY <1>t, <1>o, <1>f, <1>1, <1>2, <1>3, <1>4, <1>5, <1>6, <1>7, <1>8 DEF IInv

\* A reader follows a pointer that is one.
LEMMA FollowStep ==
    ASSUME IInv, NEW t \in Thread, Follow(t), Observe
    PROVE  IInv' /\ Others(t) /\ \A c \in Cell : Steady(c)
<1> USE NameAssumption DEF NameAssumption, GoTo, SetStatus, cells, local, Cell
<1>w. \A s \in Thread : at(s) = IF InLeaf(s) THEN Leaf ELSE Top
  BY Where DEF IInv
<1>q. ~InLeaf(t) /\ path' = [path EXCEPT ![t] = <<Top, Leaf>>]
  <2>1. ~InLeaf(t)
    BY <1>w DEF Follow, IInv, ReadInv, ReadOf
  <2>2. QED
    BY <2>1, PathEnd DEF Follow, IInv, TypeOK, InLeaf
<1>t. TypeOK'
  <2>1. /\ UNCHANGED <<status, val, call, st, v, todo, answer, done, content>>
        /\ pc' = [pc EXCEPT ![t] = "status"]
        /\ seen' \in [Thread -> SUBSET (Value \cup {Gone})]
    BY DEF Follow, IInv, TypeOK, Observe
  <2>2. path' \in [Thread -> {<<Top>>, <<Top, Leaf>>}]
    <3>1. path \in [Thread -> {<<Top>>, <<Top, Leaf>>}]
      BY DEF IInv, TypeOK
    <3>2. QED
      BY <1>q, <3>1
  <2>3. pc' \in [Thread -> {"idle", "status", "value", "check", "lock", "act", "write", "copy",
                           "set_removed", "unset_is_ptr", "version", "unlock", "return"}]
    BY <2>1 DEF IInv, TypeOK
  <2>4. QED
    BY <2>1, <2>2, <2>3 DEF IInv, TypeOK
<1>x. \A s \in Thread : at(s)' = IF InLeaf(s)' THEN Leaf ELSE Top
  BY <1>t, WhereNext
<1>o. Others(t)
  BY DEF Others, Own, IInv, TypeOK, Follow
<1>r. IsRead(t) /\ call[t].op \notin Ignoring /\ InLeaf(t)'
  BY <1>q DEF Follow, IInv, TypeOK, ControlInv, InLeaf, ReadInv, ReadOf
<1>h. \A s \in Thread : (Holds(s)' <=> Holds(s)) /\ (HoldsLeaf(s)' <=> HoldsLeaf(s))
  <2>1. ~Holds(t) /\ ~Holds(t)' /\ ~HoldsLeaf(t) /\ ~HoldsLeaf(t)'
    BY <1>q, <1>r DEF Follow, IInv, TypeOK, Holds, HoldsLeaf, IsRead
  <2>2. QED
    BY <1>o, <2>1, OtherStays DEF Holds, HoldsLeaf, IsRead
<1>1. LockInv'
  <2>1. \A c \in Cell : status'[c].locked = status[c].locked
    BY DEF IInv, TypeOK, Status, Follow
  <2>2. QED
    BY <1>h, <2>1, LockInvStays
<1>f. \A c \in Cell : Steady(c)
  <2>1. \A s \in Thread, c \in Cell : Changing(s, c) => Changing(s, c)'
    BY <1>h, <1>t, <1>w, <1>x, PathEnd DEF Changing, HoldsLeaf, InLeaf, IInv, TypeOK, ControlInv, Follow
  <2>2. QED
    BY <2>1, QuietIsSteady DEF Follow
<1>2. ControlInv'
  BY <1>q, <1>r, <1>o, OtherStays DEF Follow, IInv, TypeOK, ControlInv, Locking, Replacing, IsRead, IsReplace, IsUpdate
<1>3. AnswerInv'
  BY <1>h, <1>t, <1>w, <1>x, PathEnd DEF InLeaf, IInv, TypeOK, Follow, AnswerInv, ControlInv, Locking, Replacing, Updates, IsReplace, IsRead, IsUpdate, IsRemove
<1>4. PointerInv'
  <2>1. ~status'[Leaf].ptr /\ status'[Top].ptr = status[Top].ptr /\ (IsReplace(t)' => IsReplace(t))
    BY <1>w DEF IInv, TypeOK, Status, PointerInv, IsReplace, Follow
  <2>2. \A s \in Thread \ {t} : pc[s] = "write" =>
            status'[at(s)].ptr = status[at(s)].ptr /\ status'[at(s)].removed = status[at(s)].removed
    BY <1>w DEF IInv, TypeOK, Status, Follow
  <2>3. PointerOf(t)'
    BY <1>r, <2>1 DEF Follow, IInv, TypeOK, PointerOf, IsRead, IsReplace
  <2>4. QED
    BY <1>o, <2>1, <2>2, <2>3, PointerInvStays
<1>5. CellInv'
  BY <1>h, <1>t, <1>w, <1>x, PathEnd DEF InLeaf, IInv, TypeOK, Follow, CellInv, ControlInv, PointerInv, PointerOf, LockInv, Holds, Locking, Replacing, IsRead, IsReplace, IsUpdate, FetchInv, FetchOf
<1>6. FetchInv'
  BY <1>h, <1>t, <1>w, <1>x, PathEnd DEF InLeaf, IInv, TypeOK, Follow, FetchInv, FetchOf, LockInv, ControlInv, ReadInv, ReadOf, Holds, Locking, Replacing, IsRead, IsReplace, IsUpdate, IsRemove
<1>7. ContentInv'
  <2>1. UNCHANGED <<val, content>> /\ pc[t] # "write" /\ pc'[t] # "write"
    BY <1>t DEF Follow, IInv, TypeOK
  <2>2. \A c \in Cell : status'[c].ptr = status[c].ptr /\ status'[c].removed = status[c].removed
    BY <1>w DEF Follow, IInv, TypeOK, Status
  <2>3. QED
    BY <1>o, <2>1, <2>2, ContentStays
<1>8. ReadInv'
  <2>1. pc'[t] \notin {"value", "check"}
    BY <1>t DEF IInv, TypeOK, Follow
  <2>2. QED
    BY <1>t, <1>o, <1>f, <2>1, ReadInvStays
<1>9. QED
  BY <1>t, <1>o, <1>f, <1>1, <1>2, <1>3, <1>4, <1>5, <1>6, <1>7, <1>8 DEF IInv

\* A reader answers.
LEMMA AnswerStep ==
    ASSUME IInv, NEW t \in Thread, Answer(t), Observe
    PROVE  IInv' /\ Others(t) /\ \A c \in Cell : Steady(c)
<1> USE NameAssumption DEF NameAssumption, GoTo, SetStatus, cells, local, Cell
<1>w. \A s \in Thread : at(s) = IF InLeaf(s) THEN Leaf ELSE Top
  BY Where DEF IInv
<1>t. TypeOK'
  <2>1. ~st[t].removed => v[t] \in [Word -> Val]
    <3>1. CASE call[t].op = "read_ignoring_ptr"
      BY <3>1 DEF Answer, IInv, TypeOK, ReadInv, ReadOf, ControlInv, Ignoring
    <3>2. CASE call[t].op # "read_ignoring_ptr"
      BY <1>w, <3>2, FreshRead DEF Answer, IInv, CellInv
    <3>3. QED
      BY <3>1, <3>2
  <2>2. QED
    BY <2>1 DEF Answer, IInv, TypeOK, Observe
<1>x. \A s \in Thread : at(s)' = IF InLeaf(s)' THEN Leaf ELSE Top
  BY <1>t, WhereNext
<1>o. Others(t)
  BY DEF Others, Own, IInv, TypeOK, Answer
<1>h. \A s \in Thread : (Holds(s)' <=> Holds(s)) /\ (HoldsLeaf(s)' <=> HoldsLeaf(s))
  BY <1>t, <1>w, <1>x, PathEnd DEF InLeaf, IInv, TypeOK, Answer, ControlInv, Holds, HoldsLeaf,
     Locking, Replacing, IsRead, IsReplace, IsUpdate, Updates
<1>1. LockInv'
  <2>1. \A c \in Cell : status'[c].locked = status[c].locked
    BY DEF IInv, TypeOK, Status, Answer
  <2>2. QED
    BY <1>h, <2>1, LockInvStays
<1>f. \A c \in Cell : Steady(c)
  <2>1. \A s \in Thread, c \in Cell : Changing(s, c) => Changing(s, c)'
    BY <1>h, <1>t, <1>w, <1>x, PathEnd DEF Changing, HoldsLeaf, InLeaf, IInv, TypeOK, ControlInv, Answer
  <2>2. QED
    BY <2>1, QuietIsSteady DEF Answer
<1>2. ControlInv'
  BY <1>h, <1>t, <1>w, <1>x, PathEnd DEF InLeaf, IInv, TypeOK, Answer, ControlInv, Locking, Replacing, Updates, Ignoring, IsRead, IsReplace, IsUpdate
<1>3. AnswerInv'
  BY <1>h, <1>t, <1>w, <1>x, PathEnd DEF InLeaf, IInv, TypeOK, Answer, AnswerInv, ControlInv, Locking, Replacing, Updates, IsReplace, IsRead, IsUpdate, IsRemove
<1>4. PointerInv'
  <2>1. ~status'[Leaf].ptr /\ status'[Top].ptr = status[Top].ptr /\ (IsReplace(t)' => IsReplace(t))
    BY <1>w DEF IInv, TypeOK, Status, PointerInv, IsReplace, Answer
  <2>2. \A s \in Thread \ {t} : pc[s] = "write" =>
            status'[at(s)].ptr = status[at(s)].ptr /\ status'[at(s)].removed = status[at(s)].removed
    BY <1>w DEF IInv, TypeOK, Status, Answer
  <2>3. PointerOf(t)'
    BY <1>t, <2>1, PointerStays DEF Answer, IInv, TypeOK, ControlInv, Locking, Replacing, IsReplace
  <2>4. QED
    BY <1>o, <2>1, <2>2, <2>3, PointerInvStays
<1>5. CellInv'
  BY <1>h, <1>t, <1>w, <1>x, PathEnd DEF InLeaf, IInv, TypeOK, Answer, CellInv, ControlInv, PointerInv, PointerOf, LockInv, Holds, Locking, Replacing, IsRead, IsReplace, IsUpdate, FetchInv, FetchOf
<1>6. FetchInv'
  BY <1>h, <1>t, <1>w, <1>x, PathEnd DEF InLeaf, IInv, TypeOK, Answer, FetchInv, FetchOf, LockInv, ControlInv, ReadInv, ReadOf, Holds, Locking, Replacing, IsRead, IsReplace, IsUpdate, IsRemove
<1>7. ContentInv'
  <2>1. UNCHANGED <<val, content>> /\ pc[t] # "write" /\ pc'[t] # "write"
    BY <1>t DEF Answer, IInv, TypeOK
  <2>2. \A c \in Cell : status'[c].ptr = status[c].ptr /\ status'[c].removed = status[c].removed
    BY <1>w DEF Answer, IInv, TypeOK, Status
  <2>3. QED
    BY <1>o, <2>1, <2>2, ContentStays
<1>8. ReadInv'
  <2>1. pc'[t] \notin {"value", "check"}
    BY <1>t DEF IInv, TypeOK, Answer
  <2>2. QED
    BY <1>t, <1>o, <1>f, <2>1, ReadInvStays
<1>9. QED
  BY <1>t, <1>o, <1>f, <1>1, <1>2, <1>3, <1>4, <1>5, <1>6, <1>7, <1>8 DEF IInv

\* Whoever finds a cell unlocked is its only holder.
LEMMA LockStep ==
    ASSUME IInv, NEW t \in Thread, Lock(t), Observe
    PROVE  IInv' /\ Others(t) /\ \A c \in Cell : Steady(c)
<1> USE NameAssumption DEF NameAssumption, GoTo, SetStatus, cells, local, Cell
<1>w. \A s \in Thread : at(s) = IF InLeaf(s) THEN Leaf ELSE Top
  BY Where DEF IInv
<1>t. TypeOK'
  <2>1. status' \in [Cell -> Status]
    BY <1>w, StatusType DEF Lock, IInv, TypeOK
  <2>2. content' \in Value \cup {Gone}
    BY DEF Lock, IInv, TypeOK
  <2>3. seen' \in [Thread -> SUBSET (Value \cup {Gone})]
    BY <2>2 DEF Observe, IInv, TypeOK
  <2>4. QED
    BY <2>1, <2>2, <2>3 DEF Lock, IInv, TypeOK
<1>x. \A s \in Thread : at(s)' = IF InLeaf(s)' THEN Leaf ELSE Top
  BY <1>t, WhereNext
<1>o. Others(t)
  BY DEF Others, Own, IInv, TypeOK, Lock
<1>1. LockInv'
  <2>1. \A s \in Thread \ {t} : (Holds(s)' <=> Holds(s)) /\ (HoldsLeaf(s)' <=> HoldsLeaf(s))
    BY <1>o, OtherStays DEF Holds, HoldsLeaf, IsRead
  <2>2. Holds(t)' /\ (HoldsLeaf(t)' <=> InLeaf(t)) /\ ~HoldsLeaf(t) /\ (Holds(t) <=> InLeaf(t))
    BY DEF Lock, IInv, TypeOK, ControlInv, Locking, Holds, HoldsLeaf, InLeaf, IsRead
  <2>3. status'[at(t)].locked /\ ~status[at(t)].locked /\ \A c \in Cell : c # at(t) => status'[c] = status[c]
    BY <1>w DEF Lock, IInv, TypeOK, Status
  <2>4. QED
    BY <1>w, <2>1, <2>2, <2>3 DEF IInv, LockInv
<1>f. \A c \in Cell : Steady(c)
  <2>1. \A s \in Thread \ {t}, c \in Cell : Changing(s, c) => Changing(s, c)'
    BY <1>o, OtherStays DEF Changing, Holds, HoldsLeaf, IsRead
  <2>2. \A c \in Cell : Changing(t, c) => Changing(t, c)'
    BY <1>w, PathEnd DEF Lock, IInv, TypeOK, ControlInv, Locking, Changing, Holds, HoldsLeaf, InLeaf, IsRead
  <2>3. \A c \in Cell : /\ val'[c] = val[c] /\ status[c].version \in Nat
                       /\ status'[c].version = status[c].version
                       /\ status'[c].removed = status[c].removed /\ status'[c].ptr = status[c].ptr
    BY <1>w DEF Lock, IInv, TypeOK, Status
  <2>4. QED
    BY <2>1, <2>2, <2>3 DEF Steady, Clean
<1>2. ControlInv'
  BY <1>t, <1>w, <1>x, PathEnd DEF InLeaf, IInv, TypeOK, Lock, ControlInv, Locking, Replacing, Updates, Ignoring, IsRead, IsReplace, IsUpdate
<1>3. AnswerInv'
  BY <1>t, <1>w, <1>x, PathEnd DEF InLeaf, IInv, TypeOK, Lock, AnswerInv, ControlInv, Locking, Replacing, Updates, IsReplace, IsRead, IsUpdate, IsRemove
<1>4. PointerInv'
  <2>1. ~status'[Leaf].ptr /\ status'[Top].ptr = status[Top].ptr /\ (IsReplace(t)' => IsReplace(t))
    BY <1>w DEF IInv, TypeOK, Status, PointerInv, IsReplace, Lock
  <2>2. \A s \in Thread \ {t} : pc[s] = "write" =>
            status'[at(s)].ptr = status[at(s)].ptr /\ status'[at(s)].removed = status[at(s)].removed
    BY <1>w DEF IInv, TypeOK, Status, Lock
  <2>3. PointerOf(t)'
    <3>1. status'[Top].ptr = status[Top].ptr
      BY <1>w DEF Lock, IInv, TypeOK, Status
    <3>2. QED
      BY <1>w, <2>1, <3>1, PathEnd, PointerStays DEF Lock, IInv, TypeOK, InLeaf
  <2>4. QED
    BY <1>o, <2>1, <2>2, <2>3, PointerInvStays
<1>5. CellInv'
  BY <1>t, <1>w, <1>x, PathEnd DEF InLeaf, IInv, TypeOK, Lock, CellInv, ControlInv, PointerInv, PointerOf, LockInv, Holds, Locking, Replacing, IsRead, IsReplace, IsUpdate, FetchInv, FetchOf
<1>6. FetchInv'
  BY <1>t, <1>w, <1>x, PathEnd DEF InLeaf, IInv, TypeOK, Lock, FetchInv, FetchOf, LockInv, ControlInv, ReadInv, ReadOf, Holds, Locking, Replacing, IsRead, IsReplace, IsUpdate, IsRemove
<1>7. ContentInv'
  <2>1. UNCHANGED <<val, content>> /\ pc[t] # "write" /\ pc'[t] # "write"
    BY <1>t DEF Lock, IInv, TypeOK
  <2>2. \A c \in Cell : status'[c].ptr = status[c].ptr /\ status'[c].removed = status[c].removed
    BY <1>w DEF Lock, IInv, TypeOK, Status
  <2>3. QED
    BY <1>o, <2>1, <2>2, ContentStays
<1>8. ReadInv'
  <2>1. pc'[t] \notin {"value", "check"}
    BY <1>t DEF IInv, TypeOK, Lock
  <2>2. QED
    BY <1>t, <1>o, <1>f, <2>1, ReadInvStays
<1>9. QED
  BY <1>t, <1>o, <1>f, <1>1, <1>2, <1>3, <1>4, <1>5, <1>6, <1>7, <1>8 DEF IInv

\* A pointer leads to the inner cell.
LEMMA DescendStep ==
    ASSUME IInv, NEW t \in Thread, Descend(t), Observe
    PROVE  IInv' /\ Others(t) /\ \A c \in Cell : Steady(c)
<1> USE NameAssumption DEF NameAssumption, GoTo, SetStatus, cells, local, Cell
<1>w. \A s \in Thread : at(s) = IF InLeaf(s) THEN Leaf ELSE Top
  BY Where DEF IInv
<1>q. ~InLeaf(t) /\ path' = [path EXCEPT ![t] = <<Top, Leaf>>]
  <2>1. ~InLeaf(t)
    BY <1>w DEF Descend, IInv, PointerInv
  <2>2. QED
    BY <2>1, PathEnd DEF Descend, IInv, TypeOK, InLeaf
<1>t. TypeOK'
  BY ZenonT(60), <1>q DEF Descend, IInv, TypeOK, Observe
<1>x. \A s \in Thread : at(s)' = IF InLeaf(s)' THEN Leaf ELSE Top
  BY <1>t, WhereNext
<1>o. Others(t)
  BY DEF Others, Own, IInv, TypeOK, Descend
<1>r. ~IsRead(t) /\ call[t].op \notin Ignoring /\ status[Top].ptr /\ InLeaf(t)'
  BY <1>q, <1>w DEF Descend, IInv, TypeOK, ControlInv, InLeaf, PointerInv, PointerOf, Locking
<1>h. \A s \in Thread : (Holds(s)' <=> Holds(s)) /\ (HoldsLeaf(s)' <=> HoldsLeaf(s))
  <2>1. Holds(t) /\ Holds(t)' /\ ~HoldsLeaf(t) /\ ~HoldsLeaf(t)'
    BY <1>q, <1>r DEF Descend, IInv, TypeOK, Holds, HoldsLeaf, IsRead
  <2>2. QED
    BY <1>o, <2>1, OtherStays DEF Holds, HoldsLeaf, IsRead
<1>1. LockInv'
  <2>1. \A c \in Cell : status'[c].locked = status[c].locked
    BY DEF IInv, TypeOK, Status, Descend
  <2>2. QED
    BY <1>h, <2>1, LockInvStays
<1>f. \A c \in Cell : Steady(c)
  <2>1. \A s \in Thread, c \in Cell : Changing(s, c) => Changing(s, c)'
    BY SMTT(60), <1>h, <1>t, <1>w, <1>x, PathEnd DEF Changing, HoldsLeaf, InLeaf, IInv, TypeOK, ControlInv, Descend
  <2>2. QED
    BY <2>1, QuietIsSteady DEF Descend
<1>2. ControlInv'
  BY <1>q, <1>r, <1>o, OtherStays DEF Descend, IInv, TypeOK, ControlInv, Locking, Replacing, IsRead, IsReplace, IsUpdate
<1>3. AnswerInv'
  BY <1>h, <1>t, <1>w, <1>x, PathEnd DEF InLeaf, IInv, TypeOK, Descend, AnswerInv, ControlInv, Locking, Replacing, Updates, IsReplace, IsRead, IsUpdate, IsRemove
<1>4. PointerInv'
  <2>1. ~status'[Leaf].ptr /\ status'[Top].ptr = status[Top].ptr /\ (IsReplace(t)' => IsReplace(t))
    BY <1>w DEF IInv, TypeOK, Status, PointerInv, IsReplace, Descend
  <2>2. \A s \in Thread \ {t} : pc[s] = "write" =>
            status'[at(s)].ptr = status[at(s)].ptr /\ status'[at(s)].removed = status[at(s)].removed
    BY <1>w DEF IInv, TypeOK, Status, Descend
  <2>3. PointerOf(t)'
    BY <1>r, <2>1 DEF Descend, IInv, TypeOK, PointerOf, IsRead, IsReplace
  <2>4. QED
    BY <1>o, <2>1, <2>2, <2>3, PointerInvStays
<1>5. CellInv'
  BY <1>h, <1>t, <1>w, <1>x, PathEnd DEF InLeaf, IInv, TypeOK, Descend, CellInv, ControlInv, PointerInv, PointerOf, LockInv, Holds, Locking, Replacing, IsRead, IsReplace, IsUpdate, FetchInv, FetchOf
<1>6. FetchInv'
  BY <1>h, <1>t, <1>w, <1>x, PathEnd DEF InLeaf, IInv, TypeOK, Descend, FetchInv, FetchOf, LockInv, ControlInv, ReadInv, ReadOf, Holds, Locking, Replacing, IsRead, IsReplace, IsUpdate, IsRemove
<1>7. ContentInv'
  <2>1. UNCHANGED <<val, content>> /\ pc[t] # "write" /\ pc'[t] # "write"
    BY <1>t DEF Descend, IInv, TypeOK
  <2>2. \A c \in Cell : status'[c].ptr = status[c].ptr /\ status'[c].removed = status[c].removed
    BY <1>w DEF Descend, IInv, TypeOK, Status
  <2>3. QED
    BY <1>o, <2>1, <2>2, ContentStays
<1>8. ReadInv'
  <2>1. pc'[t] \notin {"value", "check"}
    BY <1>t DEF IInv, TypeOK, Descend
  <2>2. QED
    BY <1>t, <1>o, <1>f, <2>1, ReadInvStays
<1>9. QED
  BY <1>t, <1>o, <1>f, <1>1, <1>2, <1>3, <1>4, <1>5, <1>6, <1>7, <1>8 DEF IInv

\* A removed value is left alone.
LEMMA FailStep ==
    ASSUME IInv, NEW t \in Thread, Fail(t), Observe
    PROVE  IInv' /\ Others(t) /\ \A c \in Cell : Steady(c)
<1> USE NameAssumption DEF NameAssumption, GoTo, SetStatus, cells, local, Cell
<1>w. \A s \in Thread : at(s) = IF InLeaf(s) THEN Leaf ELSE Top
  BY Where DEF IInv
<1>t. TypeOK'
  BY <1>w, PathEnd, OpsAssumption DEF OpsAssumption, Ignoring, Updates, IInv, TypeOK, Fail,
     Observe, Status, Fresh, Value, Pointer, InLeaf
<1>x. \A s \in Thread : at(s)' = IF InLeaf(s)' THEN Leaf ELSE Top
  BY <1>t, WhereNext
<1>o. Others(t)
  BY DEF Others, Own, IInv, TypeOK, Fail
<1>h. \A s \in Thread : (Holds(s)' <=> Holds(s)) /\ (HoldsLeaf(s)' <=> HoldsLeaf(s))
  BY <1>t, <1>w, <1>x, PathEnd DEF InLeaf, IInv, TypeOK, Fail, ControlInv, Holds, HoldsLeaf,
     Locking, Replacing, IsRead, IsReplace, IsUpdate, Updates
<1>1. LockInv'
  <2>1. \A c \in Cell : status'[c].locked = status[c].locked
    BY DEF IInv, TypeOK, Status, Fail
  <2>2. QED
    BY <1>h, <2>1, LockInvStays
<1>f. \A c \in Cell : Steady(c)
  <2>1. \A s \in Thread, c \in Cell : Changing(s, c) => Changing(s, c)'
    BY <1>h, <1>t, <1>w, <1>x, PathEnd DEF Changing, HoldsLeaf, InLeaf, IInv, TypeOK, ControlInv, Fail
  <2>2. QED
    BY <2>1, QuietIsSteady DEF Fail
<1>2. ControlInv'
  BY <1>h, <1>t, <1>w, <1>x, PathEnd DEF InLeaf, IInv, TypeOK, Fail, ControlInv, Locking, Replacing, Updates, Ignoring, IsRead, IsReplace, IsUpdate
<1>3. AnswerInv'
  BY <1>t, <1>w, <1>x DEF IInv, TypeOK, Fail, AnswerInv, ControlInv, PointerInv, PointerOf, Locking, IsRead, IsReplace
<1>4. PointerInv'
  <2>1. ~status'[Leaf].ptr /\ status'[Top].ptr = status[Top].ptr /\ (IsReplace(t)' => IsReplace(t))
    BY <1>w DEF IInv, TypeOK, Status, PointerInv, IsReplace, Fail
  <2>2. \A s \in Thread \ {t} : pc[s] = "write" =>
            status'[at(s)].ptr = status[at(s)].ptr /\ status'[at(s)].removed = status[at(s)].removed
    BY <1>w DEF IInv, TypeOK, Status, Fail
  <2>3. PointerOf(t)'
    BY <1>t, <2>1, PointerStays DEF Fail, IInv, TypeOK, ControlInv, Locking, Replacing, IsReplace
  <2>4. QED
    BY <1>o, <2>1, <2>2, <2>3, PointerInvStays
<1>5. CellInv'
  BY <1>h, <1>t, <1>w, <1>x, PathEnd DEF InLeaf, IInv, TypeOK, Fail, CellInv, ControlInv, PointerInv, PointerOf, LockInv, Holds, Locking, Replacing, IsRead, IsReplace, IsUpdate, FetchInv, FetchOf
<1>6. FetchInv'
  BY <1>h, <1>t, <1>w, <1>x, PathEnd DEF InLeaf, IInv, TypeOK, Fail, FetchInv, FetchOf, LockInv, ControlInv, ReadInv, ReadOf, Holds, Locking, Replacing, IsRead, IsReplace, IsUpdate, IsRemove
<1>7. ContentInv'
  <2>1. UNCHANGED <<val, content>> /\ pc[t] # "write" /\ pc'[t] # "write"
    BY <1>t DEF Fail, IInv, TypeOK
  <2>2. \A c \in Cell : status'[c].ptr = status[c].ptr /\ status'[c].removed = status[c].removed
    BY <1>w DEF Fail, IInv, TypeOK, Status
  <2>3. QED
    BY <1>o, <2>1, <2>2, ContentStays
<1>8. ReadInv'
  <2>1. pc'[t] \notin {"value", "check"}
    BY <1>t DEF IInv, TypeOK, Fail
  <2>2. QED
    BY <1>t, <1>o, <1>f, <2>1, ReadInvStays
<1>9. QED
  BY <1>t, <1>o, <1>f, <1>1, <1>2, <1>3, <1>4, <1>5, <1>6, <1>7, <1>8 DEF IInv

\* Nothing is written yet.
LEMMA UpdateStep ==
    ASSUME IInv, NEW t \in Thread, Update(t), Observe
    PROVE  IInv' /\ Others(t) /\ \A c \in Cell : Steady(c)
<1> USE NameAssumption DEF NameAssumption, GoTo, SetStatus, cells, local, Cell
<1>w. \A s \in Thread : at(s) = IF InLeaf(s) THEN Leaf ELSE Top
  BY Where DEF IInv
<1>a. Holds(t) /\ \A s \in Thread \ {t} : ~Holds(s) /\ pc[s] \notin {"act", "write", "version", "unlock"} \cup Replacing
  <2>1. Holds(t)
    BY DEF IInv, ControlInv, Holds, Update, Locking, Replacing, IsRead, IsReplace
  <2>2. QED
    BY <2>1, OnlyHolder
<1>t. TypeOK'
  BY <1>w, PathEnd, OpsAssumption DEF OpsAssumption, Ignoring, Updates, IInv, TypeOK, Update,
     Observe, Status, Fresh, Value, Pointer, InLeaf
<1>x. \A s \in Thread : at(s)' = IF InLeaf(s)' THEN Leaf ELSE Top
  BY <1>t, WhereNext
<1>o. Others(t)
  BY DEF Others, Own, IInv, TypeOK, Update
<1>h. \A s \in Thread : (Holds(s)' <=> Holds(s)) /\ (HoldsLeaf(s)' <=> HoldsLeaf(s))
  BY <1>t, <1>w, <1>x, PathEnd DEF InLeaf, IInv, TypeOK, Update, ControlInv, Holds, HoldsLeaf,
     Locking, Replacing, IsRead, IsReplace, IsUpdate, Updates
<1>1. LockInv'
  <2>1. \A c \in Cell : status'[c].locked = status[c].locked
    BY DEF IInv, TypeOK, Status, Update
  <2>2. QED
    BY <1>h, <2>1, LockInvStays
<1>f. \A c \in Cell : Steady(c)
  <2>1. \A s \in Thread, c \in Cell : Changing(s, c) => Changing(s, c)'
    BY <1>h, <1>t, <1>w, <1>x, PathEnd DEF Changing, HoldsLeaf, InLeaf, IInv, TypeOK, ControlInv, Update
  <2>2. QED
    BY <2>1, QuietIsSteady DEF Update
<1>2. ControlInv'
  BY <1>a, <1>h, <1>t, <1>w, <1>x, PathEnd DEF InLeaf, IInv, TypeOK, Update, ControlInv, Locking, Replacing, Updates, Ignoring, IsRead, IsReplace, IsUpdate
<1>3. AnswerInv'
  BY <1>a, <1>h, <1>t, <1>w, <1>x, PathEnd DEF InLeaf, IInv, TypeOK, Update, AnswerInv, ControlInv, Locking, Replacing, Updates, IsReplace, IsRead, IsUpdate, IsRemove
<1>4. PointerInv'
  <2>1. ~status'[Leaf].ptr /\ status'[Top].ptr = status[Top].ptr /\ (IsReplace(t)' => IsReplace(t))
    BY <1>w DEF IInv, TypeOK, Status, PointerInv, IsReplace, Update
  <2>2. \A s \in Thread \ {t} : pc[s] = "write" =>
            status'[at(s)].ptr = status[at(s)].ptr /\ status'[at(s)].removed = status[at(s)].removed
    BY <1>a DEF Replacing
  <2>3. PointerOf(t)'
    <3>1. /\ UNCHANGED <<status, call>> /\ at(t)' = at(t) /\ InLeaf(t)' = InLeaf(t) /\ IsUpdate(t)
          /\ ~status[at(t)].ptr /\ ~status[at(t)].removed
      BY DEF Update, at, InLeaf
    <3>2. QED
      BY <3>1 DEF IInv, PointerInv, PointerOf, IsRead, IsReplace, IsUpdate, Updates
  <2>4. QED
    BY <1>o, <2>1, <2>2, <2>3, PointerInvStays
<1>5. CellInv'
  BY <1>a, <1>h, <1>t, <1>w, <1>x, PathEnd DEF InLeaf, IInv, TypeOK, Update, CellInv, ControlInv, PointerInv, PointerOf, LockInv, Holds, Locking, Replacing, IsRead, IsReplace, IsUpdate, FetchInv, FetchOf
<1>6. FetchInv'
  BY <1>a, <1>h, <1>t, <1>w, <1>x, PathEnd DEF InLeaf, IInv, TypeOK, Update, FetchInv, FetchOf, LockInv, ControlInv, ReadInv, ReadOf, Holds, Locking, Replacing, IsRead, IsReplace, IsUpdate, IsRemove
<1>7. ContentInv'
  <2>1. \A s \in Thread : pc[s] # "write"
    BY <1>a DEF Update
  <2>2. Source = at(t) /\ ~status[at(t)].removed
    BY <1>w DEF Update, IInv, PointerInv, PointerOf, IsUpdate, IsRead, Updates, Source
  <2>3. content = val[at(t)]
    BY <2>1, <2>2 DEF IInv, ContentInv, Held
  <2>4. UNCHANGED <<val, content, call>> /\ at(t)' = at(t) /\ todo'[t] = Word /\ pc'[t] = "write"
    BY DEF Update, IInv, TypeOK, at
  <2>5. \A s \in Thread \ {t} : pc'[s] # "write"
    BY <1>a, <1>o, OtherStays
  <2>6. QED
    BY <2>3, <2>4, <2>5 DEF ContentInv, WriteOf
<1>8. ReadInv'
  <2>1. pc'[t] \notin {"value", "check"}
    BY <1>t DEF IInv, TypeOK, Update
  <2>2. QED
    BY <1>t, <1>o, <1>f, <2>1, ReadInvStays
<1>9. QED
  BY <1>t, <1>o, <1>f, <1>1, <1>2, <1>3, <1>4, <1>5, <1>6, <1>7, <1>8 DEF IInv

\* A word is written under the lock.
LEMMA WriteWordStep ==
    ASSUME IInv, NEW t \in Thread, WriteWord(t), Observe
    PROVE  IInv' /\ Others(t) /\ \A c \in Cell : Steady(c)
<1> USE NameAssumption DEF NameAssumption, GoTo, SetStatus, cells, local, Cell
<1>w. \A s \in Thread : at(s) = IF InLeaf(s) THEN Leaf ELSE Top
  BY Where DEF IInv
<1>a. Holds(t) /\ \A s \in Thread \ {t} : ~Holds(s) /\ pc[s] \notin {"act", "write", "version", "unlock"} \cup Replacing
  <2>1. Holds(t)
    BY DEF IInv, ControlInv, Holds, WriteWord, Locking, Replacing, IsRead, IsReplace
  <2>2. QED
    BY <2>1, OnlyHolder
<1>q. PICK w \in todo[t] :
        /\ val' = [val EXCEPT ![at(t)][w] = call[t].arg[w]]
        /\ todo' = [todo EXCEPT ![t] = @ \ {w}]
        /\ pc' = IF todo[t] = {w} THEN [pc EXCEPT ![t] = "version"] ELSE pc
  BY DEF WriteWord
<1>u. IsUpdate(t) /\ ~IsReplace(t) /\ pc[t] = "write" /\ ~status[at(t)].ptr /\ ~status[at(t)].removed
  BY DEF WriteWord, IInv, ControlInv, PointerInv, PointerOf, IsUpdate, IsReplace, Updates
<1>v. call[t].arg \in Value /\ call[t].arg \in [Word -> Val] /\ w \in Word
  BY <1>u DEF IInv, TypeOK, IsUpdate, Value
<1>c. /\ val[at(t)] \in [Word -> Val \cup {Leaf}]
      /\ val'[at(t)] = [val[at(t)] EXCEPT ![w] = call[t].arg[w]]
      /\ \A c \in Cell : c # at(t) => val'[c] = val[c]
  BY <1>q, <1>w DEF IInv, TypeOK
<1>t. TypeOK'
  <2>1. val' \in [Cell -> [Word -> Val \cup {Leaf}]]
    BY <1>q, <1>v, <1>c, <1>w DEF IInv, TypeOK
  <2>2. seen' \in [Thread -> SUBSET (Value \cup {Gone})]
    BY <1>v DEF WriteWord, Observe, IInv, TypeOK
  <2>3. QED
    BY <1>q, <1>v, <2>1, <2>2 DEF WriteWord, IInv, TypeOK
<1>x. \A s \in Thread : at(s)' = IF InLeaf(s)' THEN Leaf ELSE Top
  BY <1>t, WhereNext
<1>o. Others(t)
  BY DEF Others, Own, IInv, TypeOK, WriteWord
<1>h. \A s \in Thread : (Holds(s)' <=> Holds(s)) /\ (HoldsLeaf(s)' <=> HoldsLeaf(s))
  BY <1>t, <1>w, <1>x, PathEnd DEF InLeaf, IInv, TypeOK, WriteWord, ControlInv, Holds, HoldsLeaf,
     Locking, Replacing, IsRead, IsReplace, IsUpdate, Updates
<1>1. LockInv'
  <2>1. \A c \in Cell : status'[c].locked = status[c].locked
    BY DEF IInv, TypeOK, Status, WriteWord
  <2>2. QED
    BY <1>h, <2>1, LockInvStays
<1>f. \A c \in Cell : Steady(c)
  <2>1. \A s \in Thread, c \in Cell : Changing(s, c) => Changing(s, c)'
    BY <1>h, <1>t, <1>w, <1>x, PathEnd DEF Changing, HoldsLeaf, InLeaf, IInv, TypeOK, ControlInv, WriteWord
  <2>2. Changing(t, at(t))'
    BY <1>h, <1>t, <1>w, <1>x, <2>1 DEF Changing, Holds, HoldsLeaf, InLeaf, IInv, TypeOK, ControlInv, WriteWord, Locking, Replacing, IsRead, IsReplace
  <2>3. \A c \in Cell : status'[c].version = status[c].version
    BY <1>w DEF WriteWord, IInv, TypeOK, Status
  <2>4. \A c \in Cell : c # at(t) => status'[c] = status[c] /\ val'[c] = val[c]
    BY <1>w DEF WriteWord, IInv, TypeOK, ControlInv, Replacing
  <2>5. at(t)' = at(t) /\ at(t) \in Cell
    BY <1>w DEF WriteWord, at
  <2>6. QED
    BY <2>1, <2>2, <2>3, <2>4, <2>5, ChangeIsSteady
<1>2. ControlInv'
  BY <1>q, <1>u, <1>o, OtherStays DEF WriteWord, IInv, TypeOK, ControlInv, InLeaf, Locking, Replacing,
     IsRead, IsReplace, IsUpdate, Updates
<1>3. AnswerInv'
  BY <1>q, <1>u, <1>v, <1>o, OtherStays DEF WriteWord, IInv, TypeOK, AnswerInv, IsReplace
<1>4. PointerInv'
  <2>1. ~status'[Leaf].ptr /\ status'[Top].ptr = status[Top].ptr /\ (IsReplace(t)' => IsReplace(t))
    BY <1>w DEF IInv, TypeOK, Status, PointerInv, IsReplace, WriteWord
  <2>2. \A s \in Thread \ {t} : pc[s] = "write" =>
            status'[at(s)].ptr = status[at(s)].ptr /\ status'[at(s)].removed = status[at(s)].removed
    BY <1>a DEF Replacing
  <2>3. PointerOf(t)'
    <3>1. status' = status /\ call'[t] = call[t] /\ InLeaf(t)' = InLeaf(t) /\ at(t)' = at(t)
      BY DEF WriteWord, InLeaf, at
    <3>2. QED
      BY <1>u, <3>1 DEF IInv, PointerInv, PointerOf, IsRead, IsReplace
  <2>4. QED
    BY <1>o, <2>1, <2>2, <2>3, PointerInvStays
<1>5. CellInv'
  <2>1. status' = status /\ \A s \in Thread : pc'[s] \in Replacing <=> pc[s] \in Replacing
    BY <1>q, <1>u DEF WriteWord, IInv, TypeOK, Replacing
  <2>2. \A s \in Thread : pc'[s] = "unset_is_ptr" <=> pc[s] = "unset_is_ptr"
    BY <1>q, <1>u DEF IInv, TypeOK
  <2>3. val[at(t)] \in [Word -> Val] => val'[at(t)] \in [Word -> Val]
    BY <1>v, <1>c
  <2>4. QED
    BY <1>w, <1>u, <1>c, <2>1, <2>2, <2>3 DEF IInv, CellInv
<1>6. FetchInv'
  BY <1>a, <1>q, <1>u DEF FetchInv, IInv, TypeOK, Replacing
<1>7. ContentInv'
  <2>1. \A s \in Thread \ {t} : pc'[s] # "write"
    BY <1>a, <1>q DEF IInv, TypeOK
  <2>2. WriteOf(t)
    BY <1>u DEF IInv, ContentInv
  <2>3. /\ content' = call[t].arg /\ call' = call /\ at(t)' = at(t) /\ status' = status
        /\ todo'[t] = todo[t] \ {w} /\ todo'[t] # Word
    BY <1>q, <1>v DEF WriteWord, IInv, TypeOK, at
  <2>4. \A u \in Word : u \in todo'[t] \/ val'[at(t)][u] = call[t].arg[u]
    BY <1>c, <2>2, <2>3 DEF WriteOf
  <2>5. CASE pc'[t] = "write"
    BY <2>1, <2>3, <2>4, <2>5 DEF ContentInv, WriteOf
  <2>6. CASE pc'[t] # "write"
    <3>1. todo'[t] = {}
      BY <1>q, <1>u, <2>3, <2>6
    <3>2. val'[at(t)] = call[t].arg
      BY <1>c, <1>v, <2>4, <3>1
    <3>3. Source' = at(t)
      BY <1>w, <1>u, <2>3 DEF IInv, PointerInv, PointerOf, IsUpdate, IsRead, Updates, Source
    <3>4. QED
      BY <1>u, <2>1, <2>3, <2>6, <3>2, <3>3 DEF ContentInv, Held
  <2>7. QED
    BY <2>5, <2>6
<1>8. ReadInv'
  <2>1. pc'[t] \notin {"value", "check"}
    BY <1>t DEF IInv, TypeOK, WriteWord
  <2>2. QED
    BY <1>t, <1>o, <1>f, <2>1, ReadInvStays
<1>9. QED
  BY <1>t, <1>o, <1>f, <1>1, <1>2, <1>3, <1>4, <1>5, <1>6, <1>7, <1>8 DEF IInv

\* The flag is set under the lock.
LEMMA RemoveStep ==
    ASSUME IInv, NEW t \in Thread, Remove(t), Observe
    PROVE  IInv' /\ Others(t) /\ \A c \in Cell : Steady(c)
<1> USE NameAssumption DEF NameAssumption, GoTo, SetStatus, cells, local, Cell
<1>w. \A s \in Thread : at(s) = IF InLeaf(s) THEN Leaf ELSE Top
  BY Where DEF IInv
<1>a. Holds(t) /\ \A s \in Thread \ {t} : ~Holds(s) /\ pc[s] \notin {"act", "write", "version", "unlock"} \cup Replacing
  <2>1. Holds(t)
    BY DEF IInv, ControlInv, Holds, Remove, Locking, Replacing, IsRead, IsReplace
  <2>2. QED
    BY <2>1, OnlyHolder
<1>u. IsRemove(t) /\ ~IsReplace(t) /\ ~IsUpdate(t) /\ pc[t] = "act" /\ ~status[at(t)].ptr
  BY DEF Remove, IsRemove, IsReplace, IsUpdate, Updates
<1>s. /\ status'[at(t)].removed /\ status'[at(t)].ptr = status[at(t)].ptr
      /\ (\A c \in Cell : c # at(t) => status'[c] = status[c]) /\ val' = val
  BY <1>w DEF Remove, IInv, TypeOK, Status
<1>t. TypeOK'
  <2>1. status' \in [Cell -> Status]
    BY <1>w, StatusType DEF Remove, IInv, TypeOK
  <2>2. content' \in Value \cup {Gone}
    BY DEF Remove, IInv, TypeOK
  <2>3. seen' \in [Thread -> SUBSET (Value \cup {Gone})]
    BY <2>2 DEF Observe, IInv, TypeOK
  <2>4. QED
    BY <2>1, <2>2, <2>3 DEF Remove, IInv, TypeOK
<1>x. \A s \in Thread : at(s)' = IF InLeaf(s)' THEN Leaf ELSE Top
  BY <1>t, WhereNext
<1>o. Others(t)
  BY DEF Others, Own, IInv, TypeOK, Remove
<1>h. \A s \in Thread : (Holds(s)' <=> Holds(s)) /\ (HoldsLeaf(s)' <=> HoldsLeaf(s))
  BY <1>t, <1>w, <1>x, PathEnd DEF InLeaf, IInv, TypeOK, Remove, ControlInv, Holds, HoldsLeaf,
     Locking, Replacing, IsRead, IsReplace, IsUpdate, Updates
<1>1. LockInv'
  <2>1. \A c \in Cell : status'[c].locked = status[c].locked
    BY DEF IInv, TypeOK, Status, Remove
  <2>2. QED
    BY <1>h, <2>1, LockInvStays
<1>f. \A c \in Cell : Steady(c)
  <2>1. \A s \in Thread, c \in Cell : Changing(s, c) => Changing(s, c)'
    BY <1>h, <1>t, <1>w, <1>x, PathEnd DEF Changing, HoldsLeaf, InLeaf, IInv, TypeOK, ControlInv, Remove
  <2>2. Changing(t, at(t))'
    BY <1>h, <1>t, <1>w, <1>x, <2>1 DEF Changing, Holds, HoldsLeaf, InLeaf, IInv, TypeOK, ControlInv, Remove, Locking, Replacing, IsRead, IsReplace
  <2>3. \A c \in Cell : status'[c].version = status[c].version
    BY <1>w DEF Remove, IInv, TypeOK, Status
  <2>4. \A c \in Cell : c # at(t) => status'[c] = status[c] /\ val'[c] = val[c]
    BY <1>w DEF Remove, IInv, TypeOK, ControlInv, Replacing
  <2>5. at(t)' = at(t) /\ at(t) \in Cell
    BY <1>w DEF Remove, at
  <2>6. QED
    BY <2>1, <2>2, <2>3, <2>4, <2>5, ChangeIsSteady
<1>2. ControlInv'
  BY <1>a, <1>h, <1>t, <1>w, <1>x, PathEnd DEF InLeaf, IInv, TypeOK, Remove, ControlInv, Locking, Replacing, Updates, Ignoring, IsRead, IsReplace, IsUpdate
<1>3. AnswerInv'
  BY <1>u, <1>o, OtherStays DEF Remove, IInv, TypeOK, AnswerInv, IsReplace
<1>4. PointerInv'
  <2>1. ~status'[Leaf].ptr /\ status'[Top].ptr = status[Top].ptr /\ (IsReplace(t)' => IsReplace(t))
    BY <1>w DEF IInv, TypeOK, Status, PointerInv, IsReplace, Remove
  <2>2. \A s \in Thread \ {t} : pc[s] = "write" =>
            status'[at(s)].ptr = status[at(s)].ptr /\ status'[at(s)].removed = status[at(s)].removed
    BY <1>a DEF Replacing
  <2>3. PointerOf(t)'
    BY <1>t, <2>1, PointerStays DEF Remove, IInv, TypeOK, ControlInv, Locking, Replacing, IsReplace
  <2>4. QED
    BY <1>o, <2>1, <2>2, <2>3, PointerInvStays
<1>5. CellInv'
  <2>1. \A s \in Thread : pc'[s] \in Replacing <=> pc[s] \in Replacing
    BY <1>u DEF Remove, IInv, TypeOK, Replacing
  <2>2. \A s \in Thread : pc'[s] = "unset_is_ptr" <=> pc[s] = "unset_is_ptr"
    BY <1>u DEF Remove, IInv, TypeOK
  <2>3. QED
    BY <1>w, <1>u, <1>s, <2>1, <2>2 DEF IInv, CellInv
<1>6. FetchInv'
  BY <1>a, <1>o, <1>t, OtherStays DEF Remove, FetchInv, Replacing, IInv, TypeOK
<1>7. ContentInv'
  <2>1. \A s \in Thread : pc'[s] # "write"
    BY <1>a, <1>o, <1>t, OtherStays DEF Remove, IInv, TypeOK
  <2>2. Source' = at(t)
    BY <1>w, <1>u, <1>s DEF IInv, PointerInv, PointerOf, IsRemove, IsRead, Source
  <2>3. QED
    BY <1>s, <2>1, <2>2 DEF Remove, ContentInv, Held
<1>8. ReadInv'
  <2>1. pc'[t] \notin {"value", "check"}
    BY <1>t DEF IInv, TypeOK, Remove
  <2>2. QED
    BY <1>t, <1>o, <1>f, <2>1, ReadInvStays
<1>9. QED
  BY <1>t, <1>o, <1>f, <1>1, <1>2, <1>3, <1>4, <1>5, <1>6, <1>7, <1>8 DEF IInv

\* What replace_pointer has read is what the inner cell holds.
LEMMA FetchedStep ==
    ASSUME IInv, NEW t \in Thread, Fetched(t), Observe
    PROVE  IInv' /\ Others(t) /\ \A c \in Cell : Steady(c)
<1> USE NameAssumption DEF NameAssumption, GoTo, SetStatus, cells, local, Cell
<1>w. \A s \in Thread : at(s) = IF InLeaf(s) THEN Leaf ELSE Top
  BY Where DEF IInv
<1>a. Holds(t) /\ \A s \in Thread \ {t} : ~Holds(s) /\ pc[s] \notin {"act", "write", "version", "unlock"} \cup Replacing
  <2>1. Holds(t)
    BY DEF IInv, ControlInv, Holds, Fetched, Locking, Replacing, IsRead, IsReplace
  <2>2. QED
    BY <2>1, OnlyHolder
<1>u. IsReplace(t) /\ InLeaf(t) /\ status[Top].ptr /\ pc[t] = "check"
  BY DEF Fetched, IInv, ControlInv, PointerInv, PointerOf
<1>r. v[t] = val[Leaf] /\ st[t].removed = status[Leaf].removed
  BY <1>u, <1>w, FreshRead DEF Fetched, IsReplace
<1>t. TypeOK'
  BY <1>w, PathEnd, OpsAssumption DEF OpsAssumption, Ignoring, Updates, IInv, TypeOK, Fetched,
     Observe, Status, Fresh, Value, Pointer, InLeaf
<1>x. \A s \in Thread : at(s)' = IF InLeaf(s)' THEN Leaf ELSE Top
  BY <1>t, WhereNext
<1>o. Others(t)
  BY DEF Others, Own, IInv, TypeOK, Fetched
<1>h. \A s \in Thread : (Holds(s)' <=> Holds(s)) /\ (HoldsLeaf(s)' <=> HoldsLeaf(s))
  BY <1>t, <1>w, <1>x, PathEnd DEF InLeaf, IInv, TypeOK, Fetched, ControlInv, Holds, HoldsLeaf,
     Locking, Replacing, IsRead, IsReplace, IsUpdate, Updates
<1>1. LockInv'
  <2>1. \A c \in Cell : status'[c].locked = status[c].locked
    BY DEF IInv, TypeOK, Status, Fetched
  <2>2. QED
    BY <1>h, <2>1, LockInvStays
<1>f. \A c \in Cell : Steady(c)
  <2>1. \A s \in Thread, c \in Cell : Changing(s, c) => Changing(s, c)'
    BY <1>h, <1>t, <1>w, <1>x, PathEnd DEF Changing, HoldsLeaf, InLeaf, IInv, TypeOK, ControlInv, Fetched
  <2>2. QED
    BY <2>1, QuietIsSteady DEF Fetched
<1>2. ControlInv'
  BY ZenonT(60), <1>a, <1>h, <1>t, <1>w, <1>x, PathEnd DEF InLeaf, IInv, TypeOK, Fetched, ControlInv, Locking, Replacing, Updates, Ignoring, IsRead, IsReplace, IsUpdate
<1>3. AnswerInv'
  BY <1>a, <1>h, <1>t, <1>w, <1>x, PathEnd DEF InLeaf, IInv, TypeOK, Fetched, AnswerInv, ControlInv, Locking, Replacing, Updates, IsReplace, IsRead, IsUpdate, IsRemove
<1>4. PointerInv'
  <2>1. ~status'[Leaf].ptr /\ status'[Top].ptr = status[Top].ptr /\ (IsReplace(t)' => IsReplace(t))
    BY <1>w DEF IInv, TypeOK, Status, PointerInv, IsReplace, Fetched
  <2>2. \A s \in Thread \ {t} : pc[s] = "write" =>
            status'[at(s)].ptr = status[at(s)].ptr /\ status'[at(s)].removed = status[at(s)].removed
    BY <1>a DEF Replacing
  <2>3. PointerOf(t)'
    <3>1. UNCHANGED <<status, call>> /\ ~InLeaf(t)' /\ pc'[t] = "copy"
      BY PathEnd DEF Fetched, IInv, TypeOK, InLeaf
    <3>2. QED
      BY <1>u, <3>1 DEF IInv, PointerInv, PointerOf, IsRead, IsReplace, Ignoring
  <2>4. QED
    BY <1>o, <2>1, <2>2, <2>3, PointerInvStays
<1>5. CellInv'
  BY <1>a, <1>h, <1>t, <1>w, <1>x, PathEnd DEF InLeaf, IInv, TypeOK, Fetched, CellInv, ControlInv, PointerInv, PointerOf, LockInv, Holds, Locking, Replacing, IsRead, IsReplace, IsUpdate, FetchInv, FetchOf
<1>6. FetchInv'
  <2>1. \A s \in Thread \ {t} : pc'[s] \notin Replacing
    BY <1>a, <1>o, OtherStays
  <2>2. UNCHANGED <<val, status, st, v>> /\ todo'[t] = Word /\ pc'[t] = "copy"
    BY DEF Fetched, IInv, TypeOK
  <2>3. QED
    BY <1>r, <2>1, <2>2 DEF FetchInv, FetchOf
<1>7. ContentInv'
  <2>1. UNCHANGED <<val, content>> /\ pc[t] # "write" /\ pc'[t] # "write"
    BY <1>t DEF Fetched, IInv, TypeOK
  <2>2. \A c \in Cell : status'[c].ptr = status[c].ptr /\ status'[c].removed = status[c].removed
    BY <1>w DEF Fetched, IInv, TypeOK, Status
  <2>3. QED
    BY <1>o, <2>1, <2>2, ContentStays
<1>8. ReadInv'
  <2>1. pc'[t] \notin {"value", "check"}
    BY <1>t DEF IInv, TypeOK, Fetched
  <2>2. QED
    BY <1>t, <1>o, <1>f, <2>1, ReadInvStays
<1>9. QED
  BY <1>t, <1>o, <1>f, <1>1, <1>2, <1>3, <1>4, <1>5, <1>6, <1>7, <1>8 DEF IInv

\* The pointer is overwritten while the status says pointer.
LEMMA CopyWordStep ==
    ASSUME IInv, NEW t \in Thread, CopyWord(t), Observe
    PROVE  IInv' /\ Others(t) /\ \A c \in Cell : Steady(c)
<1> USE NameAssumption DEF NameAssumption, GoTo, SetStatus, cells, local, Cell
<1>w. \A s \in Thread : at(s) = IF InLeaf(s) THEN Leaf ELSE Top
  BY Where DEF IInv
<1>a. Holds(t) /\ \A s \in Thread \ {t} : ~Holds(s) /\ pc[s] \notin {"act", "write", "version", "unlock"} \cup Replacing
  <2>1. Holds(t)
    BY DEF IInv, ControlInv, Holds, CopyWord, Locking, Replacing, IsRead, IsReplace
  <2>2. QED
    BY <2>1, OnlyHolder
<1>q. PICK w \in todo[t] :
        /\ val' = [val EXCEPT ![Top][w] = v[t][w]]
        /\ todo' = [todo EXCEPT ![t] = @ \ {w}]
        /\ pc' = IF todo[t] # {w} THEN pc
                 ELSE [pc EXCEPT ![t] = IF st[t].removed THEN "set_removed" ELSE "unset_is_ptr"]
  BY DEF CopyWord
<1>u. IsReplace(t) /\ ~IsRead(t) /\ ~IsUpdate(t) /\ pc[t] = "copy" /\ ~InLeaf(t) /\ status[Top].ptr /\ FetchOf(t)
  BY DEF CopyWord, IInv, ControlInv, PointerInv, PointerOf, FetchInv, Replacing, IsReplace, IsRead, IsUpdate, Updates
<1>c. /\ w \in Word /\ v[t] = val[Leaf] /\ v[t] \in [Word -> Val] /\ val[Top] \in [Word -> Val \cup {Leaf}]
      /\ val'[Top] = [val[Top] EXCEPT ![w] = v[t][w]] /\ val'[Leaf] = val[Leaf]
  BY <1>q, <1>u DEF IInv, TypeOK, FetchOf, CellInv
<1>t. TypeOK'
  <2>1. val' \in [Cell -> [Word -> Val \cup {Leaf}]]
    BY <1>q, <1>c DEF IInv, TypeOK
  <2>2. QED
    BY <1>q, <2>1 DEF CopyWord, Observe, IInv, TypeOK
<1>x. \A s \in Thread : at(s)' = IF InLeaf(s)' THEN Leaf ELSE Top
  BY <1>t, WhereNext
<1>o. Others(t)
  BY DEF Others, Own, IInv, TypeOK, CopyWord
<1>h. \A s \in Thread : (Holds(s)' <=> Holds(s)) /\ (HoldsLeaf(s)' <=> HoldsLeaf(s))
  BY <1>t, <1>w, <1>x, PathEnd DEF InLeaf, IInv, TypeOK, CopyWord, ControlInv, Holds, HoldsLeaf,
     Locking, Replacing, IsRead, IsReplace, IsUpdate, Updates
<1>1. LockInv'
  <2>1. \A c \in Cell : status'[c].locked = status[c].locked
    BY DEF IInv, TypeOK, Status, CopyWord
  <2>2. QED
    BY <1>h, <2>1, LockInvStays
<1>f. \A c \in Cell : Steady(c)
  <2>1. \A s \in Thread, c \in Cell : Changing(s, c) => Changing(s, c)'
    BY <1>h, <1>t, <1>w, <1>x, PathEnd DEF Changing, HoldsLeaf, InLeaf, IInv, TypeOK, ControlInv, CopyWord
  <2>2. Changing(t, at(t))'
    BY <1>h, <1>t, <1>w, <1>x, <2>1 DEF Changing, Holds, HoldsLeaf, InLeaf, IInv, TypeOK, ControlInv, CopyWord, Locking, Replacing, IsRead, IsReplace
  <2>3. \A c \in Cell : status'[c].version = status[c].version
    BY <1>w DEF CopyWord, IInv, TypeOK, Status
  <2>4. \A c \in Cell : c # at(t) => status'[c] = status[c] /\ val'[c] = val[c]
    BY <1>w DEF CopyWord, IInv, TypeOK, ControlInv, Replacing
  <2>5. at(t)' = at(t) /\ at(t) \in Cell
    BY <1>w DEF CopyWord, at
  <2>6. QED
    BY <2>1, <2>2, <2>3, <2>4, <2>5, ChangeIsSteady
<1>2. ControlInv'
  BY <1>q, <1>u, <1>o, OtherStays DEF CopyWord, IInv, TypeOK, ControlInv, InLeaf, Locking, Replacing,
     IsRead, IsReplace, IsUpdate, Updates
<1>3. AnswerInv'
  BY <1>q, <1>u, <1>o, OtherStays DEF CopyWord, IInv, TypeOK, AnswerInv, IsReplace
<1>4. PointerInv'
  <2>1. ~status'[Leaf].ptr /\ status'[Top].ptr = status[Top].ptr /\ (IsReplace(t)' => IsReplace(t))
    BY <1>w DEF IInv, TypeOK, Status, PointerInv, IsReplace, CopyWord
  <2>2. \A s \in Thread \ {t} : pc[s] = "write" =>
            status'[at(s)].ptr = status[at(s)].ptr /\ status'[at(s)].removed = status[at(s)].removed
    BY <1>a DEF Replacing
  <2>3. PointerOf(t)'
    BY <1>t, <2>1, PointerStays DEF CopyWord, IInv, TypeOK, ControlInv, Locking, Replacing, IsReplace
  <2>4. QED
    BY <1>o, <2>1, <2>2, <2>3, PointerInvStays
<1>5. CellInv'
  BY <1>a, <1>q, <1>u, <1>c, <1>t DEF CopyWord, IInv, TypeOK, CellInv, Replacing
<1>6. FetchInv'
  <2>1. \A s \in Thread \ {t} : pc'[s] \notin Replacing
    BY <1>a, <1>o, OtherStays
  <2>2. ~status[Top].removed
    BY <1>a, <1>u DEF IInv, CellInv, Replacing
  <2>3. /\ v' = v /\ st' = st /\ status' = status
        /\ pc'[t] = IF todo[t] # {w} THEN "copy" ELSE IF st[t].removed THEN "set_removed" ELSE "unset_is_ptr"
        /\ todo'[t] = todo[t] \ {w}
    BY <1>q, <1>u DEF CopyWord, IInv, TypeOK
  <2>4. \A u \in Word : (pc'[t] = "copy" /\ u \in todo'[t]) \/ val'[Top][u] = v'[t][u]
    BY <1>u, <1>c, <2>3 DEF FetchOf
  <2>5. status[Top].removed \in BOOLEAN /\ st[t].removed \in BOOLEAN
    BY DEF IInv, TypeOK, Status
  <2>6. /\ pc'[t] = "set_removed" => st'[t].removed
        /\ pc'[t] = "unset_is_ptr" => status'[Top].removed = st'[t].removed
    BY <2>2, <2>3, <2>5
  <2>7. v'[t] = val'[Leaf] /\ st'[t].removed = status'[Leaf].removed
    BY <1>u, <1>c, <2>3 DEF FetchOf
  <2>8. QED
    BY <2>1, <2>4, <2>6, <2>7 DEF FetchInv, FetchOf
<1>7. ContentInv'
  <2>1. \A s \in Thread : pc[s] # "write" /\ pc'[s] # "write"
    BY <1>a, <1>q, <1>u DEF IInv, TypeOK
  <2>2. Source = Leaf /\ Source' = Leaf /\ status' = status /\ content' = content
    BY <1>u DEF CopyWord, Source
  <2>3. QED
    BY <1>c, <2>1, <2>2 DEF IInv, ContentInv, Held
<1>8. ReadInv'
  <2>1. pc'[t] \notin {"value", "check"}
    BY <1>t DEF IInv, TypeOK, CopyWord
  <2>2. QED
    BY <1>t, <1>o, <1>f, <2>1, ReadInvStays
<1>9. QED
  BY <1>t, <1>o, <1>f, <1>1, <1>2, <1>3, <1>4, <1>5, <1>6, <1>7, <1>8 DEF IInv

\* The outer cell is marked removed like the inner one.
LEMMA SetRemovedStep ==
    ASSUME IInv, NEW t \in Thread, SetRemoved(t), Observe
    PROVE  IInv' /\ Others(t) /\ \A c \in Cell : Steady(c)
<1> USE NameAssumption DEF NameAssumption, GoTo, SetStatus, cells, local, Cell
<1>w. \A s \in Thread : at(s) = IF InLeaf(s) THEN Leaf ELSE Top
  BY Where DEF IInv
<1>a. Holds(t) /\ \A s \in Thread \ {t} : ~Holds(s) /\ pc[s] \notin {"act", "write", "version", "unlock"} \cup Replacing
  <2>1. Holds(t)
    BY DEF IInv, ControlInv, Holds, SetRemoved, Locking, Replacing, IsRead, IsReplace
  <2>2. QED
    BY <2>1, OnlyHolder
<1>u. IsReplace(t) /\ ~InLeaf(t) /\ status[Top].ptr /\ FetchOf(t) /\ st[t].removed
  BY DEF SetRemoved, IInv, ControlInv, PointerInv, PointerOf, FetchInv, FetchOf, Replacing, IsReplace
<1>t. TypeOK'
  <2>1. status' \in [Cell -> Status]
    BY <1>w, StatusType DEF SetRemoved, IInv, TypeOK
  <2>2. content' \in Value \cup {Gone}
    BY DEF SetRemoved, IInv, TypeOK
  <2>3. seen' \in [Thread -> SUBSET (Value \cup {Gone})]
    BY <2>2 DEF Observe, IInv, TypeOK
  <2>4. QED
    BY <2>1, <2>2, <2>3 DEF SetRemoved, IInv, TypeOK
<1>x. \A s \in Thread : at(s)' = IF InLeaf(s)' THEN Leaf ELSE Top
  BY <1>t, WhereNext
<1>o. Others(t)
  BY DEF Others, Own, IInv, TypeOK, SetRemoved
<1>h. \A s \in Thread : (Holds(s)' <=> Holds(s)) /\ (HoldsLeaf(s)' <=> HoldsLeaf(s))
  BY <1>t, <1>w, <1>x, PathEnd DEF InLeaf, IInv, TypeOK, SetRemoved, ControlInv, Holds, HoldsLeaf,
     Locking, Replacing, IsRead, IsReplace, IsUpdate, Updates
<1>1. LockInv'
  <2>1. \A c \in Cell : status'[c].locked = status[c].locked
    BY DEF IInv, TypeOK, Status, SetRemoved
  <2>2. QED
    BY <1>h, <2>1, LockInvStays
<1>f. \A c \in Cell : Steady(c)
  <2>1. \A s \in Thread, c \in Cell : Changing(s, c) => Changing(s, c)'
    BY <1>h, <1>t, <1>w, <1>x, PathEnd DEF Changing, HoldsLeaf, InLeaf, IInv, TypeOK, ControlInv, SetRemoved
  <2>2. Changing(t, at(t))'
    BY <1>h, <1>t, <1>w, <1>x, <2>1 DEF Changing, Holds, HoldsLeaf, InLeaf, IInv, TypeOK, ControlInv, SetRemoved, Locking, Replacing, IsRead, IsReplace
  <2>3. \A c \in Cell : status'[c].version = status[c].version
    BY <1>w DEF SetRemoved, IInv, TypeOK, Status
  <2>4. \A c \in Cell : c # at(t) => status'[c] = status[c] /\ val'[c] = val[c]
    BY <1>w DEF SetRemoved, IInv, TypeOK, ControlInv, Replacing
  <2>5. at(t)' = at(t) /\ at(t) \in Cell
    BY <1>w DEF SetRemoved, at
  <2>6. QED
    BY <2>1, <2>2, <2>3, <2>4, <2>5, ChangeIsSteady
<1>2. ControlInv'
  BY SMTT(60), <1>a, <1>h, <1>t, <1>w, <1>x, PathEnd DEF InLeaf, IInv, TypeOK, SetRemoved, ControlInv, Locking, Replacing, Updates, Ignoring, IsRead, IsReplace, IsUpdate
<1>3. AnswerInv'
  BY <1>a, <1>h, <1>t, <1>w, <1>x, PathEnd DEF InLeaf, IInv, TypeOK, SetRemoved, AnswerInv, ControlInv, Locking, Replacing, Updates, IsReplace, IsRead, IsUpdate, IsRemove
<1>4. PointerInv'
  <2>1. ~status'[Leaf].ptr /\ status'[Top].ptr = status[Top].ptr /\ (IsReplace(t)' => IsReplace(t))
    BY <1>w DEF IInv, TypeOK, Status, PointerInv, IsReplace, SetRemoved
  <2>2. \A s \in Thread \ {t} : pc[s] = "write" =>
            status'[at(s)].ptr = status[at(s)].ptr /\ status'[at(s)].removed = status[at(s)].removed
    BY <1>a DEF Replacing
  <2>3. PointerOf(t)'
    <3>1. status'[Top].ptr = status[Top].ptr
      BY <1>w DEF SetRemoved, IInv, TypeOK, Status
    <3>2. QED
      BY <1>t, <3>1, PointerStays DEF SetRemoved, IInv, TypeOK
  <2>4. QED
    BY <1>o, <2>1, <2>2, <2>3, PointerInvStays
<1>5. CellInv'
  <2>1. status'[Top].ptr /\ val' = val /\ pc'[t] = "unset_is_ptr"
    BY <1>u DEF SetRemoved, IInv, TypeOK, Status
  <2>2. QED
    BY <2>1 DEF IInv, CellInv, Replacing
<1>6. FetchInv'
  <2>1. \A s \in Thread \ {t} : pc'[s] \notin Replacing
    BY <1>a, <1>o, OtherStays
  <2>2. status'[Top].removed /\ status'[Leaf] = status[Leaf]
    BY DEF SetRemoved, IInv, TypeOK, Status
  <2>3. UNCHANGED <<val, st, v, todo>> /\ pc[t] = "set_removed" /\ pc'[t] = "unset_is_ptr"
    BY DEF SetRemoved, IInv, TypeOK
  <2>4. QED
    BY <1>u, <2>1, <2>2, <2>3 DEF FetchInv, FetchOf
<1>7. ContentInv'
  <2>1. \A s \in Thread : pc[s] # "write" /\ pc'[s] # "write"
    BY <1>a DEF SetRemoved, IInv, TypeOK
  <2>2. status'[Top].ptr /\ status'[Leaf] = status[Leaf] /\ UNCHANGED <<val, content>>
    BY <1>u DEF SetRemoved, IInv, TypeOK, Status
  <2>3. QED
    BY <1>u, <2>1, <2>2 DEF IInv, ContentInv, Held, Source
<1>8. ReadInv'
  <2>1. pc'[t] \notin {"value", "check"}
    BY <1>t DEF IInv, TypeOK, SetRemoved
  <2>2. QED
    BY <1>t, <1>o, <1>f, <2>1, ReadInvStays
<1>9. QED
  BY <1>t, <1>o, <1>f, <1>1, <1>2, <1>3, <1>4, <1>5, <1>6, <1>7, <1>8 DEF IInv

\* From here on the outer cell is a value, the one the inner cell holds.
LEMMA UnsetIsPtrStep ==
    ASSUME IInv, NEW t \in Thread, UnsetIsPtr(t), Observe
    PROVE  IInv' /\ Others(t) /\ \A c \in Cell : Steady(c)
<1> USE NameAssumption DEF NameAssumption, GoTo, SetStatus, cells, local, Cell
<1>w. \A s \in Thread : at(s) = IF InLeaf(s) THEN Leaf ELSE Top
  BY Where DEF IInv
<1>a. Holds(t) /\ \A s \in Thread \ {t} : ~Holds(s) /\ pc[s] \notin {"act", "write", "version", "unlock"} \cup Replacing
  <2>1. Holds(t)
    BY DEF IInv, ControlInv, Holds, UnsetIsPtr, Locking, Replacing, IsRead, IsReplace
  <2>2. QED
    BY <2>1, OnlyHolder
<1>u. /\ IsReplace(t) /\ ~InLeaf(t) /\ status[Top].ptr /\ FetchOf(t) /\ pc[t] = "unset_is_ptr"
      /\ status[Top].removed = status[Leaf].removed
  BY DEF UnsetIsPtr, IInv, ControlInv, PointerInv, PointerOf, FetchInv, FetchOf, Replacing, IsReplace
<1>c. val[Top] = val[Leaf]
  <2>1. \A w \in Word : val[Top][w] = val[Leaf][w]
    BY <1>u DEF FetchOf
  <2>2. QED
    BY <2>1 DEF IInv, TypeOK
<1>s. /\ ~status'[Top].ptr /\ status'[Top].removed = status[Top].removed
      /\ status'[Leaf] = status[Leaf] /\ UNCHANGED <<val, content>>
  BY DEF UnsetIsPtr, IInv, TypeOK, Status
<1>t. TypeOK'
  <2>1. status' \in [Cell -> Status]
    BY <1>w, StatusType DEF UnsetIsPtr, IInv, TypeOK
  <2>2. content' \in Value \cup {Gone}
    BY DEF UnsetIsPtr, IInv, TypeOK
  <2>3. seen' \in [Thread -> SUBSET (Value \cup {Gone})]
    BY <2>2 DEF Observe, IInv, TypeOK
  <2>4. QED
    BY <2>1, <2>2, <2>3 DEF UnsetIsPtr, IInv, TypeOK
<1>x. \A s \in Thread : at(s)' = IF InLeaf(s)' THEN Leaf ELSE Top
  BY <1>t, WhereNext
<1>o. Others(t)
  BY DEF Others, Own, IInv, TypeOK, UnsetIsPtr
<1>h. \A s \in Thread : (Holds(s)' <=> Holds(s)) /\ (HoldsLeaf(s)' <=> HoldsLeaf(s))
  BY <1>t, <1>w, <1>x, PathEnd DEF InLeaf, IInv, TypeOK, UnsetIsPtr, ControlInv, Holds, HoldsLeaf,
     Locking, Replacing, IsRead, IsReplace, IsUpdate, Updates
<1>1. LockInv'
  <2>1. \A c \in Cell : status'[c].locked = status[c].locked
    BY DEF IInv, TypeOK, Status, UnsetIsPtr
  <2>2. QED
    BY <1>h, <2>1, LockInvStays
<1>f. \A c \in Cell : Steady(c)
  <2>1. \A s \in Thread, c \in Cell : Changing(s, c) => Changing(s, c)'
    BY <1>h, <1>t, <1>w, <1>x, PathEnd DEF Changing, HoldsLeaf, InLeaf, IInv, TypeOK, ControlInv, UnsetIsPtr
  <2>2. Changing(t, at(t))'
    BY <1>h, <1>t, <1>w, <1>x, <2>1 DEF Changing, Holds, HoldsLeaf, InLeaf, IInv, TypeOK, ControlInv, UnsetIsPtr, Locking, Replacing, IsRead, IsReplace
  <2>3. \A c \in Cell : status'[c].version = status[c].version
    BY <1>w DEF UnsetIsPtr, IInv, TypeOK, Status
  <2>4. \A c \in Cell : c # at(t) => status'[c] = status[c] /\ val'[c] = val[c]
    BY <1>w DEF UnsetIsPtr, IInv, TypeOK, ControlInv, Replacing
  <2>5. at(t)' = at(t) /\ at(t) \in Cell
    BY <1>w DEF UnsetIsPtr, at
  <2>6. QED
    BY <2>1, <2>2, <2>3, <2>4, <2>5, ChangeIsSteady
<1>2. ControlInv'
  BY SMTT(60), <1>a, <1>h, <1>t, <1>w, <1>x, PathEnd DEF InLeaf, IInv, TypeOK, UnsetIsPtr, ControlInv, Locking, Replacing, Updates, Ignoring, IsRead, IsReplace, IsUpdate
<1>3. AnswerInv'
  BY <1>a, <1>h, <1>t, <1>w, <1>x, PathEnd DEF InLeaf, IInv, TypeOK, UnsetIsPtr, AnswerInv, ControlInv, Locking, Replacing, Updates, IsReplace, IsRead, IsUpdate, IsRemove
<1>4. PointerInv'
  <2>1. ~status'[Leaf].ptr /\ call' = call /\ pc'[t] = "version"
    BY <1>s DEF UnsetIsPtr, IInv, TypeOK, PointerInv
  <2>2. ASSUME NEW s \in Thread, s # t PROVE PointerOf(s)'
    <3>1. ~Holds(s) /\ pc[s] # "write" /\ pc'[s] = pc[s] /\ InLeaf(s)' = InLeaf(s) /\ at(s)' = at(s)
      BY <1>a, <1>o, <2>2, OtherStays
    <3>2. IsRead(s) \/ ~InLeaf(s)
      BY <3>1, PathEnd DEF IInv, ControlInv, Holds, IsRead, InLeaf, TypeOK
    <3>3. ~IsReplace(s)
      BY <1>u, <2>2 DEF IInv, PointerInv
    <3>4. QED
      BY <1>s, <2>1, <3>1, <3>2, <3>3 DEF IInv, PointerInv, PointerOf, IsRead, IsReplace
  <2>3. PointerOf(t)'
    BY <1>u, <2>1, <1>o DEF UnsetIsPtr, PointerOf, InLeaf, IsReplace, IsRead, Ignoring
  <2>4. QED
    BY <2>1, <2>2, <2>3 DEF IInv, PointerInv, IsReplace
<1>5. CellInv'
  BY <1>s, <1>c DEF IInv, CellInv
<1>6. FetchInv'
  BY <1>a, <1>o, <1>t, OtherStays DEF UnsetIsPtr, FetchInv, Replacing, IInv, TypeOK
<1>7. ContentInv'
  <2>1. \A s \in Thread : pc[s] # "write" /\ pc'[s] # "write"
    BY <1>a DEF UnsetIsPtr, IInv, TypeOK
  <2>2. QED
    BY <1>u, <1>c, <1>s, <2>1 DEF IInv, ContentInv, Held, Source
<1>8. ReadInv'
  <2>1. pc'[t] \notin {"value", "check"}
    BY <1>t DEF IInv, TypeOK, UnsetIsPtr
  <2>2. QED
    BY <1>t, <1>o, <1>f, <2>1, ReadInvStays
<1>9. QED
  BY <1>t, <1>o, <1>f, <1>1, <1>2, <1>3, <1>4, <1>5, <1>6, <1>7, <1>8 DEF IInv

\* The holder tells readers that the cell was changed.
LEMMA IncrVersionStep ==
    ASSUME IInv, NEW t \in Thread, IncrVersion(t), Observe
    PROVE  IInv' /\ Others(t) /\ \A c \in Cell : Steady(c)
<1> USE NameAssumption DEF NameAssumption, GoTo, SetStatus, cells, local, Cell
<1>w. \A s \in Thread : at(s) = IF InLeaf(s) THEN Leaf ELSE Top
  BY Where DEF IInv
<1>a. Holds(t) /\ \A s \in Thread \ {t} : ~Holds(s) /\ pc[s] \notin {"act", "write", "version", "unlock"} \cup Replacing
  <2>1. Holds(t)
    BY DEF IInv, ControlInv, Holds, IncrVersion, Locking, Replacing, IsRead, IsReplace
  <2>2. QED
    BY <2>1, OnlyHolder
<1>t. TypeOK'
  <2>1. status' \in [Cell -> Status]
    BY <1>w, StatusType DEF IncrVersion, IInv, TypeOK
  <2>2. content' \in Value \cup {Gone}
    BY DEF IncrVersion, IInv, TypeOK
  <2>3. seen' \in [Thread -> SUBSET (Value \cup {Gone})]
    BY <2>2 DEF Observe, IInv, TypeOK
  <2>4. QED
    BY <2>1, <2>2, <2>3 DEF IncrVersion, IInv, TypeOK
<1>x. \A s \in Thread : at(s)' = IF InLeaf(s)' THEN Leaf ELSE Top
  BY <1>t, WhereNext
<1>o. Others(t)
  BY DEF Others, Own, IInv, TypeOK, IncrVersion
<1>h. \A s \in Thread : (Holds(s)' <=> Holds(s)) /\ (HoldsLeaf(s)' <=> HoldsLeaf(s))
  BY <1>t, <1>w, <1>x, PathEnd DEF InLeaf, IInv, TypeOK, IncrVersion, ControlInv, Holds, HoldsLeaf,
     Locking, Replacing, IsRead, IsReplace, IsUpdate, Updates
<1>1. LockInv'
  <2>1. \A c \in Cell : status'[c].locked = status[c].locked
    BY DEF IInv, TypeOK, Status, IncrVersion
  <2>2. QED
    BY <1>h, <2>1, LockInvStays
<1>f. \A c \in Cell : Steady(c)
  <2>1. \A s \in Thread, c \in Cell : c # at(t) /\ Changing(s, c) => Changing(s, c)'
    BY <1>h, <1>t, <1>w, <1>x DEF Changing, HoldsLeaf, InLeaf, IInv, TypeOK, IncrVersion
  <2>2. \A c \in Cell : c # at(t) => status'[c] = status[c]
    BY <1>w DEF IncrVersion, IInv, TypeOK
  <2>3. status[at(t)].version \in Nat /\ status'[at(t)].version = status[at(t)].version + 1
    BY <1>w DEF IncrVersion, IInv, TypeOK, Status
  <2>4. \A c \in Cell : status[c].version \in Nat /\ val'[c] = val[c]
    BY DEF IncrVersion, IInv, TypeOK, Status
  <2>5. QED
    BY <2>1, <2>2, <2>3, <2>4 DEF Steady, Clean
<1>2. ControlInv'
  BY <1>a, <1>h, <1>t, <1>w, <1>x, PathEnd DEF InLeaf, IInv, TypeOK, IncrVersion, ControlInv, Locking, Replacing, Updates, Ignoring, IsRead, IsReplace, IsUpdate
<1>3. AnswerInv'
  BY <1>a, <1>h, <1>t, <1>w, <1>x, PathEnd DEF InLeaf, IInv, TypeOK, IncrVersion, AnswerInv, ControlInv, Locking, Replacing, Updates, IsReplace, IsRead, IsUpdate, IsRemove
<1>4. PointerInv'
  <2>1. ~status'[Leaf].ptr /\ status'[Top].ptr = status[Top].ptr /\ (IsReplace(t)' => IsReplace(t))
    BY <1>w DEF IInv, TypeOK, Status, PointerInv, IsReplace, IncrVersion
  <2>2. \A s \in Thread \ {t} : pc[s] = "write" =>
            status'[at(s)].ptr = status[at(s)].ptr /\ status'[at(s)].removed = status[at(s)].removed
    BY <1>a DEF Replacing
  <2>3. PointerOf(t)'
    BY <1>t, <2>1, PointerStays DEF IncrVersion, IInv, TypeOK, ControlInv, Locking, Replacing, IsReplace
  <2>4. QED
    BY <1>o, <2>1, <2>2, <2>3, PointerInvStays
<1>5. CellInv'
  BY <1>a, <1>h, <1>t, <1>w, <1>x, PathEnd DEF InLeaf, IInv, TypeOK, IncrVersion, CellInv, ControlInv, PointerInv, PointerOf, LockInv, Holds, Locking, Replacing, IsRead, IsReplace, IsUpdate, FetchInv, FetchOf
<1>6. FetchInv'
  BY <1>a, <1>h, <1>t, <1>w, <1>x, PathEnd DEF InLeaf, IInv, TypeOK, IncrVersion, FetchInv, FetchOf, LockInv, ControlInv, ReadInv, ReadOf, Holds, Locking, Replacing, IsRead, IsReplace, IsUpdate, IsRemove
<1>7. ContentInv'
  <2>1. UNCHANGED <<val, content>> /\ pc[t] # "write" /\ pc'[t] # "write"
    BY <1>t DEF IncrVersion, IInv, TypeOK
  <2>2. \A c \in Cell : status'[c].ptr = status[c].ptr /\ status'[c].removed = status[c].removed
    BY <1>w DEF IncrVersion, IInv, TypeOK, Status
  <2>3. QED
    BY <1>o, <2>1, <2>2, ContentStays
<1>8. ReadInv'
  <2>1. pc'[t] \notin {"value", "check"}
    BY <1>t DEF IInv, TypeOK, IncrVersion
  <2>2. QED
    BY <1>t, <1>o, <1>f, <2>1, ReadInvStays
<1>9. QED
  BY <1>t, <1>o, <1>f, <1>1, <1>2, <1>3, <1>4, <1>5, <1>6, <1>7, <1>8 DEF IInv

\* The holder of a cell leaves it.
LEMMA UnlockStep ==
    ASSUME IInv, NEW t \in Thread, Unlock(t), Observe
    PROVE  IInv' /\ Others(t) /\ \A c \in Cell : Steady(c)
<1> USE NameAssumption DEF NameAssumption, GoTo, SetStatus, cells, local, Cell
<1>w. \A s \in Thread : at(s) = IF InLeaf(s) THEN Leaf ELSE Top
  BY Where DEF IInv
<1>a. Holds(t) /\ \A s \in Thread \ {t} : ~Holds(s) /\ pc[s] \notin {"act", "write", "version", "unlock"} \cup Replacing
  <2>1. Holds(t)
    BY DEF IInv, ControlInv, Holds, Unlock, Locking, Replacing, IsRead, IsReplace
  <2>2. QED
    BY <2>1, OnlyHolder
<1>t. TypeOK'
  <2>1. status' \in [Cell -> Status]
    BY <1>w, StatusType DEF Unlock, IInv, TypeOK
  <2>2. content' \in Value \cup {Gone}
    BY DEF Unlock, IInv, TypeOK
  <2>3. seen' \in [Thread -> SUBSET (Value \cup {Gone})]
    BY <2>2 DEF Observe, IInv, TypeOK
  <2>4. QED
    BY ZenonT(60), <2>1, <2>2, <2>3 DEF Unlock, IInv, TypeOK
<1>x. \A s \in Thread : at(s)' = IF InLeaf(s)' THEN Leaf ELSE Top
  BY <1>t, WhereNext
<1>o. Others(t)
  BY DEF Others, Own, IInv, TypeOK, Unlock
<1>1. LockInv'
  <2>1. \A s \in Thread \ {t} : ~Holds(s)' /\ ~HoldsLeaf(s)' /\ ~HoldsLeaf(s)
    BY <1>a, <1>o, OtherStays DEF Holds, HoldsLeaf, IsRead
  <2>2. ~HoldsLeaf(t)' /\ (HoldsLeaf(t) <=> InLeaf(t)) /\ (Holds(t)' <=> InLeaf(t))
    BY ZenonT(60), <1>w, PathEnd DEF Unlock, IInv, TypeOK, ControlInv, Locking, Holds, HoldsLeaf, InLeaf, IsRead
  <2>3. ~status'[at(t)].locked /\ \A c \in Cell : c # at(t) => status'[c] = status[c]
    BY <1>w DEF Unlock, IInv, TypeOK, Status
  <2>4. QED
    BY <1>a, <1>w, <2>1, <2>2, <2>3 DEF IInv, LockInv
<1>f. \A c \in Cell : Steady(c)
  <2>1. \A s \in Thread \ {t}, c \in Cell : Changing(s, c) => Changing(s, c)'
    BY <1>o, OtherStays DEF Changing, Holds, HoldsLeaf, IsRead
  <2>2. \A c \in Cell : Changing(t, c) => Changing(t, c)'
    BY <1>w, PathEnd DEF Unlock, IInv, TypeOK, ControlInv, Locking, Changing, Holds, HoldsLeaf, InLeaf, IsRead
  <2>3. \A c \in Cell : /\ val'[c] = val[c] /\ status[c].version \in Nat
                       /\ status'[c].version = status[c].version
                       /\ status'[c].removed = status[c].removed /\ status'[c].ptr = status[c].ptr
    BY <1>w DEF Unlock, IInv, TypeOK, Status
  <2>4. QED
    BY <2>1, <2>2, <2>3 DEF Steady, Clean
<1>2. ControlInv'
  <2>1. \/ InLeaf(t) /\ pc'[t] = "version" /\ path'[t] = <<Top>>
        \/ ~InLeaf(t) /\ pc'[t] = "return" /\ path'[t] = path[t]
    BY <1>w DEF Unlock, IInv, TypeOK
  <2>2. pc[t] = "unlock" /\ call' = call /\ todo' = todo /\ <<Top>> # <<Top, Leaf>>
    BY PathEnd DEF Unlock
  <2>3. ASSUME NEW s \in Thread, s # t PROVE pc'[s] = pc[s] /\ path'[s] = path[s]
    BY <1>o, <2>3, OtherStays
  <2>4. QED
    BY <2>1, <2>2, <2>3 DEF IInv, ControlInv, InLeaf, Locking, Replacing, IsRead, IsReplace, IsUpdate
<1>3. AnswerInv'
  BY <1>a, <1>t, <1>w, <1>x, PathEnd DEF InLeaf, IInv, TypeOK, Unlock, AnswerInv, ControlInv, Locking, Replacing, Updates, IsReplace, IsRead, IsUpdate, IsRemove
<1>4. PointerInv'
  <2>1. ~status'[Leaf].ptr /\ status'[Top].ptr = status[Top].ptr /\ (IsReplace(t)' => IsReplace(t))
    BY <1>w DEF IInv, TypeOK, Status, PointerInv, IsReplace, Unlock
  <2>2. \A s \in Thread \ {t} : pc[s] = "write" =>
            status'[at(s)].ptr = status[at(s)].ptr /\ status'[at(s)].removed = status[at(s)].removed
    BY <1>a DEF Replacing
  <2>3. PointerOf(t)'
    <3>1. status'[Top].ptr = status[Top].ptr
      BY <1>w DEF Unlock, IInv, TypeOK, Status
    <3>2. /\ pc[t] = "unlock" /\ pc'[t] \in {"version", "return"} /\ call'[t] = call[t]
          /\ InLeaf(t)' => InLeaf(t)
      BY <1>w, PathEnd DEF Unlock, IInv, TypeOK, InLeaf
    <3>3. QED
      BY <3>1, <3>2 DEF IInv, PointerInv, PointerOf, IsRead, IsReplace
  <2>4. QED
    BY <1>o, <2>1, <2>2, <2>3, PointerInvStays
<1>5. CellInv'
  BY <1>a, <1>t, <1>w, <1>x, PathEnd DEF InLeaf, IInv, TypeOK, Unlock, CellInv, ControlInv, PointerInv, PointerOf, LockInv, Holds, Locking, Replacing, IsRead, IsReplace, IsUpdate, FetchInv, FetchOf
<1>6. FetchInv'
  BY <1>a, <1>t, <1>w, <1>x, PathEnd DEF InLeaf, IInv, TypeOK, Unlock, FetchInv, FetchOf, LockInv, ControlInv, ReadInv, ReadOf, Holds, Locking, Replacing, IsRead, IsReplace, IsUpdate, IsRemove
<1>7. ContentInv'
  <2>1. UNCHANGED <<val, content>> /\ pc[t] # "write" /\ pc'[t] # "write"
    BY <1>t DEF Unlock, IInv, TypeOK
  <2>2. \A c \in Cell : status'[c].ptr = status[c].ptr /\ status'[c].removed = status[c].removed
    BY <1>w DEF Unlock, IInv, TypeOK, Status
  <2>3. QED
    BY <1>o, <2>1, <2>2, ContentStays
<1>8. ReadInv'
  <2>1. pc'[t] \notin {"value", "check"}
    BY <1>t DEF IInv, TypeOK, Unlock
  <2>2. QED
    BY <1>t, <1>o, <1>f, <2>1, ReadInvStays
<1>9. QED
  BY <1>t, <1>o, <1>f, <1>1, <1>2, <1>3, <1>4, <1>5, <1>6, <1>7, <1>8 DEF IInv

-----------------------------------------------------------------------------
LEMMA StutterStep ==
    ASSUME IInv, UNCHANGED vars
    PROVE  IInv'
<1>1. TypeOK' /\ LockInv' /\ ControlInv' /\ AnswerInv'
  BY DEF vars, cells, local, IInv, TypeOK, LockInv, ControlInv, AnswerInv, Holds, HoldsLeaf,
     InLeaf, IsRead, IsReplace, IsUpdate
<1>2. PointerInv' /\ CellInv' /\ FetchInv'
  BY DEF vars, cells, local, IInv, PointerInv, PointerOf, CellInv, FetchInv, FetchOf,
     InLeaf, IsRead, IsReplace, at
<1>3. ContentInv' /\ ReadInv'
  BY ZenonT(60) DEF vars, cells, local, IInv, ContentInv, WriteOf, Held, Source, ReadInv, ReadOf, Clean,
     Copied, Changing, Holds, HoldsLeaf, InLeaf, IsRead, at
<1>4. QED
  BY <1>1, <1>2, <1>3 DEF IInv

LEMMA InitIInv == Init => IInv
<1> SUFFICES ASSUME Init PROVE IInv
  OBVIOUS
<1> USE NameAssumption DEF NameAssumption, Cell
<1>1. PICK indirect \in BOOLEAN :
        /\ val = [c \in Cell |-> IF c = Top /\ indirect THEN Pointer ELSE content]
        /\ status = [c \in Cell |-> [Fresh EXCEPT !.ptr = (c = Top /\ indirect)]]
  BY DEF Init
<1>2. /\ status[Top] = [version |-> 0, locked |-> FALSE, removed |-> FALSE, ptr |-> indirect]
      /\ status[Leaf] = [version |-> 0, locked |-> FALSE, removed |-> FALSE, ptr |-> FALSE]
      /\ val[Top] = (IF indirect THEN Pointer ELSE content) /\ val[Leaf] = content
  BY <1>1 DEF Fresh
<1>3. content \in Value /\ content \in [Word -> Val]
  BY DEF Init, Value
<1>4. \A t \in Thread : pc[t] = "idle" /\ call[t].op = "none" /\ path[t] = <<Top>> /\ ~InLeaf(t)
  BY PathEnd DEF Init, InLeaf
<1>5. TypeOK
  <2>1. val \in [Cell -> [Word -> Val \cup {Leaf}]] /\ Pointer \in [Word -> Val \cup {Leaf}]
    BY <1>1, <1>3 DEF Pointer
  <2>2. Fresh \in Status /\ status \in [Cell -> Status]
    BY <1>1 DEF Fresh, Status
  <2>3. [op |-> "none"] \in [op : (Ops \cup {"none"}) \ Updates]
    BY DEF Updates
  <2>4. QED
    BY <1>3, <2>1, <2>2, <2>3 DEF Init, TypeOK
<1>6. LockInv /\ ControlInv
  BY <1>2, <1>4 DEF LockInv, ControlInv, Holds, HoldsLeaf, Locking, Replacing
<1>7. AnswerInv /\ PointerInv /\ CellInv
  BY <1>2, <1>3, <1>4 DEF Init, AnswerInv, PointerInv, PointerOf, CellInv, IsReplace, Ignoring, Replacing
<1>8. FetchInv /\ ContentInv /\ ReadInv
  BY <1>2, <1>4 DEF FetchInv, ContentInv, ReadInv, Held, Source, Replacing
<1>9. QED
  BY <1>5, <1>6, <1>7, <1>8 DEF IInv

LEMMA AnyStep ==
    ASSUME IInv, NEW t \in Thread, Call(t) \/ Step(t), Observe
    PROVE  IInv' /\ Others(t) /\ \A c \in Cell : Steady(c)
  BY CallStep, ReturnStep, ReadStatusStep, ReadWordStep, RetryStep, FollowStep, AnswerStep,
     LockStep, DescendStep, FailStep, UpdateStep, WriteWordStep, RemoveStep, FetchedStep,
     CopyWordStep, SetRemovedStep, UnsetIsPtrStep, IncrVersionStep, UnlockStep DEF Step

LEMMA NextIInv == IInv /\ [Next]_vars => IInv'
  BY AnyStep, StutterStep DEF Next

\* The strengthened invariant holds in every state the threads can reach,
\* however many threads there are and however many words a value has.
THEOREM Invariance == Spec => []IInv
  BY InitIInv, NextIInv, PTL DEF Spec

LEMMA ValueIsNoPointer ==
    ASSUME NEW x \in [Word -> Val]
    PROVE  x # Pointer
  BY NameAssumption DEF NameAssumption, Pointer

LEMMA IInvIsSafe == IInv => PointersAreSafe
<1> SUFFICES ASSUME IInv PROVE PointersAreSafe
  OBVIOUS
<1> USE NameAssumption DEF NameAssumption, Cell
<1>w. \A s \in Thread : at(s) = IF InLeaf(s) THEN Leaf ELSE Top
  BY Where DEF IInv
<1>b. /\ \A t \in Thread : st[t].ptr \in BOOLEAN
      /\ \A c \in Cell : status[c].ptr \in BOOLEAN
  BY DEF IInv, TypeOK, Status
<1>1. ASSUME NEW c \in Cell, c = Top => \A s \in Thread : pc[s] \notin Replacing
      PROVE  (status[c].ptr <=> val[c] = Pointer) /\ (status[c].ptr => ~status[c].removed)
  BY <1>1, ValueIsNoPointer DEF IInv, PointerInv, CellInv, Replacing
<1>2. ASSUME NEW t \in Thread, pc[t] = "check", ~Stale(t)
      PROVE  (st[t].ptr <=> v[t] = Pointer) /\ (st[t].ptr => ~st[t].removed)
  <2>1. CASE call[t].op = "read_ignoring_ptr"
    <3>1. ~st[t].ptr /\ \A w \in Word : v[t][w] \in Val
      BY <1>2, <2>1 DEF IInv, ReadInv, ReadOf, ControlInv, Ignoring
    <3>2. v[t] \in [Word -> Val]
      BY <3>1 DEF IInv, TypeOK
    <3>3. QED
      BY <3>1, <3>2, ValueIsNoPointer
  <2>2. CASE call[t].op # "read_ignoring_ptr"
    <3>1. /\ ~status[at(t)].locked /\ v[t] = val[at(t)]
          /\ st[t].removed = status[at(t)].removed /\ st[t].ptr = status[at(t)].ptr
      BY <1>2, <2>2, FreshRead
    <3>2. at(t) = Top => \A s \in Thread : pc[s] \notin Replacing
      BY <3>1 DEF IInv, LockInv, ControlInv, Holds, Replacing, IsRead, IsReplace
    <3>3. QED
      BY <1>1, <1>w, <3>1, <3>2
  <2>3. QED
    BY <2>1, <2>2
<1>3. ASSUME NEW t \in Thread, pc[t] = "act"
      PROVE  /\ status[at(t)].ptr <=> val[at(t)] = Pointer
             /\ status[at(t)].ptr => ~status[at(t)].removed
             /\ call[t].op = "replace" => status[at(t)].ptr
  <2>1. Holds(t)
    BY <1>3 DEF IInv, ControlInv, Holds, Locking
  <2>2. \A s \in Thread : pc[s] \notin Replacing
    BY <1>3, <2>1, OnlyHolder DEF Replacing
  <2>3. call[t].op = "replace" => ~InLeaf(t) /\ status[Top].ptr
    BY <1>3 DEF IInv, ControlInv, PointerInv, PointerOf, Locking, IsReplace
  <2>4. QED
    BY <1>1, <1>w, <2>2, <2>3
<1>4. QED
  BY <1>2, <1>3 DEF IInv, PointersAreSafe, NoWildPointer, PointerNotRemoved

\* Assertions of read, update, remove and replace_pointer: whoever is about to
\* follow an address has read one, whoever is about to return or change a value
\* has one, and no pointer is marked removed.
THEOREM PointersAreAlwaysSafe == Spec => []PointersAreSafe
  BY Invariance, IInvIsSafe, PTL

-----------------------------------------------------------------------------
(* The atomic cell. *)

\* Without a pointer only readers are at the inner cell, and nobody changes it.
LEMMA InnerStays ==
    ASSUME IInv, NEW t \in Thread, Call(t) \/ Step(t), ~status'[Top].ptr
    PROVE  /\ val'[Leaf] = val[Leaf] /\ status'[Leaf].removed = status[Leaf].removed
           /\ \A s \in Thread : ~(pc[s] = "write" /\ InLeaf(s))
<1> USE NameAssumption DEF NameAssumption, SetStatus, cells, local, Cell
<1>w. \A s \in Thread : at(s) = IF InLeaf(s) THEN Leaf ELSE Top
  BY Where DEF IInv
<1>1. \A s \in Thread : pc[s] = "write" => ~IsRead(s)
  BY DEF IInv, ControlInv, Locking
<1>2. CASE UNCHANGED cells
  BY <1>1, <1>2 DEF IInv, PointerInv, PointerOf
<1>3. CASE Lock(t) \/ IncrVersion(t) \/ Unlock(t)
  <2>1. /\ status'[Leaf].removed = status[Leaf].removed /\ status'[Top].ptr = status[Top].ptr
        /\ val' = val
    <3>1. CASE Lock(t)
      BY <1>w, <3>1 DEF IInv, TypeOK, Status, Lock
    <3>2. CASE IncrVersion(t)
      BY <1>w, <3>2 DEF IInv, TypeOK, Status, IncrVersion
    <3>3. CASE Unlock(t)
      BY <1>w, <3>3 DEF IInv, TypeOK, Status, Unlock
    <3>4. QED
      BY <1>3, <3>1, <3>2, <3>3
  <2>2. QED
    BY <1>1, <2>1 DEF IInv, PointerInv, PointerOf
<1>4. CASE WriteWord(t) \/ Remove(t)
  <2>1. status'[Top].ptr = status[Top].ptr
    <3>1. CASE WriteWord(t)
      BY <3>1 DEF WriteWord
    <3>2. CASE Remove(t)
      BY <1>w, <3>2 DEF IInv, TypeOK, Status, Remove
    <3>3. QED
      BY <1>4, <3>1, <3>2
  <2>2. ~IsRead(t) /\ ~InLeaf(t)
    BY <1>1, <1>4, <2>1 DEF IInv, PointerInv, PointerOf, WriteWord, Remove, IsRead, IsRemove
  <2>3. QED
    BY <1>w, <1>1, <1>4, <2>1, <2>2 DEF IInv, TypeOK, PointerInv, PointerOf, WriteWord, Remove
<1>5. CASE CopyWord(t) \/ SetRemoved(t)
  <2>1. status[Top].ptr
    BY <1>5 DEF IInv, ControlInv, PointerInv, PointerOf, Replacing, CopyWord, SetRemoved
  <2>2. status'[Top].ptr = status[Top].ptr
    BY <1>5 DEF IInv, TypeOK, Status, CopyWord, SetRemoved
  <2>3. QED
    BY <2>1, <2>2
<1>6. CASE UnsetIsPtr(t)
  <2>1. Holds(t)
    BY <1>6 DEF IInv, ControlInv, Holds, UnsetIsPtr, Replacing, IsRead, IsReplace
  <2>2. \A s \in Thread : pc[s] # "write"
    BY <1>6, <2>1, OnlyHolder DEF UnsetIsPtr
  <2>3. QED
    BY <1>6, <2>2 DEF IInv, TypeOK, UnsetIsPtr
<1>7. QED
  BY <1>2, <1>3, <1>4, <1>5, <1>6 DEF Step, Call, Return, ReadStatus, ReadWord, Retry, Follow,
     Answer, Descend, Fail, Update, Fetched

\* Who follows a pointer does so while the status says pointer.
LEMMA PointerFollowed ==
    ASSUME IInv, NEW t \in Thread, Follow(t)
    PROVE  status[Top].ptr
<1>1. call[t].op # "read_ignoring_ptr" /\ ~InLeaf(t)
  BY DEF Follow, IInv, ReadInv, ReadOf, Ignoring
<1>2. QED
  BY <1>1, Where, FreshRead DEF Follow, IInv

LEMMA ReaderAtInner ==
    ASSUME IInv, IInv', NEW t \in Thread, Call(t) \/ Step(t), ~status'[Top].ptr,
           IsRead(t)', InLeaf(t)'
    PROVE  IsRead(t) /\ InLeaf(t)
<1> USE DEF GoTo, cells, local
<1>1. CASE Call(t)
  BY <1>1, PathEnd DEF Call, IInv, ControlInv, InLeaf
<1>2. CASE Return(t) \/ Fetched(t)
  BY <1>2, PathEnd DEF Return, Fetched, IInv, TypeOK, InLeaf
<1>3. CASE Follow(t) \/ Descend(t)
  <2>1. CASE Follow(t)
    BY <2>1, PointerFollowed DEF Follow
  <2>2. CASE Descend(t)
    BY <2>2 DEF Descend, IInv, ControlInv, Locking, IsRead
  <2>3. QED
    BY <1>3, <2>1, <2>2
<1>4. CASE Unlock(t)
  BY <1>4, PathEnd DEF Unlock, IInv, TypeOK, InLeaf, IsRead
<1>5. CASE UNCHANGED <<call, path>>
  BY <1>5 DEF IsRead, InLeaf
<1>6. QED
  BY <1>1, <1>2, <1>3, <1>4, <1>5 DEF Step, ReadStatus, ReadWord, Retry, Answer, Lock, Fail, Update,
     WriteWord, Remove, CopyWord, SetRemoved, UnsetIsPtr, IncrVersion

\* A cell that is no pointer gets its words from the content, one at a time.
LEMMA WordsOfTop ==
    ASSUME IInv, NEW t \in Thread, Call(t) \/ Step(t), ~status[Top].ptr, NEW w \in Word
    PROVE  \/ val'[Top][w] = val[Top][w]
           \/ content' # Gone /\ val'[Top][w] = content'[w]
<1> USE DEF cells, local
<1>w. at(t) = IF InLeaf(t) THEN Leaf ELSE Top
  BY Where DEF IInv
<1>1. CASE val' = val
  BY <1>1
<1>2. CASE WriteWord(t)
  <2>1. PICK u \in todo[t] : val' = [val EXCEPT ![at(t)][u] = call[t].arg[u]]
    BY <1>2 DEF WriteWord
  <2>2. content' = call[t].arg /\ IsUpdate(t)
    BY <1>2 DEF WriteWord, IInv, ControlInv
  <2>3. call[t].arg \in Value /\ u \in Word /\ val[Top] \in [Word -> Val \cup {Leaf}]
    BY <2>1, <2>2 DEF IInv, TypeOK, IsUpdate, Cell
  <2>4. content' # Gone
    BY <2>2, <2>3, NameAssumption DEF NameAssumption, Value
  <2>5. val' = [val EXCEPT ![Top][u] = call[t].arg[u]] \/ val'[Top] = val[Top]
    BY <1>w, <2>1, NameAssumption DEF NameAssumption, IInv, TypeOK, Cell
  <2>6. QED
    BY <2>2, <2>3, <2>4, <2>5 DEF IInv, TypeOK, Cell
<1>3. CASE CopyWord(t)
  BY <1>3 DEF CopyWord, IInv, ControlInv, PointerInv, PointerOf, Replacing
<1>4. QED
  BY <1>1, <1>2, <1>3 DEF Step, Call, Return, ReadStatus, ReadWord, Retry, Follow, Answer, Lock,
     Descend, Fail, Update, Remove, Fetched, SetRemoved, UnsetIsPtr, IncrVersion, Unlock

\* A cell nobody writes to holds the content, unless it is left behind by a pointer.
LEMMA ContentHeld ==
    ASSUME IInv, NEW c \in Cell, c = Source, \A s \in Thread : ~(pc[s] = "write" /\ at(s) = c)
    PROVE  content = Held(c)
<1>1. \A s \in Thread : pc[s] = "write" => at(s) = Source
  BY Where, NameAssumption DEF NameAssumption, IInv, ControlInv, PointerInv, PointerOf, Locking, Source
<1>2. QED
  BY <1>1 DEF IInv, ContentInv

LEMMA SeenMonotone ==
    ASSUME NEW t \in Thread, Observe, pc'[t] # "idle"
    PROVE  /\ seen'[t] = seen[t] \cup {content'}
           /\ \A x, w : Seeable(t, x, w) => Seeable(t, x, w)'
  BY DEF Observe, Seeable


LEMMA SeenWordsStep ==
    ASSUME IInv, IInv', SeenInv, NEW t \in Thread, Call(t) \/ Step(t), Observe, Others(t),
           \A c \in Cell : Steady(c),
           NEW s \in Thread, (call[s].op = "read_ignoring_ptr" /\ pc[s] \in {"value", "check"})'
    PROVE  SeenWords(s)'
<1> USE NameAssumption DEF NameAssumption, Cell
<1>1. ~status'[Top].ptr /\ ~InLeaf(s)' /\ at(s)' = Top
  <2>1. ~status'[Top].ptr /\ ~InLeaf(s)'
    BY DEF IInv, PointerInv, PointerOf, Ignoring
  <2>2. QED
    BY <2>1, WhereNext DEF IInv
<1>x. \A r \in Thread : at(r)' = IF InLeaf(r)' THEN Leaf ELSE Top
  BY WhereNext DEF IInv
<1>2. /\ seen'[s] = seen[s] \cup {content'}
      /\ \A x, w : Seeable(s, x, w) => Seeable(s, x, w)'
  BY SeenMonotone
<1>3. /\ status[Top].version \in Nat /\ status'[Top].version \in Nat
      /\ status'[Top].version >= status[Top].version
  BY DEF IInv, TypeOK, Status, Steady
<1>4. \A h \in {content'} \ {Gone}, w \in Word : Seeable(s, h[w], w)'
  BY <1>2 DEF Seeable
<1>5. CASE s = t /\ ReadStatus(t)
  <2>1. /\ st'[s] = status[Top] /\ todo'[s] = Word
        /\ UNCHANGED <<cells, content, path, call>> /\ \A r \in Thread : pc'[r] = "write" => pc[r] = "write"
    BY <1>1, <1>5 DEF ReadStatus, GoTo, IInv, TypeOK, at
  <2>2. \A r \in Thread : pc'[r] = "write" => ~InLeaf(r)' /\ Holds(r)' /\ ~status'[Top].removed
    <3>1. ASSUME NEW r \in Thread, pc'[r] = "write"
          PROVE  IsUpdate(r)' /\ ~IsRead(r)' /\ ~InLeaf(r)' /\ ~status'[at(r)'].removed
      BY <1>1, <3>1 DEF IInv, ControlInv, PointerInv, PointerOf, Locking
    <3>2. QED
      BY <1>x, <3>1 DEF Holds
  <2>3. status'[Top].removed \/ ~status'[Top].locked => content' = Held(Top)'
    BY <1>1, <2>2 DEF IInv, ContentInv, LockInv, Source
  <2>4. status'[Top].removed => Gone \in seen'[s]
    BY <1>2, <2>3 DEF Held
  <2>5. ASSUME ~status'[Top].removed, ~status'[Top].locked, NEW w \in Word
        PROVE  Seeable(s, val[Top][w], w)'
    <3>1. content' = val'[Top] /\ val'[Top] # Gone
      BY <2>3, <2>5 DEF Held, IInv, TypeOK
    <3>2. QED
      BY <1>4, <3>1
  <2>6. QED
    BY <2>1, <2>4, <2>5 DEF SeenWords, cells
<1>6. CASE s # t \/ ReadWord(t)
  <2>1. /\ call[s].op = "read_ignoring_ptr" /\ pc[s] \in {"value", "check"} /\ st'[s] = st[s]
        /\ at(s) = Top
    BY <1>1, <1>6, OtherStays DEF ReadWord, at, local
  <2>2. SeenWords(s) /\ ~status[Top].ptr /\ st[s].version \in Nat /\ st[s].version <= status[Top].version
    BY <2>1 DEF SeenInv, IInv, PointerInv, PointerOf, Ignoring, TypeOK, Status, ReadInv, ReadOf
  <2>3. SUFFICES ASSUME ~st'[s].removed, ~st'[s].locked, st'[s].version = status'[Top].version, NEW w \in Word
                 PROVE  Seeable(s, val[Top][w], w)' /\ (w \in todo[s] \/ Seeable(s, v[s][w], w))'
    BY <1>2, <2>1, <2>2 DEF SeenWords
  <2>4. st[s].version = status[Top].version
    BY <1>3, <2>1, <2>2, <2>3
  <2>5. Seeable(s, val[Top][w], w) /\ (w \in todo[s] \/ Seeable(s, v[s][w], w))
    BY <2>1, <2>2, <2>3, <2>4 DEF SeenWords
  <2>6. Seeable(s, val[Top][w], w)'
    BY <1>2, <1>4, <2>2, <2>5, WordsOfTop
  <2>7. (w \in todo[s] \/ Seeable(s, v[s][w], w))'
    <3>1. CASE s # t
      BY <1>2, <2>5, <3>1, OtherStays
    <3>2. CASE s = t /\ ReadWord(t)
      <4>1. PICK u \in todo[t] : v' = [v EXCEPT ![t][u] = val[at(t)][u]] /\ todo' = [todo EXCEPT ![t] = @ \ {u}]
        BY <3>2 DEF ReadWord
      <4>2. v'[s] = [v[s] EXCEPT ![u] = val[Top][u]] /\ todo'[s] = todo[s] \ {u}
        BY <2>1, <3>2, <4>1 DEF IInv, TypeOK
      <4>3. v'[s][w] = (IF w = u THEN val[Top][w] ELSE v[s][w]) /\ (w \in todo[s] => w = u \/ w \in todo'[s])
        BY <4>2 DEF IInv, TypeOK
      <4>4. QED
        BY <1>2, <2>5, <4>3
    <3>3. QED
      BY <1>6, <3>1, <3>2
  <2>8. QED
    BY <2>6, <2>7
<1>7. QED
  <2>1. s = t => ReadStatus(t) \/ ReadWord(t)
    BY DEF Step, Call, Return, Retry, Follow, Answer, Lock, Descend, Fail, Update, WriteWord, Remove,
       Fetched, CopyWord, SetRemoved, UnsetIsPtr, IncrVersion, Unlock, GoTo, IInv, TypeOK
  <2>2. QED
    BY <1>5, <1>6, <2>1

LEMMA SeenStep ==
    ASSUME IInv, SeenInv, NEW t \in Thread, Call(t) \/ Step(t), Observe
    PROVE  SeenInv'
<1> USE NameAssumption DEF NameAssumption, Cell
<1>1. IInv' /\ Others(t) /\ \A c \in Cell : Steady(c)
  BY AnyStep
<1> SUFFICES ASSUME NEW s \in Thread
             PROVE  /\ pc'[s] = "idle" => seen'[s] = {}
                    /\ pc'[s] # "idle" => content' \in seen'[s]
                    /\ (IsRead(s) /\ InLeaf(s) /\ (\A r \in Thread : ~(pc[r] = "write" /\ InLeaf(r))))'
                          => Held(Leaf)' \in seen'[s]
                    /\ (call[s].op = "read_ignoring_ptr" /\ pc[s] \in {"value", "check"})' => SeenWords(s)'
  BY DEF SeenInv
<1>2. /\ pc'[s] = "idle" => seen'[s] = {}
      /\ pc'[s] # "idle" => seen'[s] = seen[s] \cup {content'}
  BY DEF Observe
<1>3. ASSUME (IsRead(s) /\ InLeaf(s) /\ (\A r \in Thread : ~(pc[r] = "write" /\ InLeaf(r))))'
      PROVE  Held(Leaf)' \in seen'[s]
  <2>1. pc'[s] # "idle"
    BY <1>1, <1>3, PathEnd DEF IInv, ControlInv, InLeaf
  <2>2. CASE status'[Top].ptr
    <3>1. \A r \in Thread : pc'[r] = "write" => InLeaf(r)'
      <4>1. ASSUME NEW r \in Thread, pc'[r] = "write", ~InLeaf(r)' PROVE FALSE
      <5>1. at(r)' = Top
        BY <1>1, <4>1, WhereNext DEF IInv
      <5>2. QED
        BY <1>1, <2>2, <4>1, <5>1 DEF IInv, PointerInv, PointerOf
    <4>2. QED
      BY <4>1
    <3>2. content' = Held(Leaf)'
      BY <1>1, <1>3, <2>2, <3>1 DEF IInv, ContentInv, Source
    <3>3. QED
      BY <1>2, <2>1, <3>2
  <2>3. CASE ~status'[Top].ptr
    <3>1. Held(Leaf)' = Held(Leaf) /\ \A r \in Thread : ~(pc[r] = "write" /\ InLeaf(r))
      BY <2>3, InnerStays DEF Held
    <3>2. IsRead(s) /\ InLeaf(s)
      BY <1>1, <1>3, <2>3, OtherStays, ReaderAtInner DEF IsRead
    <3>3. QED
      BY <1>2, <2>1, <3>1, <3>2 DEF SeenInv
  <2>4. QED
    BY <2>2, <2>3
<1>4. QED
  BY <1>1, <1>2, <1>3, SeenWordsStep

\* The calls, as the atomic cell names them.
LEMMA PlainRecord ==
    ASSUME NEW c \in [op : (Ops \cup {"none"}) \ Updates] \cup [op : Ops \cap Updates, arg : Value]
    PROVE  /\ c.op \in {"none", "replace"} => [c EXCEPT !.op = Plain(@)] = [op |-> "none"]
           /\ c.op = "read" => [c EXCEPT !.op = Plain(@)] = [op |-> "read"]
           /\ c.op = "read_ignoring_ptr" => [c EXCEPT !.op = Plain(@)] = [op |-> "read_words"]
           /\ c.op \in {"remove", "remove_ignoring_ptr"} => [c EXCEPT !.op = Plain(@)] = [op |-> "remove"]
           /\ c.op \in Updates => [c EXCEPT !.op = Plain(@)] = [op |-> "update", arg |-> c.arg] /\ c.arg \in Value
           /\ c.op \in {"none", "replace", "read", "read_ignoring_ptr", "remove", "remove_ignoring_ptr"} \cup Updates
<1>1. CASE c.op \in Updates
  <2>1. c = [op |-> c.op, arg |-> c.arg] /\ c.arg \in Value
    BY <1>1
  <2>2. Plain(c.op) = "update"
    BY <1>1 DEF Plain, Updates
  <2>3. [c EXCEPT !.op = Plain(@)] = [op |-> "update", arg |-> c.arg]
    BY <2>1, <2>2
  <2>4. QED
    BY <1>1, <2>1, <2>3 DEF Updates
<1>2. CASE c.op \notin Updates
  <2>1. c = [op |-> c.op] /\ c.op \in Ops \cup {"none"}
    BY <1>2
  <2>2. [c EXCEPT !.op = Plain(@)] = [op |-> Plain(c.op)]
    BY <2>1
  <2>3. c.op \in {"none", "read", "remove", "replace", "read_ignoring_ptr", "remove_ignoring_ptr"}
    BY <1>2, <2>1, OpsAssumption DEF OpsAssumption, Ignoring, Updates
  <2>4. QED
    BY <1>2, <2>2, <2>3 DEF Plain
<1>3. QED
  BY <1>1, <1>2

\* A step that is none of the atomic cell's.
LEMMA CellStutters ==
    ASSUME IInv, SeenInv, Observe, UNCHANGED <<content, call, answer>>,
           \A s \in Thread : pc'[s] = "idle" <=> pc[s] = "idle"
    PROVE  UNCHANGED Atomic!cellVars
<1>1. seen' = seen
  BY DEF Observe, SeenInv, IInv, TypeOK
<1>2. QED
  BY <1>1 DEF Atomic!cellVars, PlainCall, PlainSeen

LEMMA PlainFunctions ==
    /\ (\A s \in Thread : PlainCall'[s] = PlainCall[s]) => PlainCall' = PlainCall
    /\ (\A s \in Thread : PlainSeen'[s] = PlainSeen[s]) => PlainSeen' = PlainSeen
<1>1. PlainCall = [s \in Thread |-> PlainCall[s]] /\ PlainCall' = [s \in Thread |-> PlainCall'[s]]
  BY DEF PlainCall
<1>2. PlainSeen = [s \in Thread |-> PlainSeen[s]] /\ PlainSeen' = [s \in Thread |-> PlainSeen'[s]]
  BY DEF PlainSeen
<1>3. QED
  BY <1>1, <1>2

LEMMA BeginStep ==
    ASSUME IInv, SeenInv, IInv', NEW t \in Thread, Call(t), Observe
    PROVE  Atomic!Begin(t) \/ UNCHANGED Atomic!cellVars
<1>1. /\ pc[t] = "idle" /\ pc'[t] # "idle" /\ UNCHANGED <<content, answer>>
      /\ \A s \in Thread \ {t} : call'[s] = call[s] /\ pc'[s] = pc[s]
  BY DEF Call, GoTo, local, IInv, TypeOK
<1>2. call[t].op = "none" /\ seen[t] = {}
  BY <1>1 DEF IInv, ControlInv, SeenInv
<1>3. seen'[t] = {content} /\ \A s \in Thread \ {t} : seen'[s] = seen[s]
  BY <1>1, <1>2 DEF Observe, SeenInv
<1>4. \A s \in Thread \ {t} : PlainCall'[s] = PlainCall[s] /\ PlainSeen'[s] = PlainSeen[s]
  BY <1>1, <1>3 DEF PlainCall, PlainSeen
<1>5. PlainCall[t] = [op |-> "none"] /\ PlainCall'[t] = [call'[t] EXCEPT !.op = Plain(@)]
  BY <1>2, PlainRecord DEF IInv, TypeOK, PlainCall
<1>6. PlainSeen[t] = {}
  BY <1>5 DEF PlainSeen
<1>7. call'[t] \in [op : (Ops \cup {"none"}) \ Updates] \cup [op : Ops \cap Updates, arg : Value]
  BY DEF IInv, TypeOK
<1>8. CASE call'[t].op \in {"none", "replace"}
  <2>1. PlainCall'[t] = [op |-> "none"]
    BY <1>5, <1>7, <1>8, PlainRecord
  <2>2. PlainSeen'[t] = {}
    BY <2>1 DEF PlainSeen
  <2>3. \A s \in Thread : PlainCall'[s] = PlainCall[s] /\ PlainSeen'[s] = PlainSeen[s]
    BY <1>4, <1>5, <1>6, <2>1, <2>2
  <2>4. PlainCall' = PlainCall /\ PlainSeen' = PlainSeen
    BY <2>3, PlainFunctions
  <2>5. QED
    BY <1>1, <2>4 DEF Atomic!cellVars
<1>9. CASE call'[t].op \notin {"none", "replace"}
  <2>1. PlainCall'[t] \in Atomic!Calls
    <3>1. CASE call'[t].op \in Updates
      BY ZenonT(60), <1>5, <1>7, <3>1, PlainRecord DEF Atomic!Calls
    <3>2. CASE call'[t].op \notin Updates
      <4>1. PlainCall'[t] \in {[op |-> "read"], [op |-> "read_words"], [op |-> "remove"]}
        BY <1>5, <1>7, <1>9, <3>2, PlainRecord
      <4>2. QED
        BY <4>1 DEF Atomic!Calls
    <3>3. QED
      BY <3>1, <3>2
  <2>2. PlainSeen'[t] = {content}
    BY <1>3, <2>1 DEF PlainSeen, Atomic!Calls
  <2>3. PlainCall' = [PlainCall EXCEPT ![t] = PlainCall'[t]] /\ PlainSeen' = [PlainSeen EXCEPT ![t] = {content}]
    BY <1>4, <2>2 DEF PlainCall, PlainSeen
  <2>4. QED
    BY <1>1, <1>5, <2>1, <2>3 DEF Atomic!Begin
<1>10. QED
  BY <1>8, <1>9

LEMMA EndStep ==
    ASSUME IInv, SeenInv, IInv', NEW t \in Thread, Return(t), Observe
    PROVE  Atomic!End(t) \/ UNCHANGED Atomic!cellVars
<1>1. /\ pc[t] = "return" /\ pc'[t] = "idle" /\ content' = content
      /\ answer' = [answer EXCEPT ![t] = Pending]
      /\ call'[t] = [op |-> "none"] /\ \A s \in Thread \ {t} : call'[s] = call[s] /\ pc'[s] = pc[s]
  BY DEF Return, GoTo, IInv, TypeOK
<1>2. seen'[t] = {} /\ \A s \in Thread \ {t} : seen'[s] = seen[s]
  BY <1>1 DEF Observe, SeenInv, IInv, TypeOK
<1>3. \A s \in Thread \ {t} : PlainCall'[s] = PlainCall[s] /\ PlainSeen'[s] = PlainSeen[s]
  BY <1>1, <1>2 DEF PlainCall, PlainSeen
<1>4. PlainCall'[t] = [op |-> "none"] /\ PlainSeen'[t] = {}
  BY <1>1, <1>2 DEF PlainCall, PlainSeen, Plain
<1>5. CASE IsReplace(t)
  <2>1. PlainCall[t] = [op |-> "none"]
    BY <1>5, PlainRecord DEF IsReplace, PlainCall, IInv, TypeOK
  <2>2. PlainSeen[t] = {}
    BY <2>1 DEF PlainSeen
  <2>3. \A s \in Thread : PlainCall'[s] = PlainCall[s] /\ PlainSeen'[s] = PlainSeen[s]
    BY <1>3, <1>4, <2>1, <2>2
  <2>4. PlainCall' = PlainCall /\ PlainSeen' = PlainSeen
    BY <2>3, PlainFunctions
  <2>5. answer' = answer
    BY <1>1, <1>5 DEF IInv, TypeOK, AnswerInv
  <2>6. QED
    BY <1>1, <2>4, <2>5 DEF Atomic!cellVars
<1>6. CASE ~IsReplace(t)
  <2>1. answer[t] # Pending
    BY <1>1, <1>6 DEF IInv, AnswerInv
  <2>2. /\ PlainCall' = [PlainCall EXCEPT ![t] = [op |-> "none"]]
        /\ PlainSeen' = [PlainSeen EXCEPT ![t] = {}]
    BY <1>3, <1>4 DEF PlainCall, PlainSeen
  <2>3. QED
    BY <1>1, <2>1, <2>2 DEF Atomic!End
<1>7. QED
  BY <1>5, <1>6

\* read returns what the cell held since the call began, read_ignoring_ptr a
\* value each word of which it held.
LEMMA AnswerCellStep ==
    ASSUME IInv, SeenInv, NEW t \in Thread, Answer(t), Observe
    PROVE  Atomic!Read(t) \/ Atomic!ReadWords(t)
<1> USE NameAssumption DEF NameAssumption, Cell
<1>1. /\ UNCHANGED <<content, call>> /\ IsRead(t) /\ pc[t] = "check" /\ ~Stale(t)
      /\ answer' = [answer EXCEPT ![t] = IF st[t].removed THEN Gone ELSE v[t]]
      /\ \A s \in Thread : pc'[s] = "idle" <=> pc[s] = "idle"
  BY DEF Answer, GoTo, IInv, TypeOK
<1>2. answer[t] = Pending
  BY <1>1 DEF IInv, AnswerInv
<1>3. seen' = seen /\ PlainCall' = PlainCall /\ PlainSeen' = PlainSeen
  <2>1. seen' = seen
    BY <1>1 DEF Observe, SeenInv, IInv, TypeOK
  <2>2. QED
    BY <1>1, <2>1 DEF PlainCall, PlainSeen
<1>4. PlainCall[t] = [call[t] EXCEPT !.op = Plain(@)] /\ seen[t] \in SUBSET (Value \cup {Gone})
  BY DEF PlainCall, IInv, TypeOK
<1>5. CASE call[t].op = "read"
  <2>1. PlainCall[t] = [op |-> "read"]
    BY <1>4, <1>5, PlainRecord DEF IInv, TypeOK
  <2>2. /\ ~status[at(t)].locked /\ v[t] = val[at(t)] /\ ~status[at(t)].ptr
        /\ st[t].removed = status[at(t)].removed
    BY <1>1, <1>5, FreshRead DEF Answer
  <2>3. Held(at(t)) \in seen[t]
    <3>1. CASE InLeaf(t)
      <4>1. \A s \in Thread : ~(pc[s] = "write" /\ InLeaf(s))
        BY <2>2, <3>1, Where DEF IInv, LockInv, HoldsLeaf
      <4>2. QED
        BY <1>1, <3>1, <4>1, Where DEF IInv, SeenInv
    <3>2. CASE ~InLeaf(t)
      <4>1. at(t) = Top /\ Source = Top
        BY <2>2, <3>2, Where DEF IInv, Source
      <4>2. \A s \in Thread : pc[s] # "write"
        BY <2>2, <4>1 DEF IInv, LockInv, ControlInv, Locking, Holds
      <4>3. QED
        BY <1>1, <4>1, <4>2 DEF IInv, ContentInv, SeenInv
    <3>3. QED
      BY <3>1, <3>2
  <2>4. PlainSeen[t] = seen[t]
    BY <2>1 DEF PlainSeen
  <2>5. \E c \in PlainSeen[t] : answer' = [answer EXCEPT ![t] = c]
    BY <1>1, <2>2, <2>3, <2>4 DEF Held
  <2>6. PlainCall[t].op = "read"
    BY <2>1
  <2>7. QED
    BY <1>1, <1>2, <1>3, <2>5, <2>6 DEF Atomic!Read
<1>6. CASE call[t].op = "read_ignoring_ptr"
  <2>1. PlainCall[t] = [op |-> "read_words"]
    BY <1>4, <1>6, PlainRecord DEF IInv, TypeOK
  <2>2. PlainSeen[t] = seen[t]
    BY <2>1 DEF PlainSeen
  <2>3. SeenWords(t) /\ ~InLeaf(t) /\ todo[t] = {}
    BY <1>1, <1>6 DEF IInv, ControlInv, SeenInv, PointerInv, PointerOf, Ignoring
  <2>4. st[t].version = status[Top].version /\ ~st[t].locked
    BY <1>1, <1>6, <2>3, Where DEF IInv, Stale
  <2>5. ASSUME ~st[t].removed PROVE v[t] \in Atomic!Mixtures(t)
    <3>1. \A w \in Word : \E h \in seen[t] \ {Gone} : v[t][w] = h[w]
      BY <2>3, <2>4, <2>5 DEF SeenWords, Seeable
    <3> DEFINE held == [w \in Word |-> CHOOSE h \in seen[t] \ {Gone} : v[t][w] = h[w]]
    <3>2. held \in [Word -> seen[t] \ {Gone}] /\ \A w \in Word : held[w][w] = v[t][w]
      BY <3>1
    <3> HIDE DEF held
    <3>3. v[t] = [w \in Word |-> held[w][w]]
      BY <3>2 DEF IInv, TypeOK
    <3>4. QED
      BY <2>2, <3>2, <3>3 DEF Atomic!Mixtures
  <2>6. st[t].removed => Gone \in seen[t]
    BY <2>3 DEF SeenWords
  <2>7. \E c \in Atomic!Mixtures(t) \cup (PlainSeen[t] \cap {Gone}) : answer' = [answer EXCEPT ![t] = c]
    BY <1>1, <2>2, <2>5, <2>6
  <2>8. PlainCall[t].op = "read_words"
    BY <2>1
  <2>9. QED
    BY <1>1, <1>2, <1>3, <2>7, <2>8 DEF Atomic!ReadWords
<1>7. QED
  BY <1>1, <1>5, <1>6 DEF IsRead

\* An update or a removal, successful or not, takes effect in one step.
LEMMA ChangeCellStep ==
    ASSUME IInv, SeenInv, NEW t \in Thread, Observe,
           NEW new \in Value \cup {Gone}, NEW yes,
           ~IsRead(t), ~IsReplace(t), pc[t] # "idle", answer[t] = Pending,
           UNCHANGED call, \A s \in Thread : pc'[s] = "idle" <=> pc[s] = "idle",
           answer' = [answer EXCEPT ![t] = yes], content' = new,
           \/ content # Gone /\ yes = Yes /\ new = IF IsUpdate(t) THEN call[t].arg ELSE Gone
           \/ content = Gone /\ yes = No /\ new = Gone
    PROVE  Atomic!Change(t)
<1>1. PlainCall[t] = [call[t] EXCEPT !.op = Plain(@)] /\ PlainCall' = PlainCall
  BY DEF PlainCall, IInv, TypeOK
<1>2. call[t].op # "none"
  BY DEF IInv, ControlInv
<1>3. \/ IsUpdate(t) /\ PlainCall[t] = [op |-> "update", arg |-> call[t].arg]
      \/ ~IsUpdate(t) /\ PlainCall[t] = [op |-> "remove"]
  BY <1>1, <1>2, PlainRecord DEF IInv, TypeOK, IsUpdate, IsRead, IsReplace, Updates
<1>4. \A s \in Thread : PlainCall[s].op = "none" \/ call[s].op # "none"
  BY DEF PlainCall, Plain, IInv, TypeOK
<1>5. PlainSeen' = [s \in Thread |-> IF PlainCall[s].op = "none" THEN {} ELSE PlainSeen[s] \cup {new}]
  <2>1. ASSUME NEW s \in Thread, PlainCall[s].op # "none" PROVE seen'[s] = seen[s] \cup {new}
    BY <1>4, <2>1 DEF Observe, IInv, ControlInv
  <2>2. QED
    BY <1>1, <2>1 DEF PlainSeen
<1>6. content = Gone => PlainSeen' = PlainSeen
  <2>1. content = Gone => seen' = seen
    BY DEF Observe, SeenInv, IInv, TypeOK
  <2>2. QED
    BY <1>1, <2>1 DEF PlainSeen
<1>7. PlainCall[t].op \in {"update", "remove"}
  BY <1>3
<1>8. CASE content # Gone
  <2>1. new = IF PlainCall[t].op = "update" THEN PlainCall[t].arg ELSE Gone
    BY <1>3, <1>8
  <2>2. QED
    BY <1>1, <1>5, <1>7, <1>8, <2>1 DEF Atomic!Change, Atomic!Becomes
<1>9. CASE content = Gone
  BY <1>1, <1>6, <1>7, <1>9 DEF Atomic!Change
<1>10. QED
  BY <1>8, <1>9

LEMMA WriteCellStep ==
    ASSUME IInv, SeenInv, NEW t \in Thread, WriteWord(t), Observe
    PROVE  Atomic!Change(t) \/ UNCHANGED Atomic!cellVars
<1> USE NameAssumption DEF NameAssumption, Cell
<1>1. /\ pc[t] = "write" /\ UNCHANGED call /\ content' = call[t].arg
      /\ answer' = [answer EXCEPT ![t] = Yes]
      /\ \A s \in Thread : pc'[s] = "idle" <=> pc[s] = "idle"
  BY DEF WriteWord, GoTo, IInv, TypeOK
<1>2. /\ IsUpdate(t) /\ ~IsRead(t) /\ ~IsReplace(t) /\ WriteOf(t)
      /\ answer[t] = IF todo[t] = Word THEN Pending ELSE Yes
  BY <1>1 DEF IInv, ControlInv, ContentInv, AnswerInv, IsUpdate, IsRead, IsReplace, Updates
<1>3. call[t].arg \in Value
  BY <1>2 DEF IInv, TypeOK, IsUpdate
<1>4. CASE todo[t] = Word
  <2>1. content = val[at(t)] /\ val[at(t)] # Gone
    BY <1>2, <1>4, Where DEF IInv, TypeOK, WriteOf
  <2>2. QED
    BY <1>1, <1>2, <1>3, <1>4, <2>1, ChangeCellStep
<1>5. CASE todo[t] # Word
  <2>1. content' = content /\ answer' = answer
    BY <1>1, <1>2, <1>5 DEF WriteOf, IInv, TypeOK
  <2>2. QED
    BY <1>1, <2>1, CellStutters
<1>6. QED
  BY <1>4, <1>5

LEMMA FailOrRemoveCellStep ==
    ASSUME IInv, SeenInv, NEW t \in Thread, Fail(t) \/ Remove(t), Observe
    PROVE  Atomic!Change(t)
<1> USE NameAssumption DEF NameAssumption, Cell
<1>1. /\ pc[t] = "act" /\ UNCHANGED call /\ ~status[at(t)].ptr
      /\ \A s \in Thread : pc'[s] = "idle" <=> pc[s] = "idle"
  BY DEF Fail, Remove, GoTo, IInv, TypeOK
<1>2. ~IsRead(t) /\ Holds(t)
  BY <1>1 DEF IInv, ControlInv, Locking, Holds
<1>3. ~IsReplace(t) /\ Source = at(t)
  BY <1>1, <1>2, Where DEF IInv, ControlInv, PointerInv, PointerOf, Locking, Source
<1>4. \A s \in Thread : pc[s] # "write"
  BY <1>1, <1>2, OnlyHolder
<1>5. content = Held(at(t)) /\ answer[t] = Pending /\ val[at(t)] # Gone
  BY <1>1, <1>3, <1>4, Where DEF IInv, TypeOK, ContentInv, AnswerInv
<1>6. CASE Fail(t)
  BY <1>1, <1>2, <1>3, <1>5, <1>6, ChangeCellStep DEF Fail, Held
<1>7. CASE Remove(t)
  <2>1. ~IsUpdate(t)
    BY <1>7 DEF Remove, IsRemove, IsUpdate, Updates
  <2>2. QED
    BY <1>1, <1>2, <1>3, <1>5, <1>7, <2>1, ChangeCellStep DEF Remove, Held
<1>8. QED
  BY <1>6, <1>7

LEMMA CellStep ==
    ASSUME IInv, SeenInv, [Next]_vars
    PROVE  [Atomic!CellNext]_(Atomic!cellVars)
<1>1. CASE UNCHANGED vars
  BY <1>1 DEF vars, cells, local, Atomic!cellVars, PlainCall, PlainSeen
<1>2. ASSUME NEW t \in Thread, Call(t) \/ Step(t), Observe
      PROVE  [Atomic!CellNext]_(Atomic!cellVars)
  <2>1. IInv'
    BY <1>2, AnyStep
  <2>2. CASE Call(t) \/ Return(t)
    BY <1>2, <2>1, <2>2, BeginStep, EndStep DEF Atomic!CellNext
  <2>3. CASE Answer(t) \/ WriteWord(t) \/ Fail(t) \/ Remove(t)
    BY <1>2, <2>3, AnswerCellStep, WriteCellStep, FailOrRemoveCellStep DEF Atomic!CellNext
  <2>4. CASE UNCHANGED <<content, call, answer>> /\ ~Call(t) /\ ~Return(t)
    <3>1. \A s \in Thread : pc'[s] = "idle" <=> pc[s] = "idle"
      BY <1>2, <2>4 DEF Step, ReadStatus, ReadWord, Retry, Follow, Answer, Lock, Descend, Fail, Update,
         WriteWord, Remove, Fetched, CopyWord, SetRemoved, UnsetIsPtr, IncrVersion, Unlock,
         GoTo, IInv, TypeOK
    <3>2. QED
      BY <1>2, <2>4, <3>1, CellStutters
  <2>5. QED
    BY <1>2, <2>2, <2>3, <2>4 DEF Step, ReadStatus, ReadWord, Retry, Follow, Lock, Descend, Update,
       Fetched, CopyWord, SetRemoved, UnsetIsPtr, IncrVersion, Unlock, local
<1>3. QED
  BY <1>1, <1>2 DEF Next

LEMMA NextSeenInv == IInv /\ SeenInv /\ [Next]_vars => SeenInv'
<1>1. CASE UNCHANGED vars
  BY <1>1 DEF vars, cells, local, SeenInv, SeenWords, Seeable, Held, IsRead, InLeaf
<1>2. QED
  BY <1>1, SeenStep DEF Next

LEMMA InitSeenInv == Init => SeenInv /\ Atomic!CellInit
  BY DEF Init, SeenInv, IsRead, Atomic!CellInit, PlainCall, PlainSeen, Plain

\* "semantics: atomically read the value and the `removed` flag": whatever the
\* interleaving of readers, writers, removers and the one that replaces the
\* pointer, the cell behaves as one that is read and changed in single steps,
\* which the word by word copies, the two locks and the version implement.
THEOREM AtomicValIsAtomic == Spec => Implements
<1>1. Spec => [](IInv /\ SeenInv)
  BY InitIInv, InitSeenInv, NextIInv, NextSeenInv, PTL DEF Spec
<1>2. QED
  BY <1>1, InitSeenInv, CellStep, PTL DEF Spec, Implements, Atomic!CellSpec
=============================================================================
