------------------------------- MODULE Driver -------------------------------
(***************************************************************************)
(* The drivers (finedex_benchmark.cpp, finedex_searchinsert.cpp,           *)
(* finedex_ycsb.cpp): main creates workers, waits until they are ready,    *)
(* sets running, and joins them before it reports and deletes the index.   *)
(*                                                                         *)
(* A phase is a "batch", in which each worker makes a fixed number of      *)
(* calls, or a "window", in which it calls until main clears running after *)
(* some seconds.  The benchmark is one window, ycsb one batch, and         *)
(* searchinsert a batch of inserts followed by a window of scans.          *)
(***************************************************************************)
EXTENDS Integers, Sequences, FiniteSetsExt

CONSTANTS
    Worker,    \* Config.thread_num of them
    Phases,    \* the phases of the driver: "batch" or "window"
    Batch,     \* calls of a worker in a batch
    Seconds,   \* Config.runtime
    MaxCalls   \* bound: calls of a worker in a window

ASSUME WorkerAssumption == Worker # {} /\ IsFiniteSet(Worker)
ASSUME PhaseAssumption  == Phases # <<>> /\ Phases \in Seq({"batch", "window"})
ASSUME BoundAssumption  == {Batch, Seconds, MaxCalls} \subseteq Nat

VARIABLES
    main,         \* what main is at
    phase,        \* the number of the phase
    created,      \* workers pthread_create has been called for
    joined,       \* workers that have been joined
    second,       \* current_sec
    sampled,      \* workers whose throughput was added this second
    between,      \* the worker whose tput_history is still to be set, if any
    history,      \* tput_history
    shown,        \* history: what the figures of the seconds add up to
    running,      \* volatile bool running
    ready,        \* ready_threads, shared by the phases
    pc,           \* what each worker is at
    throughput,
    calls,        \* history: calls a worker has completed in this phase
    missed        \* history: running was cleared before a worker saw it set

samples == <<second, sampled, between, history, shown>>
mains   == <<main, phase, created, joined, samples, running>>
workers == <<ready, pc, throughput, calls>>
vars    == <<mains, workers, missed>>

Init ==
    /\ main = "create" /\ phase = 1
    /\ created = {} /\ joined = {} /\ second = 0 /\ sampled = {} /\ between = {}
    /\ history = [w \in Worker |-> 0] /\ shown = [w \in Worker |-> 0]
    /\ running = FALSE /\ ready = 0
    /\ pc = [w \in Worker |-> "none"]
    /\ throughput = [w \in Worker |-> 0]
    /\ calls = [w \in Worker |-> 0]
    /\ missed = FALSE

-----------------------------------------------------------------------------
(* main: run_benchmark. *)

\* The parameters are filled in, then the thread is created.
Create ==
    /\ main = "create"
    /\ \E w \in Worker \ created :
        /\ created' = created \cup {w}
        /\ throughput' = [throughput EXCEPT ![w] = 0]
        /\ calls' = [calls EXCEPT ![w] = 0]
        /\ pc' = [pc EXCEPT ![w] = "start"]
    /\ main' = IF created' = Worker THEN "wait" ELSE "create"
    /\ UNCHANGED <<phase, joined, samples, running, ready, missed>>

\* Fault for StartTogether: one ready worker is enough.
StartEarly ==
    /\ main = "wait" /\ ready > 0
    /\ running' = TRUE
    /\ main' = IF Phases[phase] = "window" THEN "sample" ELSE "join"
    /\ second' = 0
    /\ history' = [w \in Worker |-> 0] /\ shown' = [w \in Worker |-> 0]
    /\ UNCHANGED <<phase, created, joined, sampled, between, workers, missed>>

Start ==
    /\ main = "wait" /\ ready >= Cardinality(Worker)
    /\ running' = TRUE
    /\ main' = IF Phases[phase] = "window" THEN "sample" ELSE "join"
    /\ second' = 0
    /\ history' = [w \in Worker |-> 0] /\ shown' = [w \in Worker |-> 0]
    /\ UNCHANGED <<phase, created, joined, sampled, between, workers, missed>>

\* Every second the throughput of each worker is read, while they go on.
Sample ==
    /\ main = "sample" /\ second < Seconds /\ between = {}
    /\ \E w \in Worker \ sampled :
        /\ shown' = [shown EXCEPT ![w] = @ + throughput[w] - history[w]]
        /\ between' = {w}
    /\ UNCHANGED <<main, phase, created, joined, second, sampled, history, running, workers, missed>>

\* It is read once more for tput_history: what was counted in between is in no
\* figure.
Remember ==
    /\ \E w \in between :
        /\ history' = [history EXCEPT ![w] = throughput[w]]
        /\ IF sampled \cup {w} = Worker
           THEN second' = second + 1 /\ sampled' = {}
           ELSE sampled' = sampled \cup {w} /\ UNCHANGED second
    /\ between' = {}
    /\ UNCHANGED <<main, phase, created, joined, shown, running, workers, missed>>

Waiting(w) == pc[w] \in {"none", "start", "spin"}

Stop ==
    /\ main = "sample" /\ second = Seconds
    /\ running' = FALSE
    /\ missed' = (missed \/ \E w \in Worker : Waiting(w))
    /\ main' = "join"
    /\ UNCHANGED <<phase, created, joined, samples, workers>>

\* Fault for WorkersAreGone: one worker is joined and the others are forgotten.
JoinOne ==
    /\ main = "join"
    /\ \E w \in Worker : pc[w] = "exit"
    /\ joined' = Worker
    /\ main' = "report"
    /\ UNCHANGED <<phase, created, samples, running, workers, missed>>

Join ==
    /\ main = "join"
    /\ \E w \in Worker \ joined :
        /\ pc[w] = "exit"
        /\ joined' = joined \cup {w}
    /\ main' = IF joined' = Worker THEN "report" ELSE "join"
    /\ UNCHANGED <<phase, created, samples, running, workers, missed>>

\* The sum is reported.  The next phase clears running, but not ready_threads.
Report ==
    /\ main = "report"
    /\ IF phase < Len(Phases)
       THEN /\ main' = "create" /\ phase' = phase + 1
            /\ running' = FALSE
            /\ created' = {} /\ joined' = {}
            /\ pc' = [w \in Worker |-> "none"]
       ELSE /\ main' = "done"
            /\ UNCHANGED <<phase, running, created, joined, pc>>
    /\ UNCHANGED <<samples, ready, throughput, calls, missed>>

-----------------------------------------------------------------------------
(* Workers: run_fg, run_read. *)

GoTo(w, label) == pc' = [pc EXCEPT ![w] = label]

Ready(w) ==
    /\ pc[w] = "start"
    /\ ready' = ready + 1
    /\ GoTo(w, "spin")
    /\ UNCHANGED <<mains, throughput, calls, missed>>

\* while (!running);
Go(w) ==
    /\ pc[w] = "spin" /\ running
    /\ GoTo(w, "loop")
    /\ UNCHANGED <<mains, ready, throughput, calls, missed>>

More(w) == IF Phases[phase] = "window" THEN running ELSE calls[w] < Batch

\* A call of find, insert, update, remove or scan.
Call(w) ==
    /\ pc[w] = "loop" /\ More(w) /\ (Phases[phase] = "window" => calls[w] < MaxCalls)
    /\ calls' = [calls EXCEPT ![w] = @ + 1]
    /\ GoTo(w, "count")
    /\ UNCHANGED <<mains, ready, throughput, missed>>

\* Fault for ReportIsTrue: the last call of a window is not counted.
CountWhileRunning(w) ==
    /\ pc[w] = "count"
    /\ throughput' = [throughput EXCEPT ![w] = IF running THEN @ + 1 ELSE @]
    /\ GoTo(w, "loop")
    /\ UNCHANGED <<mains, ready, calls, missed>>

Count(w) ==
    /\ pc[w] = "count"
    /\ throughput' = [throughput EXCEPT ![w] = @ + 1]
    /\ GoTo(w, "loop")
    /\ UNCHANGED <<mains, ready, calls, missed>>

\* Fault for Finishes: a worker in a batch waits for running to be cleared.
ExitStopped(w) ==
    /\ pc[w] = "loop" /\ ~More(w) /\ ~running
    /\ GoTo(w, "exit")
    /\ UNCHANGED <<mains, ready, throughput, calls, missed>>

Exit(w) ==
    /\ pc[w] = "loop" /\ ~More(w)
    /\ GoTo(w, "exit")
    /\ UNCHANGED <<mains, ready, throughput, calls, missed>>

Main   == Create \/ Start \/ Sample \/ Remember \/ Stop \/ Join \/ Report
Work(w) == Ready(w) \/ Go(w) \/ Call(w) \/ Count(w) \/ Exit(w)
Next   == Main \/ \E w \in Worker : Work(w)
Spec   == Init /\ [][Next]_vars

\* Threads that run keep running.
Fairness == WF_vars(Main) /\ \A w \in Worker : WF_vars(Work(w))
FairSpec == Spec /\ Fairness

-----------------------------------------------------------------------------
(* Properties. *)

\* In the first phase no worker calls the index before all are ready.  In a
\* second one ready_threads still has the count of the first.
StartTogether ==
    phase = 1 /\ (\E w \in Worker : pc[w] \in {"loop", "count", "exit"})
        => \A w \in Worker : pc[w] \notin {"none", "start"}

\* When the parameters are used again, and when main deletes the index, no
\* worker is left that uses them.
WorkersAreGone ==
    main \in {"report", "done"} => \A w \in Worker : pc[w] = "exit"

\* What is reported is the number of calls made.  The difference taken every
\* second is never below zero, and the figures of the seconds count no call twice,
\* though a worker goes on between the two reads of its throughput.
ReportIsTrue ==
    /\ main = "report" => throughput = calls
    /\ main = "sample" => \A w \in Worker : history[w] <= throughput[w] /\ shown[w] <= throughput[w]

\* The driver ends, unless running was set and cleared without a worker seeing
\* it: that worker spins for ever and main never joins it.
Finishes == <>(main = "done" \/ missed)
=============================================================================
