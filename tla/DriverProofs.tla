---------------------------- MODULE DriverProofs ----------------------------
(***************************************************************************)
(* What holds of the drivers for any number of workers, calls and phases.  *)
(***************************************************************************)
EXTENDS Driver, FiniteSetTheorems, SequenceTheorems, TLAPS

Running(w) == pc[w] \in {"loop", "count", "exit"}
HasReported(w) == pc[w] \notin {"none", "start"}

TypeInv ==
    /\ main \in {"create", "wait", "sample", "join", "report", "done"}
    /\ phase \in 1 .. Len(Phases)
    /\ created \in SUBSET Worker /\ joined \in SUBSET Worker /\ sampled \in SUBSET Worker
    /\ between \in SUBSET Worker
    /\ second \in Nat /\ ready \in Nat
    /\ pc \in [Worker -> {"none", "start", "spin", "loop", "count", "exit"}]
    /\ history \in [Worker -> Nat] /\ shown \in [Worker -> Int]
    /\ throughput \in [Worker -> Nat] /\ calls \in [Worker -> Nat]

\* In the first phase ready_threads counts the workers that have reported; who
\* calls saw running set, and running is set when all have reported.
StartInv ==
    phase = 1 =>
        /\ ready = Cardinality({w \in Worker : HasReported(w)})
        /\ (\E w \in Worker : Running(w)) \/ running => \A w \in Worker : HasReported(w)
        /\ main \notin {"create", "wait"} => \A w \in Worker : HasReported(w)

\* Who is joined has left; a worker that is to be created does not run.
JoinInv ==
    /\ main = "create" => joined = {} /\ \A w \in Worker \ created : pc[w] = "none"
    /\ \A w \in joined : pc[w] = "exit"
    /\ main \in {"report", "done"} => joined = Worker

\* A call is counted after it was made, and shown at most once: what the figures
\* have of a worker is in its tput_history, once that is set again.
CountInv ==
    /\ \A w \in Worker : calls[w] = throughput[w] + (IF pc[w] = "count" THEN 1 ELSE 0)
    /\ main = "sample" => \A w \in Worker :
        /\ history[w] <= throughput[w] /\ shown[w] <= throughput[w]
        /\ w \notin between => shown[w] <= history[w]
    /\ between # {} => main = "sample" /\ second < Seconds
    /\ \A v, w \in between : v = w

IInv == TypeInv /\ StartInv /\ JoinInv /\ CountInv

LEMMA SomePhase == Len(Phases) \in Nat \ {0}
  BY PhaseAssumption, EmptySeq DEF PhaseAssumption

LEMMA InitIInv == Init => IInv
<1> SUFFICES ASSUME Init PROVE IInv
  OBVIOUS
<1>1. TypeInv
  BY SomePhase DEF Init, TypeInv
<1>2. StartInv
  <2>1. {w \in Worker : HasReported(w)} = {}
    BY DEF Init, HasReported
  <2>2. QED
    BY <2>1, FS_EmptySet DEF Init, StartInv, Running, HasReported
<1>3. JoinInv
  BY DEF Init, JoinInv
<1>4. CountInv
  BY DEF Init, CountInv
<1>5. QED
  BY <1>1, <1>2, <1>3, <1>4 DEF IInv

LEMMA TypeStep == TypeInv /\ [Next]_vars => TypeInv'
<1> SUFFICES ASSUME TypeInv, [Next]_vars PROVE TypeInv'
  OBVIOUS
<1> USE DEF TypeInv, mains, samples, workers, GoTo
<1>1. CASE Create
  BY <1>1 DEF Create
<1>2. CASE Start
  BY <1>2 DEF Start
<1>3. CASE Sample
  BY <1>3 DEF Sample
<1>r. CASE Remember
  <2>1. PICK w \in Worker : /\ history' = [history EXCEPT ![w] = throughput[w]]
                            /\ sampled' \in {{}, sampled \cup {w}} /\ second' \in {second, second + 1}
    BY <1>r DEF Remember
  <2>2. between' = {} /\ UNCHANGED <<main, phase, created, joined, shown, workers>>
    BY <1>r DEF Remember
  <2>3. QED
    BY <2>1, <2>2
<1>4. CASE Stop
  BY <1>4 DEF Stop
<1>5. CASE Join
  BY <1>5 DEF Join
<1>6. CASE Report
  BY <1>6, SomePhase DEF Report
<1>7. ASSUME NEW w \in Worker, Work(w) PROVE TypeInv'
  <2>1. CASE Ready(w)
    BY <2>1 DEF Ready
  <2>2. CASE Go(w)
    BY <2>2 DEF Go
  <2>3. CASE Call(w)
    BY <2>3 DEF Call
  <2>4. CASE Count(w)
    BY <2>4 DEF Count
  <2>5. CASE Exit(w)
    BY <2>5 DEF Exit
  <2>6. QED
    BY <1>7, <2>1, <2>2, <2>3, <2>4, <2>5 DEF Work
<1>8. CASE UNCHANGED vars
  BY <1>8 DEF vars
<1>9. QED
  BY <1>1, <1>2, <1>3, <1>r, <1>4, <1>5, <1>6, <1>7, <1>8 DEF Next, Main

LEMMA StartStep == TypeInv /\ StartInv /\ JoinInv /\ [Next]_vars => StartInv'
<1> SUFFICES ASSUME TypeInv, StartInv, JoinInv, [Next]_vars, phase' = 1 PROVE StartInv'
  BY DEF StartInv
<1> USE DEF TypeInv, mains, samples, workers, GoTo, HasReported, Running
<1>p. phase = 1
  BY DEF Next, Main, Create, Start, Sample, Remember, Stop, Join, Report, Work, Ready, Go, Call,
         Count, Exit, vars
<1> DEFINE Reported == {w \in Worker : HasReported(w)}
<1>f. IsFiniteSet(Reported) /\ Reported \subseteq Worker
  BY WorkerAssumption, FS_Subset DEF WorkerAssumption
<1>1. CASE Create
  <2>1. PICK w \in Worker \ created : pc' = [pc EXCEPT ![w] = "start"]
    BY <1>1 DEF Create
  <2>2. pc[w] = "none" /\ main = "create"
    BY <1>1 DEF Create, JoinInv
  <2>3. Reported' = Reported /\ ~HasReported(w)
    BY <2>1, <2>2
  <2>4. UNCHANGED <<ready, running>> /\ main' \in {"create", "wait"}
    BY <1>1 DEF Create
  <2>5. ~running /\ \A v \in Worker : ~Running(v)'
    BY <2>1, <2>2, <2>3, <1>p DEF StartInv
  <2>6. QED
    BY <2>3, <2>4, <2>5, <1>p DEF StartInv
<1>2. CASE Start
  <2>1. Cardinality(Reported) = Cardinality(Worker)
    <3>1. Cardinality(Reported) <= Cardinality(Worker) /\ Cardinality(Worker) \in Nat
      BY <1>f, WorkerAssumption, FS_Subset, FS_CardinalityType DEF WorkerAssumption
    <3>2. ready = Cardinality(Reported) /\ ready >= Cardinality(Worker)
      BY <1>2, <1>p DEF Start, StartInv
    <3>3. QED
      BY <3>1, <3>2
  <2>2. Reported = Worker
    BY <2>1, <1>f, WorkerAssumption, FS_Subset
  <2>3. QED
    BY <1>2, <1>p, <2>2 DEF Start, StartInv
<1>3. CASE Sample \/ Remember
  BY <1>3, <1>p DEF Sample, Remember, StartInv
<1>4. CASE Stop
  BY <1>4, <1>p DEF Stop, StartInv
<1>5. CASE Join
  BY <1>5, <1>p DEF Join, StartInv
<1>6. CASE Report
  <2>1. UNCHANGED <<ready, pc, running>> /\ main = "report"
    BY <1>6, <1>p, SomePhase DEF Report
  <2>2. QED
    BY <2>1, <1>p DEF StartInv
<1>7. ASSUME NEW w \in Worker, Ready(w) PROVE StartInv'
  <2>1. Reported' = Reported \cup {w} /\ w \notin Reported
    BY <1>7 DEF Ready
  <2>2. Cardinality(Reported') = Cardinality(Reported) + 1
    BY <2>1, <1>f, FS_AddElement
  <2>3. QED
    BY <1>7, <1>p, <2>2 DEF Ready, StartInv
<1>8. ASSUME NEW w \in Worker, Go(w) \/ Call(w) \/ Count(w) \/ Exit(w) PROVE StartInv'
  <2>1. Reported' = Reported
    BY <1>8 DEF Go, Call, Count, Exit
  <2>2. UNCHANGED <<ready, running, main>> /\ \A v \in Worker : HasReported(v)
    BY <1>8, <1>p DEF Go, Call, Count, Exit, StartInv
  <2>3. \A v \in Worker : HasReported(v)'
    BY <2>1, <2>2
  <2>4. QED
    BY <2>1, <2>2, <2>3, <1>p DEF StartInv
<1>9. CASE UNCHANGED vars
  BY <1>9, <1>p DEF vars, StartInv
<1>10. QED
  BY <1>1, <1>2, <1>3, <1>4, <1>5, <1>6, <1>7, <1>8, <1>9 DEF Next, Main, Work

LEMMA JoinStep == TypeInv /\ JoinInv /\ [Next]_vars => JoinInv'
<1> SUFFICES ASSUME TypeInv, JoinInv, [Next]_vars PROVE JoinInv'
  OBVIOUS
<1> USE DEF TypeInv, JoinInv, mains, samples, workers, GoTo
<1>1. CASE Create
  BY <1>1, WorkerAssumption DEF WorkerAssumption, Create
<1>2. CASE Start \/ Sample \/ Remember \/ Stop
  BY <1>2 DEF Start, Sample, Remember, Stop
<1>3. CASE Join
  BY <1>3 DEF Join
<1>4. CASE Report
  BY <1>4 DEF Report
<1>5. ASSUME NEW w \in Worker, Work(w) PROVE JoinInv'
  BY <1>5 DEF Work, Ready, Go, Call, Count, Exit
<1>6. CASE UNCHANGED vars
  BY <1>6 DEF vars
<1>7. QED
  BY <1>1, <1>2, <1>3, <1>4, <1>5, <1>6 DEF Next, Main

LEMMA CountStep == TypeInv /\ JoinInv /\ CountInv /\ [Next]_vars => CountInv'
<1> SUFFICES ASSUME TypeInv, JoinInv, CountInv, [Next]_vars PROVE CountInv'
  OBVIOUS
<1> USE DEF TypeInv, CountInv, mains, samples, workers, GoTo
<1>1. CASE Create
  BY <1>1 DEF Create
<1>2. CASE Start
  BY <1>2 DEF Start
<1>3. CASE Sample
  <2>1. PICK w \in Worker : shown' = [shown EXCEPT ![w] = @ + throughput[w] - history[w]] /\ between' = {w}
    BY <1>3 DEF Sample
  <2>2. between = {} /\ main = "sample" /\ second < Seconds /\ UNCHANGED <<main, second, history, workers>>
    BY <1>3 DEF Sample
  <2>3. shown'[w] = shown[w] + throughput[w] - history[w] /\ shown[w] <= history[w]
    BY <2>1, <2>2
  <2>4. shown'[w] <= throughput[w]
    BY <2>3
  <2>5. \A v \in Worker : v # w => shown'[v] = shown[v] /\ shown[v] <= history[v]
    BY <2>1, <2>2
  <2>6. QED
    BY <2>1, <2>2, <2>4, <2>5
<1>r. CASE Remember
  <2>1. PICK w \in between : history' = [history EXCEPT ![w] = throughput[w]]
    BY <1>r DEF Remember
  <2>2. main = "sample" /\ between' = {} /\ UNCHANGED <<main, shown, workers>> /\ \A v \in between : v = w
    BY <1>r, <2>1 DEF Remember
  <2>3. \A v \in Worker : /\ history'[v] = IF v = w THEN throughput[v] ELSE history[v]
                          /\ v # w => shown[v] <= history[v]
    BY <2>1, <2>2
  <2>4. QED
    BY <2>2, <2>3
<1>4. CASE Stop \/ Join
  BY <1>4, BoundAssumption DEF Stop, Join, BoundAssumption
<1>5. CASE Report
  <2>1. \A w \in Worker : pc[w] # "count" /\ pc'[w] # "count"
    BY <1>5 DEF Report, JoinInv
  <2>2. UNCHANGED <<calls, throughput, between>> /\ main # "sample" /\ main' # "sample"
    BY <1>5 DEF Report
  <2>3. QED
    BY <2>1, <2>2
<1>6. ASSUME NEW w \in Worker, Work(w) PROVE CountInv'
  <2>1. CASE Ready(w)
    BY <2>1 DEF Ready
  <2>2. CASE Go(w)
    BY <2>2 DEF Go
  <2>3. CASE Call(w)
    BY <2>3 DEF Call
  <2>4. CASE Count(w)
    BY <2>4 DEF Count
  <2>5. CASE Exit(w)
    BY <2>5 DEF Exit
  <2>6. QED
    BY <1>6, <2>1, <2>2, <2>3, <2>4, <2>5 DEF Work
<1>7. CASE UNCHANGED vars
  BY <1>7 DEF vars
<1>8. QED
  BY <1>1, <1>2, <1>3, <1>r, <1>4, <1>5, <1>6, <1>7 DEF Next, Main

\* The invariant holds in every state of every run.
THEOREM Invariance == Spec => []IInv
<1>1. IInv /\ [Next]_vars => IInv'
  BY TypeStep, StartStep, JoinStep, CountStep DEF IInv
<1>2. QED
  BY InitIInv, <1>1, PTL DEF Spec

\* For any number of workers: in the first phase ready_threads reaches the
\* number of workers only when every one of them has reported, so none calls
\* the index before.
THEOREM WorkersStartTogether == Spec => []StartTogether
<1>1. IInv => StartTogether
  BY DEF IInv, StartInv, StartTogether, HasReported, Running
<1>2. QED
  BY <1>1, Invariance, PTL

\* For any number of workers and phases: whenever the parameters are used
\* again or the index is deleted, every worker has left.
THEOREM NoWorkerIsLeft == Spec => []WorkersAreGone
<1>1. IInv => WorkersAreGone
  BY DEF IInv, JoinInv, WorkersAreGone
<1>2. QED
  BY <1>1, Invariance, PTL

\* For any number of workers and calls: what is reported is what was called, the
\* difference of a second is never below zero, and the figures of the seconds
\* count no call twice, whatever is counted between the two reads of a sample.
THEOREM ReportsAreTrue == Spec => []ReportIsTrue
<1>1. IInv => ReportIsTrue
  <2> SUFFICES ASSUME IInv PROVE ReportIsTrue
    OBVIOUS
  <2>1. ASSUME main = "report" PROVE throughput = calls
    <3>1. \A w \in Worker : pc[w] = "exit" /\ throughput[w] \in Nat
      BY <2>1 DEF IInv, TypeInv, JoinInv
    <3>2. \A w \in Worker : calls[w] = throughput[w]
      BY <3>1 DEF IInv, CountInv
    <3>3. QED
      BY <3>2 DEF IInv, TypeInv
  <2>2. QED
    BY <2>1 DEF IInv, CountInv, ReportIsTrue
<1>2. QED
  BY <1>1, Invariance, PTL
=============================================================================
