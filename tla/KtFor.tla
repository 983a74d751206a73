------------------------------- MODULE KtFor -------------------------------
(***************************************************************************)
(* klib's kt_for: n jobs dealt to n_threads threads, each with a counter   *)
(* of its own that grows by n_threads; a thread that has come to the end   *)
(* of its jobs steals from the counter it has seen to be the least, while  *)
(* the others go on.                                                       *)
(***************************************************************************)
EXTENDS Integers, FiniteSets

CONSTANTS
    ThreadCounts,   \* values of n_threads
    JobCounts       \* values of n

ForAssumption == ThreadCounts \subseteq Nat \ {0} /\ JobCounts \subseteq Nat

VARIABLES
    n_threads, n,
    i,          \* t->w[..].i
    seen,       \* of each thread: its scan of the counters in steal_work
    pc,         \* of each thread
    main,       \* of the caller: how many threads it has created, then joined
    runs        \* how often func was called for each job

forVars == <<n_threads, n, i, seen, runs>>
vars == <<forVars, pc, main>>

Threads == 0..n_threads-1
Jobs == 0..n-1
None == -1

Start == [at |-> 0, min |-> None, min_i |-> None]

Init ==
    /\ n_threads \in ThreadCounts /\ n \in JobCounts
    /\ i = [t \in Threads |-> t]
    /\ seen = [t \in Threads |-> Start]
    /\ pc = [t \in Threads |-> "none"]
    /\ main = [created |-> 0, joined |-> 0]
    /\ runs = [k \in Jobs |-> 0]

Call(k) == runs' = [runs EXCEPT ![k] = @ + 1]

\* A thread's own jobs: __sync_fetch_and_add.
Own(t) ==
    /\ pc[t] = "own" /\ i' = [i EXCEPT ![t] = @ + n_threads]
    /\ IF i[t] >= n THEN pc' = [pc EXCEPT ![t] = "scan"] /\ UNCHANGED runs
       ELSE Call(i[t]) /\ UNCHANGED pc
    /\ UNCHANGED <<n_threads, n, seen>>

\* min > t->w[i].i; min begins as LONG_MAX.
Less(q, t) == q.min = None \/ q.min > i[q.at]

\* steal_work reads the counters one after the other.
Scan(t) ==
    LET q == seen[t] IN
    /\ pc[t] = "scan" /\ q.at < n_threads
    /\ seen' = [seen EXCEPT ![t] =
            IF Less(q, t) THEN [at |-> q.at + 1, min |-> i[q.at], min_i |-> q.at]
            ELSE [q EXCEPT !.at = @ + 1]]
    /\ UNCHANGED <<n_threads, n, i, pc, runs>>

\* Mutant: the job is the one that was seen.
Stolen_seen(t) == seen[t].min

\* The job is the one the counter has come to in the meantime.
Stolen(t) == i[seen[t].min_i]
Counter(t) == i[seen[t].min_i] + n_threads

\* __sync_fetch_and_add on the counter that was the least; a thread that gets
\* no job goes on to last, even if there are jobs left elsewhere.
Take(t, last) ==
    /\ pc[t] = "scan" /\ seen[t].at = n_threads
    /\ i' = [i EXCEPT ![seen[t].min_i] = Counter(t)]
    /\ seen' = [seen EXCEPT ![t] = Start]
    /\ IF Stolen(t) >= n THEN pc' = [pc EXCEPT ![t] = last] /\ UNCHANGED runs
       ELSE Call(Stolen(t)) /\ UNCHANGED pc
    /\ UNCHANGED <<n_threads, n>>

\* kt_for's pthread_create and pthread_join, in order.
Create ==
    LET t == main.created IN
    /\ n_threads > 1 /\ t < n_threads
    /\ pc' = [pc EXCEPT ![t] = "own"] /\ main' = [main EXCEPT !.created = t + 1]
    /\ UNCHANGED forVars

Join ==
    /\ n_threads > 1 /\ main.created = n_threads /\ main.joined < n_threads
    /\ pc[main.joined] = "exit" /\ main' = [main EXCEPT !.joined = @ + 1]
    /\ UNCHANGED <<forVars, pc>>

\* One thread: the caller does all jobs itself.
Sequential ==
    /\ n_threads = 1 /\ main.joined = 0
    /\ IF i[0] < n THEN Call(i[0]) /\ i' = [i EXCEPT ![0] = @ + 1] /\ UNCHANGED main
       ELSE main' = [main EXCEPT !.joined = 1] /\ UNCHANGED <<i, runs>>
    /\ UNCHANGED <<n_threads, n, seen, pc>>

Worker(t) == (Own(t) \/ Scan(t) \/ Take(t, "exit")) /\ UNCHANGED main
Main == Create \/ Join \/ Sequential
Next == Main \/ \E t \in Threads : Worker(t)

\* Every thread goes on running.
Spec == Init /\ [][Next]_vars /\ WF_vars(Main)
        /\ \A t \in 0..3 : WF_vars(t \in Threads /\ Worker(t))

-----------------------------------------------------------------------------
(* Properties.                                                             *)

\* Types; the counter to steal from is always one there is.
TypeOK ==
    /\ i \in [Threads -> Nat] /\ runs \in [Jobs -> Nat]
    /\ \A t \in Threads :
          /\ seen[t].at \in 0..n_threads
          /\ seen[t].at > 0 => seen[t].min_i \in 0..seen[t].at - 1

\* No job is done twice, however the thefts interleave.
Once == \A k \in Jobs : runs[k] <= 1

\* kt_for returns when all jobs are done, though a thread stops stealing at the
\* first counter that has run out.
AllRun == main.joined = n_threads => \A k \in Jobs : runs[k] = 1
=============================================================================
