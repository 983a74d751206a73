----------------------------- MODULE KtForpool -----------------------------
(***************************************************************************)
(* klib's kt_forpool: the threads of KtFor kept for many calls, between    *)
(* which they wait on a condition.  The caller writes the jobs and the     *)
(* orders of the threads without the mutex and then broadcasts.            *)
(***************************************************************************)
EXTENDS KtFor

CONSTANTS
    MaxCalls,   \* bound: calls of kt_forpool
    MaxWakes    \* bound: spurious wakeups, which POSIX allows

ForpoolAssumption == MaxCalls \in Nat /\ MaxWakes \in Nat

VARIABLES
    n_pending, action,
    mutex,      \* who holds it: a thread, Caller or None
    calls,      \* how many there were
    wakes

poolVars == <<n_pending, action, mutex, calls, wakes>>
all == <<vars, poolVars>>

Caller == -2

\* kt_forpool_init, when the threads are created; main.at is the caller's place.
PoolInit ==
    /\ n_threads \in ThreadCounts /\ n = 0
    /\ i = [t \in Threads |-> 0] /\ seen = [t \in Threads |-> Start]
    /\ pc = [t \in Threads |-> "lock"] /\ runs = [k \in Jobs |-> 0]
    /\ n_pending = n_threads /\ action = [t \in Threads |-> 0]
    /\ mutex = None /\ calls = 0 /\ wakes = 0
    /\ main = [at |-> "lock", set |-> 0]

-----------------------------------------------------------------------------
(* kt_fp_worker.                                                           *)

Woken(m) == IF m.at = "wait" THEN [m EXCEPT !.at = "woken"] ELSE m

\* The thread has no work: the last to say so signals cv_m.
Ready(t) ==
    /\ pc[t] = "lock" /\ mutex = None /\ mutex' = t
    /\ n_pending' = n_pending - 1
    /\ main' = IF n_pending' = 0 THEN Woken(main) ELSE main
    /\ action' = [action EXCEPT ![t] = 0]
    /\ pc' = [pc EXCEPT ![t] = "check"]
    /\ UNCHANGED <<forVars, calls, wakes>>

\* while (w->action == 0), and what the order is.
Check(t) ==
    /\ pc[t] = "check"
    /\ \/ /\ action[t] = 0 /\ pc' = [pc EXCEPT ![t] = "block"] /\ UNCHANGED mutex
       \/ /\ action[t] # 0 /\ mutex' = None
          /\ pc' = [pc EXCEPT ![t] = IF action[t] < 0 THEN "exit" ELSE "own"]
    /\ UNCHANGED <<forVars, main, n_pending, action, calls, wakes>>

\* pthread_cond_wait: a broadcast before this finds nobody.
Block(t) ==
    /\ pc[t] = "block" /\ pc' = [pc EXCEPT ![t] = "asleep"] /\ mutex' = None
    /\ UNCHANGED <<forVars, main, n_pending, action, calls, wakes>>

Wake(t) ==
    /\ pc[t] = "awake" /\ mutex = None /\ mutex' = t
    /\ pc' = [pc EXCEPT ![t] = "check"]
    /\ UNCHANGED <<forVars, main, n_pending, action, calls, wakes>>

\* Of a thread, or of the caller.
Spurious(t) ==
    /\ wakes < MaxWakes /\ wakes' = wakes + 1
    /\ \/ pc[t] = "asleep" /\ pc' = [pc EXCEPT ![t] = "awake"] /\ UNCHANGED main
       \/ main.at = "wait" /\ main' = Woken(main) /\ UNCHANGED pc
    /\ UNCHANGED <<forVars, n_pending, action, mutex, calls>>

\* The jobs, as in KtFor; when there are none left the thread is ready again.
Loop(t) == (Own(t) \/ Scan(t) \/ Take(t, "lock")) /\ UNCHANGED <<main, poolVars>>

-----------------------------------------------------------------------------
(* The caller.                                                             *)

Goto(place) == main' = [at |-> place, set |-> 0]

Broadcast == pc' = [t \in Threads |-> IF pc[t] = "asleep" THEN "awake" ELSE pc[t]]

\* Mutant: one thread more is pending than there are.
Begin_more ==
    /\ main.at = "idle" /\ calls < MaxCalls /\ calls' = calls + 1
    /\ n' \in JobCounts /\ runs' = [k \in 0..n'-1 |-> 0]
    /\ IF n_threads > 1 THEN n_pending' = n_threads + 1 /\ Goto("set")
       ELSE UNCHANGED n_pending /\ Goto("sequential")
    /\ UNCHANGED <<n_threads, i, seen, pc, action, mutex, wakes>>

\* kt_forpool with a number of jobs; the threads are told one by one.
Begin ==
    /\ main.at = "idle" /\ calls < MaxCalls /\ calls' = calls + 1
    /\ n' \in JobCounts /\ runs' = [k \in 0..n'-1 |-> 0]
    /\ IF n_threads > 1 THEN n_pending' = n_threads /\ Goto("set")
       ELSE UNCHANGED n_pending /\ Goto("sequential")
    /\ UNCHANGED <<n_threads, i, seen, pc, action, mutex, wakes>>

Set ==
    /\ main.at = "set" /\ main.set < n_threads
    /\ i' = [i EXCEPT ![main.set] = main.set]
    /\ action' = [action EXCEPT ![main.set] = 1]
    /\ main' = [main EXCEPT !.set = @ + 1]
    /\ UNCHANGED <<n_threads, n, seen, runs, pc, n_pending, mutex, calls, wakes>>

\* Under the mutex: broadcast, and wait while a thread is pending.
Tell ==
    /\ main.at = "set" /\ main.set = n_threads /\ mutex = None
    /\ Broadcast /\ Goto(IF n_pending = 0 THEN "idle" ELSE "wait")
    /\ UNCHANGED <<forVars, poolVars>>

\* kt_forpool_init begins to wait for the threads.
Await ==
    /\ main.at = "lock" /\ mutex = None
    /\ Goto(IF n_pending = 0 THEN "idle" ELSE "wait")
    /\ UNCHANGED <<forVars, pc, poolVars>>

\* The wait ends: kt_forpool, or kt_forpool_init, returns.
Return ==
    /\ main.at = "woken" /\ mutex = None
    /\ Goto(IF n_pending = 0 THEN "idle" ELSE "wait")
    /\ UNCHANGED <<forVars, pc, poolVars>>

\* A pool of one thread leaves the jobs to the caller.
OneThread ==
    /\ main.at = "sequential"
    /\ IF main.set < n THEN Call(main.set) /\ main' = [main EXCEPT !.set = @ + 1]
       ELSE Goto("idle") /\ UNCHANGED runs
    /\ UNCHANGED <<n_threads, n, i, seen, pc, poolVars>>

\* kt_forpool_destroy, without the mutex.
Destroy ==
    \/ /\ main.at = "idle" /\ Goto("destroy") /\ UNCHANGED <<pc, action>>
    \/ /\ main.at = "destroy" /\ main.set < n_threads
       /\ action' = [action EXCEPT ![main.set] = -1]
       /\ main' = [main EXCEPT !.set = @ + 1] /\ UNCHANGED pc
    \/ /\ main.at = "destroy" /\ main.set = n_threads
       /\ Broadcast /\ Goto("join") /\ UNCHANGED action
    \/ /\ main.at = "join" /\ \A t \in Threads : pc[t] = "exit"
       /\ Goto("end") /\ UNCHANGED <<pc, action>>

PoolMain ==
    \/ Begin \/ Set \/ Tell \/ Await \/ Return \/ OneThread
    \/ Destroy /\ UNCHANGED <<forVars, n_pending, mutex, calls, wakes>>

PoolWorker(t) == Ready(t) \/ Check(t) \/ Block(t) \/ Wake(t) \/ Loop(t)
PoolNext == PoolMain \/ \E t \in Threads : PoolWorker(t) \/ Spurious(t)

PoolSpec == PoolInit /\ [][PoolNext]_all /\ WF_all(PoolMain)
            /\ \A t \in 0..3 : WF_all(t \in Threads /\ PoolWorker(t))

-----------------------------------------------------------------------------
(* Properties.                                                             *)

\* Types; the threads a caller waits for are those that are not ready.
PoolTypeOK ==
    /\ i \in [Threads -> Nat] /\ runs \in [Jobs -> Nat]
    /\ action \in [Threads -> {-1, 0, 1}] /\ n_pending \in 0..n_threads
    /\ mutex \in Threads \cup {None}

\* When a call returns all its jobs are done.
Finished == main.at = "idle" /\ calls > 0 => \A k \in Jobs : runs[k] > 0

\* No thread is at work when no call is.
NoneLate ==
    main.at \in {"idle", "destroy", "join", "end"} =>
        \A t \in Threads : pc[t] \notin {"own", "scan"}
=============================================================================
