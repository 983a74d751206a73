----------------------------- MODULE KtPipeline -----------------------------
(***************************************************************************)
(* klib's kt_pipeline: n_threads workers take batches of data through      *)
(* n_steps steps.  A worker carries its batch from step to step, starts a  *)
(* step only when no batch before its own is at that step or an earlier    *)
(* one, and goes back to the first step with a new index.                  *)
(* The function of the steps is the caller's: it may return NULL at any    *)
(* step, which ends the worker except at the last one.                     *)
(***************************************************************************)
EXTENDS Integers

CONSTANTS
    n_threads,  \* kt_pipeline makes it at least 1
    n_steps,
    MaxBatches, \* bound: batches that the first step returns
    MaxWakes,   \* bound: spurious wakeups
    Drops       \* whether a later step may return NULL

PipelineAssumption ==
    /\ n_threads \in Nat \ {0} /\ n_steps \in Nat \ {0}
    /\ MaxBatches \in Nat /\ MaxWakes \in Nat /\ Drops \in BOOLEAN

Workers == 0..n_threads-1
Steps == 0..n_steps-1
NULL == 0

VARIABLES
    step,       \* w->step, n_steps when the worker is done
    index,      \* w->index
    data,       \* w->data: the number of the batch, or NULL
    next,       \* p->index
    mutex,      \* the worker that holds it, or NoWorker
    pc,         \* where the worker is: see TypeOK
    batches,    \* batches that the first step has returned
    begun,      \* of each step: the greatest index that has begun it, or -1
    passed,     \* of each step: the last batch it was done for, or NULL
    wakes       \* spurious wakeups

vars == <<step, index, data, next, mutex, pc, batches, begun, passed, wakes>>

NoWorker == -1

Init ==
    /\ step = [w \in Workers |-> 0]
    /\ index = [w \in Workers |-> w]
    /\ data = [w \in Workers |-> NULL]
    /\ next = n_threads
    /\ mutex = NoWorker
    /\ pc = [w \in Workers |-> "top"]
    /\ batches = 0
    /\ begun = [s \in Steps |-> -1]
    /\ passed = [s \in Steps |-> NULL]
    /\ wakes = 0

\* pthread_mutex_lock on the way into the tests, or after the work.
Lock(w) ==
    /\ mutex = NoWorker /\ mutex' = w
    /\ \/ pc[w] = "top" /\ step[w] < n_steps /\ pc' = [pc EXCEPT ![w] = "test"]
       \/ pc[w] = "worked" /\ pc' = [pc EXCEPT ![w] = "update"]
    /\ UNCHANGED <<step, index, data, next, batches, begun, passed, wakes>>

\* Mutant: only earlier steps are waited for.
Ahead_before(w, v) == step[v] < step[w] /\ index[v] < index[w]

\* Worker v has a batch before w's and has not got past w's step.
Ahead(w, v) == step[v] <= step[w] /\ index[v] < index[w]

\* The tests, under the mutex; pthread_cond_wait gives it back.
Test(w) ==
    /\ pc[w] = "test" /\ mutex = w /\ mutex' = NoWorker
    /\ IF \E v \in Workers \ {w} : Ahead(w, v)
         THEN pc' = [pc EXCEPT ![w] = "wait"] /\ UNCHANGED begun
         ELSE pc' = [pc EXCEPT ![w] = "work"] /\ begun' = [begun EXCEPT ![step[w]] = index[w]]
    /\ UNCHANGED <<step, index, data, next, batches, passed, wakes>>

\* pthread_cond_wait returns, after a broadcast or for no reason.
Wake(w) ==
    /\ pc[w] = "woken" /\ mutex = NoWorker /\ mutex' = w
    /\ pc' = [pc EXCEPT ![w] = "test"]
    /\ UNCHANGED <<step, index, data, next, batches, begun, passed, wakes>>

Spurious(w) ==
    /\ pc[w] = "wait" /\ pc' = [pc EXCEPT ![w] = "woken"]
    /\ wakes < MaxWakes /\ wakes' = wakes + 1
    /\ UNCHANGED <<step, index, data, next, mutex, batches, begun, passed>>

\* p->func: the first step reads the next batch until there are no more.
Work(w) ==
    /\ pc[w] = "work" /\ pc' = [pc EXCEPT ![w] = "worked"]
    /\ \/ /\ step[w] = 0 /\ batches < MaxBatches
          /\ batches' = batches + 1 /\ data' = [data EXCEPT ![w] = batches + 1]
          /\ passed' = [passed EXCEPT ![0] = batches + 1]
       \/ /\ step[w] = 0 /\ batches = MaxBatches
          /\ data' = [data EXCEPT ![w] = NULL] /\ UNCHANGED <<batches, passed>>
       \/ /\ step[w] > 0
          /\ passed' = [passed EXCEPT ![step[w]] = data[w]]
          /\ \/ UNCHANGED data
             \/ (Drops \/ step[w] = n_steps - 1) /\ data' = [data EXCEPT ![w] = NULL]
          /\ UNCHANGED batches
    /\ UNCHANGED <<step, index, next, mutex, begun, wakes>>

\* A worker that starts over takes the next index.
NextIndex(w, s) == IF s = 0 THEN next ELSE index[w]

\* Mutant: only the batch that ends lets the others know.
Broadcast_last(w) ==
    [v \in Workers |->
        IF v = w THEN "top"
        ELSE IF pc[v] = "wait" /\ step[w] = n_steps - 1 THEN "woken" ELSE pc[v]]

\* pthread_cond_broadcast, and on to the loop's condition.
Broadcast(w) ==
    [v \in Workers |-> IF v = w THEN "top" ELSE IF pc[v] = "wait" THEN "woken" ELSE pc[v]]

\* (w->step + 1) % n_steps, or n_steps for a worker whose batch is gone.
NextStep(w) ==
    IF step[w] = n_steps - 1 THEN 0
    ELSE IF data[w] # NULL THEN step[w] + 1 ELSE n_steps

\* Update step and let other workers know.
Update(w) ==
    LET s == NextStep(w) IN
    /\ pc[w] = "update" /\ mutex = w /\ mutex' = NoWorker
    /\ step' = [step EXCEPT ![w] = s]
    /\ index' = [index EXCEPT ![w] = NextIndex(w, s)]
    /\ next' = IF s = 0 THEN next + 1 ELSE next
    /\ pc' = Broadcast(w)
    /\ UNCHANGED <<data, batches, begun, passed, wakes>>

\* pthread_exit.
Exit(w) ==
    /\ pc[w] = "top" /\ step[w] = n_steps /\ pc' = [pc EXCEPT ![w] = "done"]
    /\ UNCHANGED <<step, index, data, next, mutex, batches, begun, passed, wakes>>

Step(w) == Lock(w) \/ Test(w) \/ Wake(w) \/ Work(w) \/ Update(w) \/ Exit(w)

Next == \E w \in Workers : Step(w) \/ Spurious(w)

\* Threads run; spurious wakeups are not relied on.
Spec == Init /\ [][Next]_vars /\ \A w \in Workers : WF_vars(Step(w))

-----------------------------------------------------------------------------
(* Properties.                                                             *)

\* Types; the index that is next is above those given out.
TypeOK ==
    /\ step \in [Workers -> 0..n_steps] /\ index \in [Workers -> Int]
    /\ next \in Nat /\ mutex \in Workers \cup {NoWorker}
    /\ pc \in [Workers -> {"top", "test", "wait", "woken", "work", "worked", "update", "done"}]
    /\ data \in [Workers -> Nat] /\ batches \in Nat /\ wakes \in Nat
    /\ begun \in [Steps -> Int] /\ passed \in [Steps -> Nat]
    /\ \A w \in Workers : index[w] < next

\* "test whether another worker is doing the same step": two workers are never
\* at work on one step, whatever the function does.
OneAtAStep ==
    \A w, v \in Workers :
        pc[w] = "work" /\ pc[v] = "work" /\ step[w] = step[v] => w = v

\* A step is begun for the batches in the order of their indices.
InOrder == \A s \in Steps : begun'[s] >= begun[s]

\* Each step is done for every batch, in the order in which the first returned
\* them: the output of the pipeline is in the order of its input.
NoneSkipped ==
    ~Drops => \A s \in Steps :
        passed'[s] # passed[s] => passed'[s] = passed[s] + 1

\* When the workers are joined all batches have gone through all steps.
AllPassed ==
    (\A w \in Workers : pc[w] = "done") /\ ~Drops =>
        batches = MaxBatches /\ \A s \in Steps : passed[s] = MaxBatches
=============================================================================
