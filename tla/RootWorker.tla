----------------------------- MODULE RootWorker -----------------------------
(***************************************************************************)
(* One status request from git_handler_queue_git_status to the cleanup in  *)
(* after_git_root: the pool thread that runs git_root_worker, the threads  *)
(* of RUN_PARALLEL_TASKS, and a repository that other git processes change *)
(* meanwhile.                                                              *)
(*                                                                         *)
(* Task t writes the request's field out[t] and its own result rc[t], and  *)
(* nothing else; the table of tasks in git_root_worker pairs each task     *)
(* with one field.  What a task reads is the version of the repository at  *)
(* that moment.                                                            *)
(***************************************************************************)
EXTENDS Integers, Sequences

CONSTANTS
    N,              \* tasks, 19 in the build
    Gating,         \* tasks without whose result nothing is sent
    Streaming,      \* tasks that write their field as they go
    Lenient,        \* tasks that return 0 although something failed
    Forgotten,      \* tasks whose field the cleanup does not free
    MayNotStart,    \* tasks whose pthread_create may fail
    MaxVersion,     \* bound: changes other processes make
    Id, None

Tasks == 1..N

ASSUME TasksAssumption ==
    /\ N \in Nat /\ MaxVersion \in Nat
    /\ Gating \subseteq Tasks /\ Streaming \subseteq Tasks
    /\ Lenient \subseteq Tasks /\ MayNotStart \subseteq Tasks
    /\ Forgotten \subseteq Tasks
    /\ Id # None

VARIABLES
    pc,         \* where the request is: see Places
    next,       \* the loop variable of RUN_PARALLEL_TASKS
    thread,     \* state of each task's thread
    out,        \* what each task's field of the request holds
    rc,         \* parallel_task_t.result
    steps,      \* outcome of each step that runs after the tasks
    result,     \* git_root_req_T.result
    replies,    \* what the client has been sent
    version,    \* the repository, as a number of changes
    opened,     \* the version when the worker opened the repository
    seen,       \* the version each task read
    stepSeen    \* the version each later step read

request == <<pc, next, thread, out, rc, steps, result, replies>>
vars == <<request, version, opened, seen, stepSeen>>

\* "idle" on the loop thread, "queued" to "gate" on the pool thread, "returned"
\* on the loop thread again, "freed" the end; "hung" and "crashed" are what a
\* pthread_join of no thread may lead to.
Places == {"idle", "queued", "create", "join", "rev", "branch", "upstream",
           "subject", "gate", "returned", "freed", "hung", "crashed"}
Steps == {"rev", "branch", "upstream", "subject"}

Fields == {"garbage", "null", "empty", "part", "whole", "freed"}
ThreadStates == {"none", "started", "failed", "reading", "done", "joined"}
Running(t) == thread[t] \in {"started", "reading"}

\* The worker's place, and each task's thread, return code and field.
TypeOK ==
    /\ pc \in Places
    /\ next \in 1..(N + 1)
    /\ thread \in [Tasks -> ThreadStates]
    /\ out \in [Tasks -> Fields]
    /\ rc \in [Tasks -> {-1, 0}]
    /\ steps \in [Steps -> {"skipped", "failed", "ok"}]
    /\ result \in {-1, 0}
    /\ replies \in {<<>>, <<Id>>}
    /\ version \in 0..MaxVersion
    /\ opened \in 0..MaxVersion
    /\ seen \in [Tasks -> 0..MaxVersion]
    /\ stepSeen \in [Steps -> 0..MaxVersion]

Init ==
    /\ pc = "idle" /\ next = 1
    /\ thread = [t \in Tasks |-> "none"]
    /\ out = [t \in Tasks |-> "garbage"]
    /\ rc = [t \in Tasks |-> 0]
    /\ steps = [s \in Steps |-> "skipped"]
    /\ result = -1 /\ replies = <<>>
    /\ version = 0 /\ opened = 0
    /\ seen = [t \in Tasks |-> 0] /\ stepSeen = [s \in Steps |-> 0]

-----------------------------------------------------------------------------
(* The loop thread queues the request.                                     *)

\* Mutant: malloc.
QueueMalloc ==
    /\ pc = "idle"
    /\ pc' = "queued"
    /\ UNCHANGED <<out, result, next, thread, rc, steps, replies, version,
                   opened, seen, stepSeen>>

\* calloc: every field is NULL, and the result is -1 until all is well.
Queue ==
    /\ pc = "idle"
    /\ pc' = "queued"
    /\ out' = [t \in Tasks |-> "null"]
    /\ result' = -1
    /\ UNCHANGED <<next, thread, rc, steps, replies, version, opened, seen,
                   stepSeen>>

-----------------------------------------------------------------------------
(* The pool thread.                                                        *)

\* git_repository_open_ext fails: an early return with no field allocated.
OpenFails ==
    /\ pc = "queued"
    /\ pc' = "returned"
    /\ UNCHANGED <<next, thread, out, rc, steps, result, replies, version,
                   opened, seen, stepSeen>>

\* It succeeds: the fields of the tasks and the table of tasks are set up.
Open ==
    /\ pc = "queued"
    /\ pc' = "create" /\ next' = 1
    /\ out' = [t \in Tasks |-> "empty"]
    /\ rc' = [t \in Tasks |-> 0]
    /\ opened' = version
    /\ UNCHANGED <<thread, steps, result, replies, version, seen, stepSeen>>

\* pthread_create for the next task; what it returns is not looked at.
Create ==
    /\ pc = "create" /\ next <= N
    /\ \/ thread' = [thread EXCEPT ![next] = "started"]
       \/ next \in MayNotStart /\ thread' = [thread EXCEPT ![next] = "failed"]
    /\ next' = next + 1
    /\ UNCHANGED <<pc, out, rc, steps, result, replies, version, opened, seen,
                   stepSeen>>

CreateEnds ==
    /\ pc = "create" /\ next = N + 1
    /\ pc' = "join" /\ next' = 1
    /\ UNCHANGED <<thread, out, rc, steps, result, replies, version, opened,
                   seen, stepSeen>>

\* pthread_join waits for the thread of the next task.
Join ==
    /\ pc = "join" /\ next <= N
    /\ thread[next] = "done"
    /\ thread' = [thread EXCEPT ![next] = "joined"]
    /\ next' = next + 1
    /\ UNCHANGED <<pc, out, rc, steps, result, replies, version, opened, seen,
                   stepSeen>>

\* pthread_join of an uninitialised pthread_t: undefined.  It returns an error
\* nobody looks at, never returns, or brings the process down.
JoinNothing ==
    /\ pc = "join" /\ next <= N
    /\ thread[next] = "failed"
    /\ \/ next' = next + 1 /\ pc' = pc
       \/ next' = next /\ pc' \in {"hung", "crashed"}
    /\ UNCHANGED <<thread, out, rc, steps, result, replies, version, opened,
                   seen, stepSeen>>

\* Mutant: the last thread is not joined.
JoinEndsEarly ==
    /\ pc = "join" /\ next = N
    /\ pc' = "rev"
    /\ UNCHANGED <<next, thread, out, rc, steps, result, replies, version,
                   opened, seen, stepSeen>>

JoinEnds ==
    /\ pc = "join" /\ next = N + 1
    /\ pc' = "rev"
    /\ UNCHANGED <<next, thread, out, rc, steps, result, replies, version,
                   opened, seen, stepSeen>>

\* A step of the worker itself, on its own repository handle.
Step(s, to) ==
    /\ pc = s /\ pc' = to
    /\ \E o \in {"failed", "ok"} : steps' = [steps EXCEPT ![s] = o]
    /\ stepSeen' = [stepSeen EXCEPT ![s] = version]
    /\ UNCHANGED <<next, thread, out, rc, result, replies, version, opened, seen>>

\* A step whose input is missing is skipped.
Skip(s, to) ==
    /\ pc = s /\ pc' = to
    /\ UNCHANGED <<next, thread, out, rc, steps, result, replies, version,
                   opened, seen, stepSeen>>

RevHead == Step("rev", "branch")
Branch == Step("branch", "upstream")

\* Mutant: the lookup is made although there is no current branch.
UpstreamAlways == Step("upstream", "subject")

Upstream ==
    IF steps["branch"] = "ok" THEN Step("upstream", "subject")
                              ELSE Skip("upstream", "subject")
Subject ==
    IF steps["upstream"] = "ok" THEN Step("subject", "gate")
                                ELSE Skip("subject", "gate")

GateOpen(root) == /\ root /\ steps["rev"] = "ok"
                  /\ \A t \in Gating : rc[t] = 0

\* Mutant: the pool thread writes the response.
GateSends ==
    /\ pc = "gate"
    /\ pc' = "returned"
    /\ \E root \in BOOLEAN :
          /\ result' = IF GateOpen(root) THEN 0 ELSE result
          /\ replies' = IF GateOpen(root) THEN <<Id>> ELSE replies
    /\ UNCHANGED <<next, thread, out, rc, steps, version, opened, seen,
                   stepSeen>>

\* Mutant: the tasks' results are not part of the condition.
GateOnRevOnly ==
    /\ pc = "gate"
    /\ pc' = "returned"
    /\ \E root \in BOOLEAN :
          result' = IF root /\ steps["rev"] = "ok" THEN 0 ELSE result
    /\ UNCHANGED <<next, thread, out, rc, steps, replies, version, opened,
                   seen, stepSeen>>

\* Only with a work tree, HEAD and every gating task is there a response.
Gate ==
    /\ pc = "gate"
    /\ pc' = "returned"
    /\ \E root \in BOOLEAN :
          result' = IF GateOpen(root) THEN 0 ELSE result
    /\ UNCHANGED <<next, thread, out, rc, steps, replies, version, opened,
                   seen, stepSeen>>

-----------------------------------------------------------------------------
(* parallel_task_runner, one thread per task.                              *)

\* The thread opens the repository; when that fails the task is not run.
TaskOpenFails(t) ==
    /\ thread[t] = "started"
    /\ thread' = [thread EXCEPT ![t] = "done"]
    /\ rc' = [rc EXCEPT ![t] = -1]
    /\ UNCHANGED <<pc, next, out, steps, result, replies, version, opened,
                   seen, stepSeen>>

TaskOpen(t) ==
    /\ thread[t] = "started"
    /\ thread' = [thread EXCEPT ![t] = "reading"]
    /\ seen' = [seen EXCEPT ![t] = version]
    /\ UNCHANGED <<pc, next, out, rc, steps, result, replies, version, opened,
                   stepSeen>>

\* get_log, get_branch_list, git_config_list_z and list_worktrees_porcelain
\* append record after record.
TaskWrites(t) ==
    /\ thread[t] = "reading" /\ t \in Streaming /\ out[t] = "empty"
    /\ out' = [out EXCEPT ![t] = "part"]
    /\ UNCHANGED <<pc, next, thread, rc, steps, result, replies, version,
                   opened, seen, stepSeen>>

\* The task returns: all of its field and 0; an error, with what it had
\* written; or 0 in spite of a part it skipped.
TaskReturns(t) ==
    /\ thread[t] = "reading"
    /\ thread' = [thread EXCEPT ![t] = "done"]
    /\ \/ out' = [out EXCEPT ![t] = "whole"] /\ rc' = [rc EXCEPT ![t] = 0]
       \/ out' = out /\ rc' = [rc EXCEPT ![t] = -1]
       \/ /\ t \in Lenient
          /\ out' = [out EXCEPT ![t] = "part"] /\ rc' = [rc EXCEPT ![t] = 0]
    /\ UNCHANGED <<pc, next, steps, result, replies, version, opened, seen,
                   stepSeen>>

-----------------------------------------------------------------------------
(* The loop thread again: after_git_root.                                  *)

Freed == [t \in Tasks |-> IF out[t] = "null" \/ t \in Forgotten
                          THEN out[t] ELSE "freed"]

\* Mutant: the early return of a failed result has no cleanup.
AfterFailsLeaks ==
    /\ pc = "returned" /\ result < 0
    /\ UNCHANGED vars

\* git_root_request_cleanup alone, for a failed result.
AfterFails ==
    /\ pc = "returned" /\ result < 0
    /\ pc' = "freed" /\ out' = Freed
    /\ UNCHANGED <<next, thread, rc, steps, result, replies, version, opened,
                   seen, stepSeen>>

\* msgpack_handler_send, then the cleanup.
AfterSends ==
    /\ pc = "returned" /\ result = 0
    /\ replies' = Append(replies, Id)
    /\ pc' = "freed" /\ out' = Freed
    /\ UNCHANGED <<next, thread, rc, steps, result, version, opened, seen,
                   stepSeen>>

-----------------------------------------------------------------------------
\* Another git process moves a ref or the index.
RepoChanges ==
    /\ version < MaxVersion
    /\ version' = version + 1
    /\ UNCHANGED <<request, opened, seen, stepSeen>>

Worker ==
    \/ OpenFails \/ Open \/ Create \/ CreateEnds
    \/ Join \/ JoinNothing \/ JoinEnds
    \/ RevHead \/ Branch \/ Upstream \/ Subject \/ Gate
Task(t) == TaskOpenFails(t) \/ TaskOpen(t) \/ TaskWrites(t) \/ TaskReturns(t)
After == AfterFails \/ AfterSends

\* The threads are part of the process.
Next ==
    \/ pc # "crashed" /\ (Queue \/ Worker \/ After \/ \E t \in Tasks : Task(t))
    \/ RepoChanges

Spec == Init /\ [][Next]_vars

\* The kernel schedules every thread, libuv calls after_git_root back, and
\* libgit2 returns.
FairSpec == /\ Spec
            /\ WF_vars(Worker) /\ WF_vars(After)
            /\ \A t \in Tasks : WF_vars(pc # "crashed" /\ Task(t))

-----------------------------------------------------------------------------
(* Properties.                                                             *)

\* From the end of RUN_PARALLEL_TASKS on the worker reads task results, and
\* after_git_root frees the fields: no thread of the request still runs then.
NoRace ==
    pc \in {"rev", "branch", "upstream", "subject", "gate", "returned", "freed"}
        => \A t \in Tasks : ~Running(t)

\* "cleanup must only ever see NULL or valid pointers in the fields it did not
\* get to": also when the worker returned before it allocated anything.
CleanupSeesValid ==
    pc = "returned" => \A t \in Tasks : out[t] \notin {"garbage", "freed"}

\* What a task that returns 0 has written: all that it has to say, or what a
\* lenient one left of it.
Complete(t) == {"whole"} \cup (IF t \in Lenient THEN {"part"} ELSE {})

\* "incomplete result, no response will be sent": a result that is sent is
\* complete for every gating task.
CompleteResult ==
    pc = "returned" /\ result = 0 => \A t \in Gating : out[t] \in Complete(t)

\* It is, but for the tasks whose pthread_create failed: their results say 0
\* from the start (RUN_PARALLEL_TASKS).
CompleteIfStarted ==
    pc = "returned" /\ result = 0 =>
        \A t \in Gating : thread[t] # "failed" => out[t] \in Complete(t)

\* Every read that went into a response was made after the worker opened the
\* repository and before its own read of HEAD, and those of the dependent steps
\* follow in order.  So a repository at rest between the two yields a response
\* all of one version, and no field is older than the request.
ReadsInWindow ==
    pc = "returned" /\ result = 0 =>
        /\ \A t \in Tasks : thread[t] = "joined" /\ rc[t] = 0
              => seen[t] \in opened..stepSeen["rev"]
        /\ stepSeen["rev"] <= stepSeen["branch"]
        /\ steps["upstream"] = "ok" => stepSeen["upstream"] >= stepSeen["branch"]
        /\ steps["subject"] = "ok" =>
              /\ steps["branch"] = "ok" /\ steps["upstream"] = "ok"
              /\ stepSeen["subject"] >= stepSeen["upstream"]

\* The request as its client sees it: one handle of the abstract service.
Service == INSTANCE StatusService WITH
    Handles <- {Id}, Ids <- {Id},
    phase <- IF pc = "crashed" THEN "down" ELSE "up",
    pending <- [h \in {Id} |-> IF pc \in {"idle", "freed"} THEN None ELSE Id]

\* git_handler_queue_git_status to after_git_root is one Submit that ends in
\* one Reply or one GiveUp, whatever the 19 threads do in between.
ServiceSpec == Service!Spec

\* The request is replied to or given up, whichever task, step or pthread_create
\* fails, unless pthread_join of no thread never returns.
ServiceProgress == [](pc # "hung") => Service!Progress
=============================================================================
