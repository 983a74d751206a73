-------------------------- MODULE RootWorkerProofs --------------------------
(***************************************************************************)
(* Proofs about RootWorker, for any number of tasks and any choice of      *)
(* which gate, stream, are lenient, forgotten or fail to start.            *)
(***************************************************************************)
EXTENDS RootWorker, TLAPS

USE DEF Places, Steps, Fields, ThreadStates, Tasks

TypeControl == /\ pc \in Places /\ next \in 1..(N + 1)
               /\ result \in {-1, 0} /\ replies \in {<<>>, <<Id>>}
TypeTasks == /\ thread \in [Tasks -> ThreadStates] /\ out \in [Tasks -> Fields]
             /\ rc \in [Tasks -> {-1, 0}]
TypeReads == /\ steps \in [Steps -> {"skipped", "failed", "ok"}]
             /\ version \in 0..MaxVersion /\ opened \in 0..MaxVersion
             /\ seen \in [Tasks -> 0..MaxVersion]
             /\ stepSeen \in [Steps -> 0..MaxVersion]
Typed == TypeControl /\ TypeTasks /\ TypeReads

\* The type invariant, in three parts.
LEMMA TypedIsTypeOK == Typed <=> TypeOK
BY DEF Typed, TypeControl, TypeTasks, TypeReads, TypeOK

\* The types hold at first.
LEMMA InitTyped == Init => Typed
BY TasksAssumption DEF Init, Typed, TypeControl, TypeTasks, TypeReads

\* The result and the response are written at the end.
NotYet == /\ pc \notin {"returned", "freed"} => result = -1
          /\ pc # "freed" => replies = <<>>

\* Nothing is written at first.
LEMMA InitNotYet == Init => NotYet
BY DEF Init, NotYet

\* Only git_root_worker's end writes result and only after_git_root replies.
LEMMA NextNotYet == NotYet /\ [Next]_vars => NotYet'
<1> SUFFICES ASSUME NotYet, [Next]_vars PROVE NotYet'
  OBVIOUS
<1>1. CASE Queue \/ OpenFails \/ Open \/ Create \/ CreateEnds
  BY <1>1 DEF Queue, OpenFails, Open, Create, CreateEnds, NotYet
<1>2. CASE Join \/ JoinNothing \/ JoinEnds
  BY <1>2 DEF Join, JoinNothing, JoinEnds, NotYet
<1>3. CASE RevHead \/ Branch \/ Upstream \/ Subject
  BY <1>3 DEF RevHead, Branch, Upstream, Subject, Step, Skip, NotYet
<1>4. CASE Gate \/ After
  BY <1>4 DEF Gate, After, AfterFails, AfterSends, NotYet
<1>5. ASSUME NEW t \in Tasks, Task(t) PROVE NotYet'
  BY <1>5 DEF Task, TaskOpenFails, TaskOpen, TaskWrites, TaskReturns, NotYet
<1>6. CASE RepoChanges \/ UNCHANGED vars
  BY <1>6 DEF RepoChanges, vars, request, NotYet
<1> QED BY <1>1, <1>2, <1>3, <1>4, <1>5, <1>6 DEF Next, Worker

\* A dependent step writes its own outcome and the version it read.
LEMMA StepTyped ==
    ASSUME Typed, NEW s \in Steps, NEW to \in Places, Step(s, to)
    PROVE  Typed'
<1>1. PICK o \in {"failed", "ok"} : steps' = [steps EXCEPT ![s] = o]
  BY DEF Step
<1>2. steps' \in [Steps -> {"skipped", "failed", "ok"}]
  BY <1>1 DEF Typed, TypeReads
<1>3. stepSeen' \in [Steps -> 0..MaxVersion]
  BY DEF Step, Typed, TypeReads
<1>4. TypeReads'
  BY <1>2, <1>3 DEF Step, Typed, TypeReads
<1>5. TypeControl' /\ TypeTasks'
  BY DEF Step, Typed, TypeControl, TypeTasks
<1> QED BY <1>4, <1>5 DEF Typed

\* Every action keeps the variables in their ranges.
LEMMA NextTyped == Typed /\ NotYet /\ [Next]_vars => Typed'
<1> SUFFICES ASSUME Typed, NotYet, [Next]_vars PROVE Typed'
  OBVIOUS
<1> USE TasksAssumption DEF Typed
<1>1. CASE Queue
  BY <1>1 DEF Queue, TypeControl, TypeTasks, TypeReads
<1>2. CASE OpenFails
  BY <1>2 DEF OpenFails, TypeControl, TypeTasks, TypeReads
<1>15. CASE Open
  <2>1. TypeControl' /\ TypeReads'
    BY <1>15 DEF Open, TypeControl, TypeReads
  <2>2. TypeTasks'
    BY <1>15 DEF Open, TypeTasks
  <2> QED BY <2>1, <2>2
<1>3. CASE Create
  <2>1. next \in Tasks
    BY <1>3 DEF Create, TypeControl
  <2>2. TypeControl' /\ TypeReads'
    BY <1>3, <2>1 DEF Create, TypeControl, TypeReads
  <2>3. TypeTasks'
    BY <1>3, <2>1 DEF Create, TypeTasks
  <2> QED BY <2>2, <2>3
<1>4. CASE CreateEnds
  BY <1>4 DEF CreateEnds, TypeControl, TypeTasks, TypeReads
<1>5. CASE Join
  <2>1. next \in Tasks
    BY <1>5 DEF Join, TypeControl
  <2> QED BY <1>5, <2>1 DEF Join, TypeControl, TypeTasks, TypeReads
<1>6. CASE JoinNothing
  BY <1>6 DEF JoinNothing, TypeControl, TypeTasks, TypeReads
<1>7. CASE JoinEnds
  BY <1>7 DEF JoinEnds, TypeControl, TypeTasks, TypeReads
<1>8. CASE RevHead \/ Branch
  <2>1. PICK s \in Steps, to \in Places : Step(s, to)
    BY <1>8 DEF RevHead, Branch
  <2> QED BY <2>1, StepTyped
<1>9. CASE Upstream \/ Subject
  <2>1. PICK s \in Steps, to \in Places : Step(s, to) \/ Skip(s, to)
    BY <1>9 DEF Upstream, Subject
  <2>2. CASE Step(s, to)
    BY <2>2, StepTyped
  <2>3. CASE Skip(s, to)
    BY <2>3 DEF Skip, TypeControl, TypeTasks, TypeReads
  <2> QED BY <2>1, <2>2, <2>3
<1>10. CASE Gate
  BY <1>10 DEF Gate, TypeControl, TypeTasks, TypeReads
<1>11. CASE After
  <2>1. Freed \in [Tasks -> Fields]
    BY DEF Freed, TypeTasks
  <2>2. TypeTasks' /\ TypeReads'
    BY <1>11, <2>1 DEF After, AfterFails, AfterSends, TypeTasks, TypeReads
  <2>3. replies' \in {<<>>, <<Id>>}
    <3>1. replies = <<>>
      BY <1>11 DEF After, AfterFails, AfterSends, NotYet
    <3>2. replies' = replies \/ replies' = Append(replies, Id)
      BY <1>11 DEF After, AfterFails, AfterSends
    <3>3. Append(<<>>, Id) = <<Id>>
      OBVIOUS
    <3> QED BY <3>1, <3>2, <3>3
  <2>4. TypeControl'
    <3>1. pc' = "freed" /\ next' = next /\ result' = result
      BY <1>11 DEF After, AfterFails, AfterSends
    <3> QED BY <2>3, <3>1 DEF TypeControl
  <2> QED BY <2>2, <2>4
<1>12. ASSUME NEW t \in Tasks, Task(t) PROVE Typed'
  <2>1. TypeControl'
    BY <1>12 DEF Task, TaskOpenFails, TaskOpen, TaskWrites, TaskReturns,
       TypeControl
  <2>2. TypeReads'
    BY <1>12 DEF Task, TaskOpenFails, TaskOpen, TaskWrites, TaskReturns,
       TypeReads
  <2>3. ASSUME TaskOpenFails(t) PROVE TypeTasks'
    BY <2>3 DEF TaskOpenFails, TypeTasks
  <2>4. ASSUME TaskOpen(t) PROVE TypeTasks'
    BY <2>4 DEF TaskOpen, TypeTasks
  <2>5. ASSUME TaskWrites(t) PROVE TypeTasks'
    BY <2>5 DEF TaskWrites, TypeTasks
  <2>6. ASSUME TaskReturns(t) PROVE TypeTasks'
    <3>1. thread' \in [Tasks -> ThreadStates]
      BY <2>6 DEF TaskReturns, TypeTasks
    <3>2. out' \in [Tasks -> Fields]
      BY <2>6 DEF TaskReturns, TypeTasks
    <3>3. rc' \in [Tasks -> {-1, 0}]
      BY <2>6 DEF TaskReturns, TypeTasks
    <3> QED BY <3>1, <3>2, <3>3 DEF TypeTasks
  <2>7. TypeTasks'
    BY <1>12, <2>3, <2>4, <2>5, <2>6 DEF Task
  <2> QED BY <2>1, <2>2, <2>7
<1>13. CASE RepoChanges
  BY <1>13 DEF RepoChanges, request, TypeControl, TypeTasks, TypeReads
<1>14. CASE UNCHANGED vars
  BY <1>14 DEF vars, request, TypeControl, TypeTasks, TypeReads
<1> QED BY <1>1, <1>2, <1>3, <1>4, <1>5, <1>6, <1>7, <1>8, <1>9, <1>10, <1>11,
           <1>12, <1>13, <1>14, <1>15 DEF Next, Worker

-----------------------------------------------------------------------------
(***************************************************************************)
(* Where the request is tells which threads there can be.                  *)
(***************************************************************************)
Ended == {"joined", "failed"}
OnThread == {"rev", "branch", "upstream", "subject", "gate"}

ThreadsBefore ==
    /\ pc \in {"idle", "queued"} => \A t \in Tasks : thread[t] = "none"
    /\ pc = "create" => \A t \in Tasks : t >= next <=> thread[t] = "none"
ThreadsJoining ==
    pc = "join" => \A t \in Tasks : /\ thread[t] # "none"
                                    /\ t < next => thread[t] \in Ended
ThreadsAfter ==
    /\ pc \in OnThread => \A t \in Tasks : thread[t] \in Ended
    /\ pc \in {"returned", "freed"} =>
          \/ \A t \in Tasks : thread[t] \in Ended
          \/ result = -1 /\ \A t \in Tasks : thread[t] = "none"
FailedMay == \A t \in Tasks : thread[t] = "failed" => t \in MayNotStart
Threads == ThreadsBefore /\ ThreadsJoining /\ ThreadsAfter /\ FailedMay

\* There is no thread at first.
LEMMA InitThreads == Init => Threads
BY DEF Init, Threads, ThreadsBefore, ThreadsJoining, ThreadsAfter, FailedMay,
   OnThread

\* A thread runs only while the worker creates or joins, or hangs.
LEMMA RunsWhen ==
    ASSUME Threads, NEW t \in Tasks, Running(t)
    PROVE  pc \notin OnThread \cup {"idle", "queued", "returned", "freed"}
BY DEF Threads, ThreadsBefore, ThreadsAfter, Running, Ended

\* A task's step is a step of a thread that runs.
LEMMA TaskRuns == ASSUME NEW t \in Tasks, Task(t) PROVE Running(t)
BY DEF Task, TaskOpenFails, TaskOpen, TaskWrites, TaskReturns, Running

\* RUN_PARALLEL_TASKS: threads are created in order and all joined.
LEMMA NextThreads == Typed /\ NotYet /\ Threads /\ [Next]_vars => Threads'
<1> SUFFICES ASSUME Typed, NotYet, Threads, [Next]_vars PROVE Threads'
  OBVIOUS
<1> USE TasksAssumption DEF Typed, TypeControl, TypeTasks, Threads, Ended, OnThread
<1>1. CASE Queue
  BY <1>1 DEF Queue, ThreadsBefore, ThreadsJoining, ThreadsAfter, FailedMay
<1>12. CASE OpenFails
  <2>1. \A t \in Tasks : thread'[t] = "none"
    BY <1>12 DEF OpenFails, ThreadsBefore
  <2>2. thread' = thread /\ pc' = "returned"
    BY <1>12 DEF OpenFails
  <2>3. result' = -1
    BY <1>12 DEF OpenFails, NotYet
  <2> QED BY <2>1, <2>2, <2>3 DEF ThreadsBefore, ThreadsJoining, ThreadsAfter,
             FailedMay
<1>2. CASE Open
  BY <1>2 DEF Open, ThreadsBefore, ThreadsJoining, ThreadsAfter, FailedMay
<1>3. CASE Create
  <2>1. next \in Tasks /\ next' = next + 1 /\ pc' = pc /\ pc = "create"
    BY <1>3 DEF Create
  <2>2. thread'[next] \in {"started", "failed"}
    BY <1>3, <2>1 DEF Create
  <2>3. \A t \in Tasks : t # next => thread'[t] = thread[t]
    BY <1>3 DEF Create
  <2>4. thread'[next] = "failed" => next \in MayNotStart
    BY <1>3, <2>1 DEF Create
  <2> QED BY <2>1, <2>2, <2>3, <2>4 DEF ThreadsBefore, ThreadsJoining,
             ThreadsAfter, FailedMay
<1>4. CASE CreateEnds
  BY <1>4 DEF CreateEnds, ThreadsBefore, ThreadsJoining, ThreadsAfter, FailedMay
<1>5. CASE Join
  <2>1. next \in Tasks /\ next' = next + 1 /\ pc' = pc /\ pc = "join"
    BY <1>5 DEF Join
  <2>2. thread'[next] = "joined"
    BY <1>5, <2>1 DEF Join
  <2>3. \A t \in Tasks : t # next => thread'[t] = thread[t]
    BY <1>5 DEF Join
  <2> QED BY <2>1, <2>2, <2>3 DEF ThreadsBefore, ThreadsJoining, ThreadsAfter,
             FailedMay
<1>6. CASE JoinNothing
  BY <1>6 DEF JoinNothing, ThreadsBefore, ThreadsJoining, ThreadsAfter, FailedMay
<1>7. CASE JoinEnds
  BY <1>7 DEF JoinEnds, ThreadsBefore, ThreadsJoining, ThreadsAfter, FailedMay
<1>8. CASE RevHead \/ Branch \/ Upstream \/ Subject
  BY <1>8 DEF RevHead, Branch, Upstream, Subject, Step, Skip, ThreadsBefore,
     ThreadsJoining, ThreadsAfter, FailedMay
<1>9. CASE Gate \/ After
  BY <1>9 DEF Gate, After, AfterFails, AfterSends, ThreadsBefore,
     ThreadsJoining, ThreadsAfter, FailedMay
<1>10. ASSUME NEW t \in Tasks, Task(t) PROVE Threads'
  <2>1. pc \notin OnThread \cup {"idle", "queued", "returned", "freed"}
    BY <1>10, TaskRuns, RunsWhen
  <2>2. pc' = pc /\ next' = next
    BY <1>10 DEF Task, TaskOpenFails, TaskOpen, TaskWrites, TaskReturns
  <2>3. Running(t) /\ thread'[t] \in {"reading", "done"}
    BY <1>10, TaskRuns DEF Task, TaskOpenFails, TaskOpen, TaskWrites, TaskReturns
  <2>4. \A u \in Tasks : u # t => thread'[u] = thread[u]
    BY <1>10 DEF Task, TaskOpenFails, TaskOpen, TaskWrites, TaskReturns
  <2> QED BY <2>1, <2>2, <2>3, <2>4 DEF ThreadsBefore, ThreadsJoining,
             ThreadsAfter, FailedMay, Running
<1>11. CASE RepoChanges \/ UNCHANGED vars
  BY <1>11 DEF RepoChanges, vars, request, ThreadsBefore, ThreadsJoining,
     ThreadsAfter, FailedMay
<1> QED BY <1>1, <1>2, <1>3, <1>4, <1>5, <1>6, <1>7, <1>8, <1>9, <1>10, <1>11,
           <1>12 DEF Next, Worker

-----------------------------------------------------------------------------
(***************************************************************************)
(* The fields of the request, and what a good return code says of them.    *)
(***************************************************************************)
Pointers == pc \notin {"idle", "freed"} =>
               \A t \in Tasks : out[t] \notin {"garbage", "freed"}
Answers == pc # "freed" =>
              \A t \in Tasks : thread[t] \in {"done", "joined"} /\ rc[t] = 0
                 => out[t] \in Complete(t)
Gated == pc = "returned" /\ result = 0 => \A t \in Gating : rc[t] = 0

IInv == Typed /\ NotYet /\ Threads /\ Pointers /\ Answers /\ Gated

\* The invariant holds at first.
LEMMA InitIInv == Init => IInv
BY InitTyped, InitNotYet, InitThreads
   DEF Init, IInv, Pointers, Answers, Gated

\* A task writes its own field and code, and returns 0 only with its field
\* complete.
LEMMA TaskFields ==
    ASSUME IInv, NEW t \in Tasks, Task(t)
    PROVE  Pointers' /\ Answers' /\ Gated'
<1> USE TasksAssumption DEF IInv
<1>1. pc \notin {"idle", "returned", "freed"} /\ pc' = pc
  BY TaskRuns, RunsWhen
     DEF Task, TaskOpenFails, TaskOpen, TaskWrites, TaskReturns
<1>2. \A u \in Tasks : u # t => /\ out'[u] = out[u] /\ rc'[u] = rc[u]
                                /\ thread'[u] = thread[u]
  BY DEF Task, TaskOpenFails, TaskOpen, TaskWrites, TaskReturns, Typed, TypeTasks
<1>3. out'[t] \in {out[t], "part", "whole"}
  BY DEF Task, TaskOpenFails, TaskOpen, TaskWrites, TaskReturns, Typed, TypeTasks
<1>4. thread'[t] \in {"done", "joined"} /\ rc'[t] = 0 => out'[t] \in Complete(t)
  <2>1. CASE TaskOpenFails(t)
    BY <2>1 DEF TaskOpenFails, Typed, TypeTasks
  <2>2. CASE TaskOpen(t) \/ TaskWrites(t)
    BY <2>2 DEF TaskOpen, TaskWrites, Typed, TypeTasks
  <2>3. CASE TaskReturns(t)
    BY <2>3 DEF TaskReturns, Typed, TypeTasks, Complete
  <2> QED BY <2>1, <2>2, <2>3 DEF Task
<1>5. Pointers'
  BY <1>1, <1>2, <1>3 DEF Pointers
<1>6. Answers'
  BY <1>1, <1>2, <1>4 DEF Answers
<1> QED BY <1>1, <1>5, <1>6 DEF Gated

\* Every step of the worker, of a task or of the repository keeps it.
LEMMA NextIInv == IInv /\ [Next]_vars => IInv'
<1> SUFFICES ASSUME IInv, [Next]_vars PROVE IInv'
  OBVIOUS
<1> USE TasksAssumption DEF IInv
<1>0. Typed' /\ NotYet' /\ Threads'
  BY NextTyped, NextNotYet, NextThreads
<1>1. CASE Queue
  <2>1. \A t \in Tasks : thread'[t] = "none" /\ out'[t] = "null"
    BY <1>1 DEF Queue, Threads, ThreadsBefore
  <2> QED BY <1>0, <1>1, <2>1 DEF Queue, Pointers, Answers, Gated
<1>2. CASE OpenFails
  <2>1. result' = -1
    BY <1>2 DEF OpenFails, NotYet
  <2> QED BY <1>0, <1>2, <2>1 DEF OpenFails, Pointers, Answers, Gated
<1>3. CASE Open
  <2>1. \A t \in Tasks : thread'[t] = "none" /\ out'[t] = "empty"
    BY <1>3 DEF Open, Threads, ThreadsBefore
  <2> QED BY <1>0, <1>3, <2>1 DEF Open, Pointers, Answers, Gated
<1>4. CASE Create
  <2>1. \A t \in Tasks : thread'[t] \in {thread[t], "started", "failed"}
    BY <1>4 DEF Create, Typed, TypeTasks
  <2> QED BY <1>0, <1>4, <2>1 DEF Create, Pointers, Answers, Gated
<1>5. CASE CreateEnds \/ JoinEnds \/ JoinNothing
  BY <1>0, <1>5 DEF CreateEnds, JoinEnds, JoinNothing, Pointers, Answers, Gated
<1>6. CASE Join
  <2>1. \A t \in Tasks : thread'[t] \in {"done", "joined"}
                           => thread[t] \in {"done", "joined"}
    BY <1>6 DEF Join, Typed, TypeTasks
  <2> QED BY <1>0, <1>6, <2>1 DEF Join, Pointers, Answers, Gated
<1>7. CASE RevHead \/ Branch \/ Upstream \/ Subject
  BY <1>0, <1>7 DEF RevHead, Branch, Upstream, Subject, Step, Skip, Pointers,
     Answers, Gated
<1>8. CASE Gate
  BY <1>0, <1>8 DEF Gate, GateOpen, Pointers, Answers, Gated, NotYet
<1>9. CASE After
  BY <1>0, <1>9 DEF After, AfterFails, AfterSends, Pointers, Answers, Gated
<1>10. ASSUME NEW t \in Tasks, Task(t) PROVE IInv'
  BY <1>0, <1>10, TaskFields
<1>11. CASE RepoChanges \/ UNCHANGED vars
  BY <1>0, <1>11 DEF RepoChanges, vars, request, Pointers, Answers, Gated
<1> QED BY <1>1, <1>2, <1>3, <1>4, <1>5, <1>6, <1>7, <1>8, <1>9, <1>10, <1>11
           DEF Next, Worker

\* Hence it always holds.
LEMMA IInvHolds == Spec => []IInv
BY InitIInv, NextIInv, PTL DEF Spec

\* The worker's variables stay in their types, for any number of tasks.
THEOREM Types == Spec => []TypeOK
<1>1. IInv => TypeOK
  BY TypedIsTypeOK DEF IInv
<1> QED BY <1>1, IInvHolds, PTL

\* parallel_task_runner has ended wherever its results are read or freed, for
\* any tasks, and whether or not their threads can be created.
THEOREM Joined == Spec => []NoRace
<1>1. IInv => NoRace
  BY RunsWhen DEF IInv, NoRace, OnThread
<1> QED BY <1>1, IInvHolds, PTL

\* git_root_request_cleanup frees no field that was not initialised.
THEOREM CleanupSafe == Spec => []CleanupSeesValid
<1>1. IInv => CleanupSeesValid
  BY DEF IInv, Pointers, CleanupSeesValid
<1> QED BY <1>1, IInvHolds, PTL

\* A response that is sent is complete for every gating task whose thread was
\* created (the gate of git_root_worker).
THEOREM Full == Spec => []CompleteIfStarted
<1>1. IInv => CompleteIfStarted
  <2> SUFFICES ASSUME IInv, pc = "returned", result = 0,
                      NEW t \in Gating, thread[t] # "failed"
               PROVE  out[t] \in Complete(t)
    BY DEF CompleteIfStarted
  <2>1. t \in Tasks /\ rc[t] = 0
    BY TasksAssumption DEF IInv, Gated
  <2>2. thread[t] = "joined"
    BY <2>1 DEF IInv, Threads, ThreadsAfter, Ended
  <2> QED BY <2>1, <2>2 DEF IInv, Answers
<1> QED BY <1>1, IInvHolds, PTL

\* So if every thread can be created it is complete: RUN_PARALLEL_TASKS is the
\* only way to an incomplete one.
THEOREM FullIfAllStart ==
    ASSUME MayNotStart = {}
    PROVE  Spec => []CompleteResult
<1>1. IInv => CompleteResult
  <2> SUFFICES ASSUME IInv, pc = "returned", result = 0, NEW t \in Gating
               PROVE  out[t] \in Complete(t)
    BY DEF CompleteResult
  <2>1. t \in Tasks /\ rc[t] = 0
    BY TasksAssumption DEF IInv, Gated
  <2>2. thread[t] = "joined"
    BY <2>1 DEF IInv, Threads, ThreadsAfter, FailedMay, Ended
  <2> QED BY <2>1, <2>2 DEF IInv, Answers
<1> QED BY <1>1, IInvHolds, PTL

-----------------------------------------------------------------------------
(***************************************************************************)
(* When things were read.                                                  *)
(***************************************************************************)
\* Task t has read, and its answer may be used.
HasRead(t) == \/ thread[t] = "reading"
              \/ thread[t] \in {"done", "joined"} /\ rc[t] = 0
GoodEnd == pc = "returned" /\ result = 0

OpenedBefore ==
    /\ opened <= version
    /\ pc \notin {"idle", "queued", "freed"} =>
          \A t \in Tasks : HasRead(t) => seen[t] \in opened..version
RevWindow == pc \in {"branch", "upstream", "subject", "gate"} \/ GoodEnd =>
    /\ stepSeen["rev"] <= version
    /\ \A t \in Tasks : HasRead(t) => seen[t] <= stepSeen["rev"]
BranchWindow == pc \in {"upstream", "subject", "gate"} \/ GoodEnd =>
    stepSeen["rev"] <= stepSeen["branch"] /\ stepSeen["branch"] <= version
\* A step that has not been reached is still "skipped".
UpstreamWindow ==
    /\ pc \notin {"subject", "gate", "returned", "freed"} =>
          steps["upstream"] = "skipped"
    /\ pc \in {"subject", "gate"} \/ GoodEnd =>
          (steps["upstream"] = "ok" =>
             /\ steps["branch"] = "ok" /\ stepSeen["upstream"] <= version
             /\ stepSeen["branch"] <= stepSeen["upstream"])
SubjectWindow ==
    /\ pc \notin {"gate", "returned", "freed"} => steps["subject"] = "skipped"
    /\ pc = "gate" \/ GoodEnd =>
          (steps["subject"] = "ok" =>
             /\ steps["upstream"] = "ok"
             /\ stepSeen["upstream"] <= stepSeen["subject"])
Windows == /\ OpenedBefore /\ RevWindow /\ BranchWindow
           /\ UpstreamWindow /\ SubjectWindow

\* Nothing is read at first.
LEMMA InitWindows == Init => Windows
BY DEF Init, Windows, OpenedBefore, RevWindow, BranchWindow, UpstreamWindow,
   SubjectWindow, GoodEnd

\* A dependent step changes what it read and its outcome, nothing before it.
LEMMA StepWindows ==
    ASSUME IInv, Windows, NEW s \in Steps, NEW to \in Places, Step(s, to)
    PROVE  /\ stepSeen'[s] = version
           /\ \A r \in Steps : r # s => /\ steps'[r] = steps[r]
                                        /\ stepSeen'[r] = stepSeen[r]
           /\ \A t \in Tasks : HasRead(t)' = HasRead(t)
           /\ pc = s /\ pc' = to /\ seen' = seen /\ opened' = opened
           /\ version' = version
BY DEF Step, HasRead, IInv, Typed, TypeReads

\* Each read is of the present version, which never gets less.
LEMMA NextWindows == IInv /\ Windows /\ [Next]_vars => Windows'
<1> SUFFICES ASSUME IInv, Windows, [Next]_vars PROVE Windows'
  OBVIOUS
<1>t. /\ version \in Nat /\ opened \in Nat
      /\ \A t \in Tasks : seen[t] \in Nat
      /\ \A s \in Steps : stepSeen[s] \in Nat
  BY TasksAssumption DEF IInv, Typed, TypeReads
<1>1. CASE Queue
  BY <1>1 DEF Queue, Windows, OpenedBefore, RevWindow, BranchWindow,
     UpstreamWindow, SubjectWindow, GoodEnd
<1>13. CASE OpenFails
  <2>1. \A t \in Tasks : ~HasRead(t)'
    BY <1>13 DEF OpenFails, IInv, Threads, ThreadsBefore, HasRead
  <2>2. result' = -1
    BY <1>13 DEF OpenFails, IInv, NotYet
  <2> QED BY <1>13, <2>1, <2>2 DEF OpenFails, Windows, OpenedBefore, RevWindow,
             BranchWindow, UpstreamWindow, SubjectWindow, GoodEnd
<1>2. CASE Open
  <2>1. \A t \in Tasks : ~HasRead(t)'
    BY <1>2 DEF Open, IInv, Threads, ThreadsBefore, HasRead
  <2> QED BY <1>2, <1>t, <2>1 DEF Open, Windows, OpenedBefore, RevWindow,
             BranchWindow, UpstreamWindow, SubjectWindow, GoodEnd
<1>3. CASE Create \/ CreateEnds \/ Join \/ JoinNothing \/ JoinEnds
  <2>1. \A t \in Tasks : HasRead(t)' => HasRead(t)
    BY <1>3 DEF Create, CreateEnds, Join, JoinNothing, JoinEnds, HasRead, IInv,
       Typed, TypeTasks
  <2>2. pc \in {"create", "join"} /\ pc' \in {"create", "join", "hung",
                                            "crashed", "rev"}
    BY <1>3 DEF Create, CreateEnds, Join, JoinNothing, JoinEnds
  <2>3. UNCHANGED <<seen, opened, version, steps, stepSeen, result>>
    BY <1>3 DEF Create, CreateEnds, Join, JoinNothing, JoinEnds
  <2> QED BY <2>1, <2>2, <2>3 DEF Windows, OpenedBefore, RevWindow,
             BranchWindow, UpstreamWindow, SubjectWindow, GoodEnd
<1>4. CASE RevHead
  <2>1. Step("rev", "branch")
    BY <1>4 DEF RevHead
  <2> QED BY <1>t, <2>1, StepWindows DEF Windows, OpenedBefore, RevWindow,
             BranchWindow, UpstreamWindow, SubjectWindow, GoodEnd
<1>5. CASE Branch
  <2>1. Step("branch", "upstream")
    BY <1>5 DEF Branch
  <2> QED BY <1>t, <2>1, StepWindows DEF Windows, OpenedBefore, RevWindow,
             BranchWindow, UpstreamWindow, SubjectWindow, GoodEnd
<1>6. CASE Upstream
  <2>1. CASE Step("upstream", "subject") /\ steps["branch"] = "ok"
    BY <1>t, <2>1, StepWindows DEF Windows, OpenedBefore, RevWindow,
       BranchWindow, UpstreamWindow, SubjectWindow, GoodEnd
  <2>2. CASE Skip("upstream", "subject")
    BY <2>2 DEF Skip, Windows, OpenedBefore, RevWindow, BranchWindow,
       UpstreamWindow, SubjectWindow, GoodEnd, HasRead
  <2> QED BY <1>6, <2>1, <2>2 DEF Upstream
<1>7. CASE Subject
  <2>1. CASE Step("subject", "gate") /\ steps["upstream"] = "ok"
    BY <1>t, <2>1, StepWindows DEF Windows, OpenedBefore, RevWindow,
       BranchWindow, UpstreamWindow, SubjectWindow, GoodEnd
  <2>2. CASE Skip("subject", "gate")
    BY <2>2 DEF Skip, Windows, OpenedBefore, RevWindow, BranchWindow,
       UpstreamWindow, SubjectWindow, GoodEnd, HasRead
  <2> QED BY <1>7, <2>1, <2>2 DEF Subject
<1>8. CASE Gate
  BY <1>8 DEF Gate, Windows, OpenedBefore, RevWindow, BranchWindow,
     UpstreamWindow, SubjectWindow, GoodEnd, HasRead
<1>9. CASE After
  BY <1>9 DEF After, AfterFails, AfterSends, Windows, OpenedBefore, RevWindow,
     BranchWindow, UpstreamWindow, SubjectWindow, GoodEnd
<1>10. ASSUME NEW t \in Tasks, Task(t) PROVE Windows'
  <2>1. pc \notin OnThread \cup {"idle", "queued", "returned", "freed"}
    BY <1>10, TaskRuns, RunsWhen DEF IInv
  <2>2. UNCHANGED <<pc, opened, version, steps, stepSeen, result>>
    BY <1>10 DEF Task, TaskOpenFails, TaskOpen, TaskWrites, TaskReturns
  <2>3. \A u \in Tasks : u # t => seen'[u] = seen[u] /\ HasRead(u)' = HasRead(u)
    BY <1>10 DEF Task, TaskOpenFails, TaskOpen, TaskWrites, TaskReturns,
       HasRead, IInv, Typed, TypeTasks, TypeReads
  <2>4. HasRead(t)' => \/ seen'[t] = version
                       \/ HasRead(t) /\ seen'[t] = seen[t]
    <3>1. CASE TaskOpenFails(t)
      BY <3>1 DEF TaskOpenFails, HasRead, IInv, Typed, TypeTasks
    <3>2. CASE TaskOpen(t)
      <4>1. seen' = [seen EXCEPT ![t] = version]
        BY <3>2 DEF TaskOpen
      <4>2. seen'[t] = version
        BY <4>1 DEF IInv, Typed, TypeReads
      <4> QED BY <4>2
    <3>3. CASE TaskWrites(t) \/ TaskReturns(t)
      BY <3>3 DEF TaskWrites, TaskReturns, HasRead
    <3> QED BY <1>10, <3>1, <3>2, <3>3 DEF Task
  <2> QED BY <1>t, <2>1, <2>2, <2>3, <2>4 DEF Windows, OpenedBefore, RevWindow,
             BranchWindow, UpstreamWindow, SubjectWindow, GoodEnd, OnThread
<1>11. CASE RepoChanges
  BY <1>11, <1>t DEF RepoChanges, request, Windows, OpenedBefore, RevWindow,
     BranchWindow, UpstreamWindow, SubjectWindow, GoodEnd, HasRead
<1>12. CASE UNCHANGED vars
  BY <1>12 DEF vars, request, Windows, OpenedBefore, RevWindow, BranchWindow,
     UpstreamWindow, SubjectWindow, GoodEnd, HasRead
<1> QED BY <1>1, <1>2, <1>3, <1>4, <1>5, <1>6, <1>7, <1>8, <1>9, <1>10, <1>11,
           <1>12, <1>13 DEF Next, Worker

\* Whatever other git processes do meanwhile, what a response reports was read
\* between the opening of the repository and the reading of HEAD.
THEOREM Fresh == Spec => []ReadsInWindow
<1>1. IInv /\ Windows => ReadsInWindow
  BY DEF IInv, Typed, TypeReads, Windows, OpenedBefore, RevWindow,
     BranchWindow, UpstreamWindow, SubjectWindow, GoodEnd, HasRead, ReadsInWindow
<1> QED BY <1>1, InitWindows, NextWindows, InitIInv, NextIInv, PTL DEF Spec

-----------------------------------------------------------------------------
\* The worker and its tasks implement one request of the service.
THEOREM Refines == Spec => ServiceSpec
<1> DEFINE phase == IF pc = "crashed" THEN "down" ELSE "up"
           stands == IF pc \in {"idle", "freed"} THEN None ELSE Id
           pending == [h \in {Id} |-> stands]
<1>1. Init => Service!Init
  BY DEF Init, Service!Init
<1>2. IInv /\ [Next]_vars => [Service!Next]_(Service!vars)
  <2> SUFFICES ASSUME IInv, [Next]_vars
               PROVE  Service!Next \/ UNCHANGED Service!vars
    OBVIOUS
  <2>1. CASE UNCHANGED <<phase, stands, replies>>
    BY <2>1 DEF Service!vars
  <2>2. CASE Queue
    <3>1. phase = "up" /\ phase' = "up" /\ replies' = replies
      BY <2>2 DEF Queue
    <3>2. pending = [h \in {Id} |-> None] /\ pending' = [h \in {Id} |-> Id]
      BY <2>2 DEF Queue
    <3>3. Service!Submit(Id, Id)
      BY <3>1, <3>2 DEF Service!Submit
    <3> QED BY <3>3 DEF Service!Next
  <2>3. CASE OpenFails \/ Open \/ Create \/ CreateEnds \/ Join \/ JoinEnds
    BY <2>1, <2>3 DEF OpenFails, Open, Create, CreateEnds, Join, JoinEnds
  <2>4. CASE JoinNothing
    <3>1. pc = "join" /\ pc' \in {"join", "hung", "crashed"} /\ replies' = replies
      BY <2>4 DEF JoinNothing
    <3>2. CASE pc' = "crashed"
      <4>1. phase = "up" /\ phase' = "down" /\ pending' = pending
        BY <3>1, <3>2
      <4>2. Service!Halt
        BY <3>1, <4>1 DEF Service!Halt
      <4> QED BY <4>2 DEF Service!Next
    <3> QED BY <2>1, <3>1, <3>2
  <2>5. CASE RevHead \/ Branch \/ Upstream \/ Subject \/ Gate
    BY <2>1, <2>5 DEF RevHead, Branch, Upstream, Subject, Gate, Step, Skip
  <2>6. CASE After
    <3>1. pc = "returned" /\ pc' = "freed"
      BY <2>6 DEF After, AfterFails, AfterSends
    <3>2. phase = "up" /\ phase' = "up"
      BY <3>1
    <3>3. pending = [h \in {Id} |-> Id] /\ pending' = [h \in {Id} |-> None]
      BY <3>1
    <3>4. pending[Id] # None /\ pending' = [pending EXCEPT ![Id] = None]
      BY <3>3, TasksAssumption
    <3>5. CASE AfterSends
      <4>1. Service!Reply(Id)
        BY <3>2, <3>3, <3>4, <3>5 DEF AfterSends, Service!Reply
      <4> QED BY <4>1 DEF Service!Next
    <3>6. CASE AfterFails
      <4>1. Service!GiveUp(Id)
        BY <3>2, <3>4, <3>6 DEF AfterFails, Service!GiveUp
      <4> QED BY <4>1 DEF Service!Next
    <3> QED BY <2>6, <3>5, <3>6 DEF After
  <2>7. CASE \E t \in Tasks : Task(t)
    BY <2>1, <2>7 DEF Task, TaskOpenFails, TaskOpen, TaskWrites, TaskReturns
  <2>8. CASE RepoChanges \/ UNCHANGED vars
    BY <2>1, <2>8 DEF RepoChanges, vars, request
  <2> QED BY <2>2, <2>3, <2>4, <2>5, <2>6, <2>7, <2>8 DEF Next, Worker
<1> QED BY <1>1, <1>2, IInvHolds, PTL DEF Spec, ServiceSpec, Service!Spec
=============================================================================
