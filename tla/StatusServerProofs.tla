------------------------- MODULE StatusServerProofs -------------------------
(***************************************************************************)
(* Proofs about StatusServer, for any frames, slots, pool threads and      *)
(* capacities.                                                             *)
(***************************************************************************)
EXTENDS StatusServer, FiniteSetTheorems, TLAPS

(***************************************************************************)
(* Queues of requests: what Append and Tail do to the requests on a queue. *)
(***************************************************************************)

\* After Append, as uv_queue_work and a finishing thread do, the queue holds
\* what it held and the new request.
LEMMA OnAppend ==
    ASSUME NEW S, NEW q \in Seq(S), NEW s \in S, NEW t
    PROVE  On(Append(q, s), t) <=> On(q, t) \/ t = s
<1>1. Len(Append(q, s)) = Len(q) + 1 /\ Append(q, s)[Len(q) + 1] = s
  OBVIOUS
<1>2. \A i \in 1..Len(q) : Append(q, s)[i] = q[i]
  OBVIOUS
<1>3. ASSUME On(Append(q, s), t) PROVE On(q, t) \/ t = s
  BY <1>1, <1>2, <1>3 DEF On
<1>4. ASSUME On(q, t) PROVE On(Append(q, s), t)
  <2>1. PICK i \in 1..Len(q) : q[i] = t
    BY <1>4 DEF On
  <2> QED BY <1>1, <1>2, <2>1 DEF On
<1>5. ASSUME t = s PROVE On(Append(q, s), t)
  BY <1>1, <1>5 DEF On
<1> QED BY <1>3, <1>4, <1>5

\* A queue that takes a request it does not hold still holds each once.
LEMMA OnceAppend ==
    ASSUME NEW S, NEW q \in Seq(S), NEW s \in S, Once(q), ~On(q, s)
    PROVE  Once(Append(q, s))
<1>1. Len(Append(q, s)) = Len(q) + 1 /\ Append(q, s)[Len(q) + 1] = s
  OBVIOUS
<1>2. \A i \in 1..Len(q) : Append(q, s)[i] = q[i]
  OBVIOUS
<1> QED BY <1>1, <1>2 DEF Once, On

\* The head of a queue is on it, and Tail removes it and nothing else.
LEMMA OnTail ==
    ASSUME NEW S, NEW q \in Seq(S), q # <<>>, Once(q)
    PROVE  /\ Head(q) \in S
           /\ Tail(q) \in Seq(S)
           /\ On(q, Head(q))
           /\ Once(Tail(q))
           /\ \A t : On(Tail(q), t) <=> On(q, t) /\ t # Head(q)
<1>1. /\ Len(q) \in Nat \ {0} /\ Head(q) = q[1]
      /\ Head(q) \in S /\ Tail(q) \in Seq(S)
      /\ Len(Tail(q)) = Len(q) - 1
  OBVIOUS
<1>2. \A i \in 1..(Len(q) - 1) : Tail(q)[i] = q[i + 1]
  OBVIOUS
<1>3. On(q, Head(q))
  BY <1>1 DEF On
<1>4. Once(Tail(q))
  BY <1>1, <1>2 DEF Once
<1>5. ASSUME NEW t, On(Tail(q), t) PROVE On(q, t) /\ t # Head(q)
  <2>1. PICK i \in 1..(Len(q) - 1) : q[i + 1] = t
    BY <1>1, <1>2, <1>5 DEF On
  <2>2. i + 1 \in 1..Len(q) /\ 1 \in 1..Len(q) /\ i + 1 # 1
    BY <1>1
  <2> QED BY <1>1, <2>1, <2>2 DEF On, Once
<1>6. ASSUME NEW t, On(q, t), t # Head(q) PROVE On(Tail(q), t)
  <2>1. PICK i \in 1..Len(q) : q[i] = t
    BY <1>6 DEF On
  <2>2. i # 1
    BY <1>1, <1>6, <2>1
  <2>3. i - 1 \in 1..(Len(q) - 1) /\ (i - 1) + 1 = i
    BY <1>1, <2>2
  <2>4. Tail(q)[i - 1] = t
    BY <1>2, <2>1, <2>3
  <2> QED BY <1>1, <2>3, <2>4 DEF On
<1> QED BY <1>1, <1>3, <1>4, <1>5, <1>6

-----------------------------------------------------------------------------
(***************************************************************************)
(* The inductive invariant.  TypeOK alone is not inductive: after_git_root *)
(* and a finishing thread reach a request through a queue, and that it is  *)
(* still allocated is what OneOwner says.                                  *)
(***************************************************************************)
IInv == TypeOK /\ OneOwner

\* The process starts with nothing allocated.
THEOREM InitIInv == Init => IInv
<1> SUFFICES ASSUME Init PROVE IInv
  OBVIOUS
<1>1. TypeProcess
  BY DEF Init, TypeProcess
<1>6. TypeFlags
  BY DEF Init, TypeFlags
<1>2. TypeClient
  BY BoundsAssumption DEF Init, TypeClient
<1>3. TypeWork
  BY DEF Init, TypeWork
<1>4. TypeHistory
  BY DEF Init, TypeHistory
<1>5. OneOwner
  <2>1. \A t : ~On(<<>>, t)
    BY DEF On
  <2>2. \A t \in Slots : ~Runs(t) /\ ~Live(t)
    BY NoneAssumption DEF Init, Runs, Live
  <2>3. QueuesOnce /\ RunOnce
    BY DEF Init, QueuesOnce, RunOnce, Once
  <2> QED BY <2>1, <2>2, <2>3 DEF Init, OneOwner, Apart, LiveIsHeld
<1> QED BY <1>1, <1>2, <1>3, <1>4, <1>5, <1>6 DEF IInv, TypeOK

\* A step that touches no request, queue or thread leaves the owners alone.
LEMMA OwnersUnchanged ==
    ASSUME OneOwner, UNCHANGED <<req, poolVars, afterq>>
    PROVE  OneOwner'
BY DEF OneOwner, QueuesOnce, RunOnce, Apart, LiveIsHeld, Live, On, Once, Runs,
       poolVars

\* git_handler_queue_git_status: the new request is on the work queue only.
LEMMA AcceptOwner ==
    ASSUME TypeOK, OneOwner, NEW s \in Slots, Accept(s)
    PROVE  OneOwner'
<1>1. /\ workq \in Seq(Slots) /\ req \in [Slots -> Request \cup {None}]
      /\ req[s] = None
      /\ req' = [req EXCEPT ![s] = [id |-> Head(batch).id, result |-> -1]]
      /\ workq' = Append(workq, s)
      /\ UNCHANGED <<running, doneq, afterq>>
  BY DEF TypeOK, TypeWork, Accept
<1>2. [id |-> Head(batch).id, result |-> -1] # None
  <2>1. Head(batch) \in Frames
    BY DEF TypeOK, TypeWork, Accept
  <2>2. [id |-> Head(batch).id, result |-> -1] \in Request
    BY <2>1 DEF Request, Ids
  <2> QED BY <2>2, NoneAssumption
<1>3. /\ ~On(workq, s) /\ ~On(doneq, s) /\ ~On(afterq, s) /\ ~Runs(s)
  BY <1>1 DEF OneOwner, LiveIsHeld, Live
<1>4. \A t : On(workq', t) <=> On(workq, t) \/ t = s
  BY <1>1, OnAppend
<1>5. Once(workq')
  BY <1>1, <1>3, OnceAppend DEF OneOwner, QueuesOnce
<1>6. QueuesOnce' /\ RunOnce'
  BY <1>1, <1>5 DEF OneOwner, QueuesOnce, RunOnce
<1>7. \A t : Runs(t)' <=> Runs(t)
  BY <1>1 DEF Runs
<1>8. Apart'
  BY <1>1, <1>3, <1>4, <1>7 DEF OneOwner, Apart
<1>9. LiveIsHeld'
  BY <1>1, <1>2, <1>4, <1>7 DEF OneOwner, LiveIsHeld, Live
<1> QED BY <1>6, <1>8, <1>9 DEF OneOwner

\* uv__work_done: the finished requests move together to the callbacks.
LEMMA CollectOwner ==
    ASSUME TypeOK, OneOwner, CollectDone
    PROVE  OneOwner'
<1>1. /\ afterq = <<>> /\ afterq' = doneq /\ doneq' = <<>>
      /\ UNCHANGED <<req, workq, running>>
  BY DEF CollectDone, Idle
<1>2. \A t : ~On(<<>>, t)
  BY DEF On
<1>3. Once(<<>>)
  BY DEF Once
<1>4. \A t : Runs(t)' <=> Runs(t)
  BY <1>1 DEF Runs
<1>5. QueuesOnce' /\ RunOnce'
  BY <1>1, <1>3 DEF OneOwner, QueuesOnce, RunOnce
<1>6. Apart'
  BY <1>1, <1>2, <1>4 DEF OneOwner, Apart
<1>7. LiveIsHeld'
  BY <1>1, <1>2, <1>4 DEF OneOwner, LiveIsHeld, Live
<1> QED BY <1>5, <1>6, <1>7 DEF OneOwner

\* after_git_root frees the request at the head of the callbacks, and only
\* that one, whether or not it sends a response.
LEMMA FreeOwner ==
    ASSUME TypeOK, OneOwner, afterq # <<>>, afterq' = Tail(afterq),
           req' = [req EXCEPT ![Head(afterq)] = None], UNCHANGED poolVars
    PROVE  OneOwner'
<1> DEFINE s == Head(afterq)
<1>1. afterq \in Seq(Slots) /\ req \in [Slots -> Request \cup {None}]
  BY DEF TypeOK, TypeWork
<1>2. /\ s \in Slots /\ On(afterq, s) /\ Once(afterq')
      /\ \A t : On(afterq', t) <=> On(afterq, t) /\ t # s
  BY <1>1, OnTail DEF OneOwner, QueuesOnce
<1>3. ~On(workq, s) /\ ~On(doneq, s) /\ ~Runs(s)
  BY <1>2 DEF OneOwner, Apart
<1>4. \A t : Runs(t)' <=> Runs(t)
  BY DEF Runs, poolVars
<1>5. QueuesOnce' /\ RunOnce'
  BY <1>2 DEF OneOwner, QueuesOnce, RunOnce, poolVars
<1>6. Apart'
  BY <1>2, <1>4 DEF OneOwner, Apart, poolVars
<1>7. \A t \in Slots : req'[t] # None <=> req[t] # None /\ t # s
  BY <1>1
<1>8. LiveIsHeld'
  BY <1>2, <1>3, <1>4, <1>7 DEF OneOwner, LiveIsHeld, Live, poolVars
<1> QED BY <1>5, <1>6, <1>8 DEF OneOwner

\* A pool thread takes the request at the head of the work queue.
LEMMA TakeOwner ==
    ASSUME TypeOK, OneOwner, NEW w \in Workers, WorkerTake(w)
    PROVE  OneOwner'
<1> DEFINE s == Head(workq)
<1>1. /\ workq \in Seq(Slots) /\ workq # <<>>
      /\ running \in [Workers -> Slots \cup {None}] /\ running[w] = None
      /\ running' = [running EXCEPT ![w] = s] /\ workq' = Tail(workq)
      /\ UNCHANGED <<req, doneq, afterq>>
  BY DEF TypeOK, TypeWork, WorkerTake
<1>2. /\ s \in Slots /\ On(workq, s) /\ Once(workq')
      /\ \A t : On(workq', t) <=> On(workq, t) /\ t # s
  BY <1>1, OnTail DEF OneOwner, QueuesOnce
<1>3. ~On(doneq, s) /\ ~On(afterq, s) /\ ~Runs(s) /\ s # None
  BY <1>2, NoneAssumption DEF OneOwner, Apart
<1>4. \A t \in Slots : Runs(t)' <=> Runs(t) \/ t = s
  BY <1>1, <1>2, NoneAssumption DEF Runs
<1>5. QueuesOnce'
  BY <1>1, <1>2 DEF OneOwner, QueuesOnce
<1>6. RunOnce'
  BY <1>1, <1>3 DEF OneOwner, RunOnce, Runs
<1>7. Apart'
  BY <1>1, <1>2, <1>3, <1>4 DEF OneOwner, Apart
<1>8. LiveIsHeld'
  BY <1>1, <1>2, <1>4 DEF OneOwner, LiveIsHeld, Live
<1> QED BY <1>5, <1>6, <1>7, <1>8 DEF OneOwner

\* A pool thread hands its request over to the loop.
LEMMA FinishOwner ==
    ASSUME TypeOK, OneOwner, NEW w \in Workers, WorkerFinish(w)
    PROVE  /\ req' \in [Slots -> Request \cup {None}]
           /\ OneOwner'
<1> DEFINE s == running[w]
<1>1. /\ running \in [Workers -> Slots \cup {None}] /\ s # None
      /\ doneq \in Seq(Slots) /\ req \in [Slots -> Request \cup {None}]
      /\ running' = [running EXCEPT ![w] = None] /\ doneq' = Append(doneq, s)
      /\ UNCHANGED <<workq, afterq>>
  BY DEF TypeOK, TypeWork, WorkerFinish
<1>2. s \in Slots /\ Runs(s)
  BY <1>1 DEF Runs
<1>3. ~On(workq, s) /\ ~On(doneq, s) /\ ~On(afterq, s)
  BY <1>2 DEF OneOwner, Apart
<1>4. PICK r \in {-1, 0} : req' = [req EXCEPT ![s] = [id |-> @.id, result |-> r]]
  BY DEF WorkerFinish
<1>5. req[s] \in Request
  BY <1>1, <1>2 DEF OneOwner, LiveIsHeld, Live
<1>6. [id |-> req[s].id, result |-> r] \in Request
  BY <1>5 DEF Request
<1>7. /\ req' \in [Slots -> Request \cup {None}]
      /\ \A t \in Slots : req'[t] # None <=> req[t] # None
  BY <1>1, <1>2, <1>4, <1>5, <1>6, NoneAssumption
<1>8. /\ \A t : On(doneq', t) <=> On(doneq, t) \/ t = s
      /\ Once(doneq')
  BY <1>1, <1>2, <1>3, OnAppend, OnceAppend DEF OneOwner, QueuesOnce
<1>9. \A t \in Slots : Runs(t)' <=> Runs(t) /\ t # s
  BY <1>1, <1>2, NoneAssumption DEF Runs, OneOwner, RunOnce
<1>10. QueuesOnce' /\ RunOnce'
  BY <1>1, <1>8 DEF OneOwner, QueuesOnce, RunOnce
<1>11. Apart'
  BY <1>1, <1>3, <1>8, <1>9 DEF OneOwner, Apart
<1>12. LiveIsHeld'
  BY <1>1, <1>2, <1>7, <1>8, <1>9 DEF OneOwner, LiveIsHeld, Live
<1> QED BY <1>7, <1>10, <1>11, <1>12 DEF OneOwner

-----------------------------------------------------------------------------
(* Every step keeps the invariant.                                         *)

USE DEF loopVars, clientVars, poolVars, history

\* Nothing changes: the parts of the invariant do not either.
LEMMA StutterIInv == ASSUME IInv, UNCHANGED vars PROVE IInv'
<1>1. TypeProcess'
  BY DEF IInv, TypeOK, TypeProcess, vars
<1>2. TypeFlags'
  BY DEF IInv, TypeOK, TypeFlags, vars
<1>3. TypeClient'
  BY DEF IInv, TypeOK, TypeClient, vars
<1>4. TypeWork'
  BY DEF IInv, TypeOK, TypeWork, vars
<1>5. TypeHistory'
  BY DEF IInv, TypeOK, TypeHistory, vars
<1>6. OneOwner'
  BY OwnersUnchanged DEF IInv, vars
<1> QED BY <1>1, <1>2, <1>3, <1>4, <1>5, <1>6 DEF IInv, TypeOK

\* main before uv_run.
LEMMA StartIInv == ASSUME IInv, Start PROVE IInv'
<1>1. TypeProcess'
  BY DEF IInv, TypeOK, TypeProcess, Start
<1>2. TypeFlags'
  BY DEF IInv, TypeOK, TypeFlags, Start
<1>3. TypeClient'
  BY DEF IInv, TypeOK, TypeClient, Start
<1>4. TypeWork'
  BY DEF IInv, TypeOK, TypeWork, Start
<1>5. TypeHistory'
  BY DEF IInv, TypeOK, TypeHistory, Start
<1>6. OneOwner'
  BY OwnersUnchanged DEF IInv, Start
<1> QED BY <1>1, <1>2, <1>3, <1>4, <1>5, <1>6 DEF IInv, TypeOK

\* git_handler_repo_deinit.
LEMMA RepoDeinitIInv == ASSUME IInv, RepoDeinit PROVE IInv'
<1>1. TypeProcess'
  BY DEF IInv, TypeOK, TypeProcess, RepoDeinit
<1>2. TypeFlags'
  BY DEF IInv, TypeOK, TypeFlags, RepoDeinit
<1>3. TypeClient'
  BY DEF IInv, TypeOK, TypeClient, RepoDeinit
<1>4. TypeWork'
  BY DEF IInv, TypeOK, TypeWork, RepoDeinit
<1>5. TypeHistory'
  BY DEF IInv, TypeOK, TypeHistory, RepoDeinit
<1>6. OneOwner'
  BY OwnersUnchanged DEF IInv, RepoDeinit
<1> QED BY <1>1, <1>2, <1>3, <1>4, <1>5, <1>6 DEF IInv, TypeOK

\* git_libgit2_shutdown.
LEMMA Libgit2ShutdownIInv == ASSUME IInv, Libgit2Shutdown PROVE IInv'
<1>1. TypeProcess'
  BY DEF IInv, TypeOK, TypeProcess, Libgit2Shutdown
<1>2. TypeFlags'
  BY DEF IInv, TypeOK, TypeFlags, Libgit2Shutdown
<1>3. TypeClient'
  BY DEF IInv, TypeOK, TypeClient, Libgit2Shutdown
<1>4. TypeWork'
  BY DEF IInv, TypeOK, TypeWork, Libgit2Shutdown
<1>5. TypeHistory'
  BY DEF IInv, TypeOK, TypeHistory, Libgit2Shutdown
<1>6. OneOwner'
  BY OwnersUnchanged DEF IInv, Libgit2Shutdown
<1> QED BY <1>1, <1>2, <1>3, <1>4, <1>5, <1>6 DEF IInv, TypeOK

\* exit() has joined the pool.
LEMMA ExitIInv == ASSUME IInv, Exit PROVE IInv'
<1>1. TypeProcess'
  BY DEF IInv, TypeOK, TypeProcess, Exit
<1>2. TypeFlags'
  BY DEF IInv, TypeOK, TypeFlags, Exit
<1>3. TypeClient'
  BY DEF IInv, TypeOK, TypeClient, Exit
<1>4. TypeWork'
  BY DEF IInv, TypeOK, TypeWork, Exit
<1>5. TypeHistory'
  BY DEF IInv, TypeOK, TypeHistory, Exit
<1>6. OneOwner'
  BY OwnersUnchanged DEF IInv, Exit
<1> QED BY <1>1, <1>2, <1>3, <1>4, <1>5, <1>6 DEF IInv, TypeOK

\* read_stdin takes a chunk off the pipe.
LEMMA ReadStdinIInv == ASSUME IInv, ReadStdin PROVE IInv'
<1> PICK n \in 1..Len(inPipe) :
          /\ batch' = SubSeq(inPipe, 1, n)
          /\ inPipe' = SubSeq(inPipe, n + 1, Len(inPipe))
  BY DEF ReadStdin
<1> inPipe \in Seq(Frames) /\ Len(inPipe) \in Nat /\ Len(inPipe) <= InCap
  BY DEF IInv, TypeOK, TypeClient
<1> /\ batch' \in Seq(Frames) /\ inPipe' \in Seq(Frames)
    /\ Len(inPipe') = Len(inPipe) - n
  OBVIOUS
<1>1. TypeProcess'
  BY DEF IInv, TypeOK, TypeProcess, ReadStdin
<1>2. TypeFlags'
  BY DEF IInv, TypeOK, TypeFlags, ReadStdin
<1>3. TypeClient'
  BY BoundsAssumption DEF IInv, TypeOK, TypeClient, ReadStdin
<1>4. TypeWork'
  BY DEF IInv, TypeOK, TypeWork, ReadStdin
<1>5. TypeHistory'
  BY DEF IInv, TypeOK, TypeHistory, ReadStdin
<1>6. OneOwner'
  BY OwnersUnchanged DEF IInv, ReadStdin
<1> QED BY <1>1, <1>2, <1>3, <1>4, <1>5, <1>6 DEF IInv, TypeOK

\* read_stdin at the end of the pipe.
LEMMA ReadEofIInv == ASSUME IInv, ReadEof PROVE IInv'
<1>1. TypeProcess'
  BY DEF IInv, TypeOK, TypeProcess, ReadEof
<1>2. TypeFlags'
  BY DEF IInv, TypeOK, TypeFlags, ReadEof
<1>3. TypeClient'
  BY DEF IInv, TypeOK, TypeClient, ReadEof
<1>4. TypeWork'
  BY DEF IInv, TypeOK, TypeWork, ReadEof
<1>5. TypeHistory'
  BY DEF IInv, TypeOK, TypeHistory, ReadEof
<1>6. OneOwner'
  BY OwnersUnchanged DEF IInv, ReadEof
<1> QED BY <1>1, <1>2, <1>3, <1>4, <1>5, <1>6 DEF IInv, TypeOK

\* protocol_error.
LEMMA ProtocolErrorIInv == ASSUME IInv, ProtocolError PROVE IInv'
<1>1. TypeProcess'
  BY DEF IInv, TypeOK, TypeProcess, ProtocolError
<1>2. TypeFlags'
  BY DEF IInv, TypeOK, TypeFlags, ProtocolError
<1>3. TypeClient'
  BY DEF IInv, TypeOK, TypeClient, ProtocolError
<1>4. TypeWork'
  BY DEF IInv, TypeOK, TypeWork, ProtocolError
<1>5. TypeHistory'
  BY DEF IInv, TypeOK, TypeHistory, ProtocolError
<1>6. OneOwner'
  BY OwnersUnchanged DEF IInv, ProtocolError
<1> QED BY <1>1, <1>2, <1>3, <1>4, <1>5, <1>6 DEF IInv, TypeOK

\* A request is queued.
LEMMA AcceptIInv == ASSUME IInv, NEW s \in Slots, Accept(s) PROVE IInv'
<1> batch \in Seq(Frames) /\ batch # <<>> /\ batch' = Tail(batch)
  BY DEF IInv, TypeOK, TypeWork, Accept
<1> Head(batch) \in Frames /\ Tail(batch) \in Seq(Frames)
  OBVIOUS
<1> Head(batch).id \in Ids
  BY DEF Ids
<1> [id |-> Head(batch).id, result |-> -1] \in Request
  BY DEF Request
<1>1. TypeProcess'
  BY DEF IInv, TypeOK, TypeProcess, Accept
<1>2. TypeFlags'
  BY DEF IInv, TypeOK, TypeFlags, Accept
<1>3. TypeClient'
  BY DEF IInv, TypeOK, TypeClient, Accept
<1>4. TypeWork'
  <2>1. workq' \in Seq(Slots)
    BY DEF IInv, TypeOK, TypeWork, Accept
  <2>2. req' \in [Slots -> Request \cup {None}]
    BY DEF IInv, TypeOK, TypeWork, Accept
  <2> QED BY <2>1, <2>2 DEF IInv, TypeOK, TypeWork, Accept
<1>5. TypeHistory'
  <2>1. accepted' = [accepted EXCEPT ![Head(batch).id] = @ + 1]
    BY DEF Accept
  <2>2. UNCHANGED <<answered, dropped>>
    BY DEF Accept
  <2> QED BY <2>1, <2>2 DEF IInv, TypeOK, TypeHistory
<1>6. OneOwner'
  BY AcceptOwner DEF IInv
<1> QED BY <1>1, <1>2, <1>3, <1>4, <1>5, <1>6 DEF IInv, TypeOK

\* A frame is handled without effect.
LEMMA IgnoreIInv == ASSUME IInv, Ignore PROVE IInv'
<1> batch \in Seq(Frames) /\ batch # <<>> /\ batch' = Tail(batch)
  BY DEF IInv, TypeOK, TypeWork, Ignore
<1> Head(batch) \in Frames /\ Tail(batch) \in Seq(Frames)
  OBVIOUS
<1>1. TypeProcess'
  BY DEF IInv, TypeOK, TypeProcess, Ignore
<1>2. TypeFlags'
  BY DEF IInv, TypeOK, TypeFlags, Ignore
<1>3. TypeClient'
  BY DEF IInv, TypeOK, TypeClient, Ignore
<1>4. TypeWork'
  BY DEF IInv, TypeOK, TypeWork, Ignore
<1>5. TypeHistory'
  BY DEF IInv, TypeOK, TypeHistory, Ignore
<1>6. OneOwner'
  BY OwnersUnchanged DEF IInv, Ignore
<1> QED BY <1>1, <1>2, <1>3, <1>4, <1>5, <1>6 DEF IInv, TypeOK

\* uv__work_done takes the finished requests.
LEMMA CollectDoneIInv == ASSUME IInv, CollectDone PROVE IInv'
<1>1. TypeProcess'
  BY DEF IInv, TypeOK, TypeProcess, CollectDone
<1>2. TypeFlags'
  BY DEF IInv, TypeOK, TypeFlags, CollectDone
<1>3. TypeClient'
  BY DEF IInv, TypeOK, TypeClient, CollectDone
<1>4. TypeWork'
  BY DEF IInv, TypeOK, TypeWork, CollectDone
<1>5. TypeHistory'
  BY DEF IInv, TypeOK, TypeHistory, CollectDone
<1>6. OneOwner'
  BY CollectOwner DEF IInv
<1> QED BY <1>1, <1>2, <1>3, <1>4, <1>5, <1>6 DEF IInv, TypeOK

\* after_git_root drops a failed request.
LEMMA AfterDropIInv == ASSUME IInv, AfterDrop PROVE IInv'
<1> /\ afterq \in Seq(Slots) /\ afterq # <<>> /\ afterq' = Tail(afterq)
    /\ req' = [req EXCEPT ![Head(afterq)] = None]
    /\ UNCHANGED poolVars
  BY DEF IInv, TypeOK, TypeWork, AfterDrop
<1> Head(afterq) \in Slots /\ Tail(afterq) \in Seq(Slots)
  OBVIOUS
<1> req[Head(afterq)] \in Request
  <2>1. On(afterq, Head(afterq))
    BY OnTail DEF IInv, OneOwner, QueuesOnce
  <2> QED BY <2>1 DEF IInv, OneOwner, LiveIsHeld, Live, TypeOK, TypeWork
<1> req[Head(afterq)].id \in Ids
  BY DEF Request
<1>1. TypeProcess'
  BY DEF IInv, TypeOK, TypeProcess, AfterDrop
<1>2. TypeFlags'
  BY DEF IInv, TypeOK, TypeFlags, AfterDrop
<1>3. TypeClient'
  BY DEF IInv, TypeOK, TypeClient, AfterDrop
<1>4. TypeWork'
  BY DEF IInv, TypeOK, TypeWork, AfterDrop
<1>5. TypeHistory'
  BY DEF IInv, TypeOK, TypeHistory, AfterDrop
<1>6. OneOwner'
  BY FreeOwner DEF IInv
<1> QED BY <1>1, <1>2, <1>3, <1>4, <1>5, <1>6 DEF IInv, TypeOK

\* after_git_root sends the response.
LEMMA AfterSendIInv == ASSUME IInv, AfterSend PROVE IInv'
<1> /\ afterq \in Seq(Slots) /\ afterq # <<>> /\ afterq' = Tail(afterq)
    /\ req' = [req EXCEPT ![Head(afterq)] = None]
    /\ UNCHANGED poolVars
  BY DEF IInv, TypeOK, TypeWork, AfterSend
<1> Head(afterq) \in Slots /\ Tail(afterq) \in Seq(Slots)
  OBVIOUS
<1> req[Head(afterq)] \in Request
  <2>1. On(afterq, Head(afterq))
    BY OnTail DEF IInv, OneOwner, QueuesOnce
  <2> QED BY <2>1 DEF IInv, OneOwner, LiveIsHeld, Live, TypeOK, TypeWork
<1> req[Head(afterq)].id \in Ids
  BY DEF Request
<1>1. TypeProcess'
  BY DEF IInv, TypeOK, TypeProcess, AfterSend
<1>2. TypeFlags'
  BY DEF IInv, TypeOK, TypeFlags, AfterSend
<1>3. TypeClient'
  <2>1. outPipe \in Seq(Ids) /\ Len(outPipe) < OutCap
    BY DEF IInv, TypeOK, TypeClient, AfterSend
  <2>2. outPipe' = Append(outPipe, req[Head(afterq)].id)
    BY DEF AfterSend
  <2>3. outPipe' \in Seq(Ids) /\ Len(outPipe') <= OutCap
    BY <2>1, <2>2, BoundsAssumption
  <2> QED BY <2>3 DEF IInv, TypeOK, TypeClient, AfterSend
<1>4. TypeWork'
  BY DEF IInv, TypeOK, TypeWork, AfterSend
<1>5. TypeHistory'
  BY DEF IInv, TypeOK, TypeHistory, AfterSend
<1>6. OneOwner'
  BY FreeOwner DEF IInv
<1> QED BY <1>1, <1>2, <1>3, <1>4, <1>5, <1>6 DEF IInv, TypeOK

\* A response nobody reads ends the process.
LEMMA AfterSigpipeIInv == ASSUME IInv, AfterSigpipe PROVE IInv'
<1>1. TypeProcess'
  BY DEF IInv, TypeOK, TypeProcess, AfterSigpipe
<1>2. TypeFlags'
  BY DEF IInv, TypeOK, TypeFlags, AfterSigpipe
<1>3. TypeClient'
  BY DEF IInv, TypeOK, TypeClient, AfterSigpipe
<1>4. TypeWork'
  BY DEF IInv, TypeOK, TypeWork, AfterSigpipe
<1>5. TypeHistory'
  BY DEF IInv, TypeOK, TypeHistory, AfterSigpipe
<1>6. OneOwner'
  BY OwnersUnchanged DEF IInv, AfterSigpipe
<1> QED BY <1>1, <1>2, <1>3, <1>4, <1>5, <1>6 DEF IInv, TypeOK

\* SIGINT stops the loop.
LEMMA OnSignalIInv == ASSUME IInv, OnSignal PROVE IInv'
<1>1. TypeProcess'
  BY DEF IInv, TypeOK, TypeProcess, OnSignal
<1>2. TypeFlags'
  BY DEF IInv, TypeOK, TypeFlags, OnSignal
<1>3. TypeClient'
  BY DEF IInv, TypeOK, TypeClient, OnSignal
<1>4. TypeWork'
  BY DEF IInv, TypeOK, TypeWork, OnSignal
<1>5. TypeHistory'
  BY DEF IInv, TypeOK, TypeHistory, OnSignal
<1>6. OneOwner'
  BY OwnersUnchanged DEF IInv, OnSignal
<1> QED BY <1>1, <1>2, <1>3, <1>4, <1>5, <1>6 DEF IInv, TypeOK

\* A pool thread starts on a request.
LEMMA WorkerTakeIInv == ASSUME IInv, NEW w \in Workers, WorkerTake(w) PROVE IInv'
<1>1. TypeProcess'
  BY DEF IInv, TypeOK, TypeProcess, WorkerTake
<1>2. TypeFlags'
  BY DEF IInv, TypeOK, TypeFlags, WorkerTake
<1>3. TypeClient'
  BY DEF IInv, TypeOK, TypeClient, WorkerTake
<1>4. TypeWork'
  <2>1. workq \in Seq(Slots) /\ workq # <<>>
    BY DEF IInv, TypeOK, TypeWork, WorkerTake
  <2>2. Head(workq) \in Slots /\ Tail(workq) \in Seq(Slots)
    BY <2>1
  <2> QED BY <2>2 DEF IInv, TypeOK, TypeWork, WorkerTake
<1>5. TypeHistory'
  BY DEF IInv, TypeOK, TypeHistory, WorkerTake
<1>6. OneOwner'
  BY TakeOwner DEF IInv
<1> QED BY <1>1, <1>2, <1>3, <1>4, <1>5, <1>6 DEF IInv, TypeOK

\* A pool thread is done with a request.
LEMMA WorkerFinishIInv == ASSUME IInv, NEW w \in Workers, WorkerFinish(w) PROVE IInv'
<1>1. TypeProcess'
  BY DEF IInv, TypeOK, TypeProcess, WorkerFinish
<1>2. TypeFlags'
  BY DEF IInv, TypeOK, TypeFlags, WorkerFinish
<1>3. TypeClient'
  BY DEF IInv, TypeOK, TypeClient, WorkerFinish
<1>4. TypeWork'
  <2>1. running[w] \in Slots
    BY DEF IInv, TypeOK, TypeWork, WorkerFinish
  <2>2. doneq' \in Seq(Slots)
    BY <2>1 DEF IInv, TypeOK, TypeWork, WorkerFinish
  <2>3. req' \in [Slots -> Request \cup {None}]
    BY FinishOwner DEF IInv
  <2> QED BY <2>2, <2>3 DEF IInv, TypeOK, TypeWork, WorkerFinish
<1>5. TypeHistory'
  BY DEF IInv, TypeOK, TypeHistory, WorkerFinish
<1>6. OneOwner'
  BY FinishOwner DEF IInv
<1> QED BY <1>1, <1>2, <1>3, <1>4, <1>5, <1>6 DEF IInv, TypeOK

\* The client writes a frame.
LEMMA ClientWriteIInv == ASSUME IInv, NEW f \in Frames, ClientWrite(f) PROVE IInv'
<1>1. TypeProcess'
  BY DEF IInv, TypeOK, TypeProcess, ClientWrite
<1>2. TypeFlags'
  BY DEF IInv, TypeOK, TypeFlags, ClientWrite
<1>3. TypeClient'
  <2>1. inPipe \in Seq(Frames) /\ Len(inPipe) < InCap /\ inPipe' = Append(inPipe, f)
    BY DEF IInv, TypeOK, TypeClient, ClientWrite
  <2>2. inPipe' \in Seq(Frames) /\ Len(inPipe') <= InCap
    BY <2>1, BoundsAssumption
  <2> QED BY <2>2, BoundsAssumption DEF IInv, TypeOK, TypeClient, ClientWrite
<1>4. TypeWork'
  BY DEF IInv, TypeOK, TypeWork, ClientWrite
<1>5. TypeHistory'
  BY DEF IInv, TypeOK, TypeHistory, ClientWrite
<1>6. OneOwner'
  BY OwnersUnchanged DEF IInv, ClientWrite
<1> QED BY <1>1, <1>2, <1>3, <1>4, <1>5, <1>6 DEF IInv, TypeOK

\* The client reads a response.
LEMMA ClientReadIInv == ASSUME IInv, ClientRead PROVE IInv'
<1>1. TypeProcess'
  BY DEF IInv, TypeOK, TypeProcess, ClientRead
<1>2. TypeFlags'
  BY DEF IInv, TypeOK, TypeFlags, ClientRead
<1>3. TypeClient'
  <2>1. outPipe \in Seq(Ids) /\ outPipe # <<>> /\ outPipe' = Tail(outPipe)
        /\ Len(outPipe) <= OutCap
    BY DEF IInv, TypeOK, TypeClient, ClientRead
  <2>2. outPipe' \in Seq(Ids) /\ Len(outPipe') <= OutCap
    BY <2>1, BoundsAssumption
  <2> QED BY <2>2 DEF IInv, TypeOK, TypeClient, ClientRead
<1>4. TypeWork'
  BY DEF IInv, TypeOK, TypeWork, ClientRead
<1>5. TypeHistory'
  BY DEF IInv, TypeOK, TypeHistory, ClientRead
<1>6. OneOwner'
  BY OwnersUnchanged DEF IInv, ClientRead
<1> QED BY <1>1, <1>2, <1>3, <1>4, <1>5, <1>6 DEF IInv, TypeOK

\* The client closes stdin.
LEMMA ClientEofIInv == ASSUME IInv, ClientEof PROVE IInv'
<1>1. TypeProcess'
  BY DEF IInv, TypeOK, TypeProcess, ClientEof
<1>2. TypeFlags'
  BY DEF IInv, TypeOK, TypeFlags, ClientEof
<1>3. TypeClient'
  BY DEF IInv, TypeOK, TypeClient, ClientEof
<1>4. TypeWork'
  BY DEF IInv, TypeOK, TypeWork, ClientEof
<1>5. TypeHistory'
  BY DEF IInv, TypeOK, TypeHistory, ClientEof
<1>6. OneOwner'
  BY OwnersUnchanged DEF IInv, ClientEof
<1> QED BY <1>1, <1>2, <1>3, <1>4, <1>5, <1>6 DEF IInv, TypeOK

\* The client goes away.
LEMMA ClientHangupIInv == ASSUME IInv, ClientHangup PROVE IInv'
<1>1. TypeProcess'
  BY DEF IInv, TypeOK, TypeProcess, ClientHangup
<1>2. TypeFlags'
  BY DEF IInv, TypeOK, TypeFlags, ClientHangup
<1>3. TypeClient'
  BY DEF IInv, TypeOK, TypeClient, ClientHangup
<1>4. TypeWork'
  BY DEF IInv, TypeOK, TypeWork, ClientHangup
<1>5. TypeHistory'
  BY DEF IInv, TypeOK, TypeHistory, ClientHangup
<1>6. OneOwner'
  BY OwnersUnchanged DEF IInv, ClientHangup
<1> QED BY <1>1, <1>2, <1>3, <1>4, <1>5, <1>6 DEF IInv, TypeOK

\* SIGINT is delivered.
LEMMA InterruptIInv == ASSUME IInv, Interrupt PROVE IInv'
<1>1. TypeProcess'
  BY DEF IInv, TypeOK, TypeProcess, Interrupt
<1>2. TypeFlags'
  BY DEF IInv, TypeOK, TypeFlags, Interrupt
<1>3. TypeClient'
  BY DEF IInv, TypeOK, TypeClient, Interrupt
<1>4. TypeWork'
  BY DEF IInv, TypeOK, TypeWork, Interrupt
<1>5. TypeHistory'
  BY DEF IInv, TypeOK, TypeHistory, Interrupt
<1>6. OneOwner'
  BY OwnersUnchanged DEF IInv, Interrupt
<1> QED BY <1>1, <1>2, <1>3, <1>4, <1>5, <1>6 DEF IInv, TypeOK

\* The invariant is inductive: every callback, pool thread and client step keeps
\* the owners.
THEOREM NextIInv == IInv /\ [Next]_vars => IInv'
<1> SUFFICES ASSUME IInv, [Next]_vars PROVE IInv'
  OBVIOUS
<1>1. CASE Start \/ Down
  BY <1>1, StartIInv, RepoDeinitIInv, Libgit2ShutdownIInv, ExitIInv DEF Down
<1>2. CASE ReadCallback \/ Consume
  BY <1>2, ReadStdinIInv, ReadEofIInv, ProtocolErrorIInv, IgnoreIInv,
     AcceptIInv DEF ReadCallback, Consume
<1>3. CASE CollectDone \/ After \/ OnSignal
  BY <1>3, CollectDoneIInv, AfterDropIInv, AfterSendIInv, AfterSigpipeIInv,
     OnSignalIInv DEF After
<1>4. CASE \E w \in Workers : WorkerTake(w) \/ WorkerFinish(w)
  BY <1>4, WorkerTakeIInv, WorkerFinishIInv
<1>5. CASE Client
  BY <1>5, ClientWriteIInv, ClientReadIInv, ClientEofIInv, ClientHangupIInv,
     InterruptIInv DEF Client
<1>6. CASE UNCHANGED vars
  BY <1>6, StutterIInv
<1> QED BY <1>1, <1>2, <1>3, <1>4, <1>5, <1>6 DEF Next

\* Every value stays in its type, and every request between uv_queue_work and
\* after_git_root is held in exactly one place, whatever the frames, the
\* number of pool threads and the capacities.
THEOREM Correct == Spec => []TypeOK /\ []OneOwner
<1>1. IInv => TypeOK /\ OneOwner
  BY DEF IInv
<1> QED BY <1>1, InitIInv, NextIInv, PTL DEF Spec

-----------------------------------------------------------------------------
(***************************************************************************)
(* Conservation.                                                           *)
(***************************************************************************)
Held(i) == {s \in Slots : Live(s) /\ req[s].id = i}

\* Conservation, and the held requests are finitely many.
Balance ==
    \A i \in Ids : /\ IsFiniteSet(Held(i))
                   /\ accepted[i] = answered[i] + dropped[i] + Cardinality(Held(i))

\* A step that touches neither a request nor the counts keeps the balance.
LEMMA BalanceUnchanged ==
    ASSUME Balance, UNCHANGED <<req, accepted, answered, dropped>>
    PROVE  Balance'
BY DEF Balance, Held, Live

\* A request that is freed is counted as answered or as dropped.
LEMMA BalanceFreed ==
    ASSUME IInv, Balance, NEW s \in Slots, Live(s),
           req' = [req EXCEPT ![s] = None], accepted' = accepted,
           \/ /\ answered' = [answered EXCEPT ![req[s].id] = @ + 1]
              /\ dropped' = dropped
           \/ /\ dropped' = [dropped EXCEPT ![req[s].id] = @ + 1]
              /\ answered' = answered
    PROVE  Balance'
<1>1. /\ req \in [Slots -> Request \cup {None}]
      /\ answered \in [Ids -> Nat] /\ dropped \in [Ids -> Nat]
  BY DEF IInv, TypeOK, TypeWork, TypeHistory
<1>2. req[s] \in Request /\ req[s].id \in Ids
  BY <1>1 DEF Live, Request
<1> SUFFICES ASSUME NEW i \in Ids
             PROVE  /\ IsFiniteSet(Held(i)')
                    /\ accepted'[i] = answered'[i] + dropped'[i] + Cardinality(Held(i)')
  BY DEF Balance
<1>3. /\ IsFiniteSet(Held(i)) /\ Cardinality(Held(i)) \in Nat
      /\ accepted[i] = answered[i] + dropped[i] + Cardinality(Held(i))
  BY FS_CardinalityType DEF Balance
<1>4. Held(i)' = Held(i) \ {s}
  BY <1>1 DEF Held, Live
<1>5. s \in Held(i) <=> req[s].id = i
  BY DEF Held
<1>6. /\ IsFiniteSet(Held(i)')
      /\ Cardinality(Held(i)') = IF req[s].id = i THEN Cardinality(Held(i)) - 1
                                                  ELSE Cardinality(Held(i))
  BY <1>3, <1>4, <1>5, FS_RemoveElement
<1>7. answered'[i] + dropped'[i]
        = answered[i] + dropped[i] + (IF req[s].id = i THEN 1 ELSE 0)
  BY <1>1, <1>2
<1>8. answered[i] + dropped[i] \in Nat /\ answered'[i] + dropped'[i] \in Nat
  BY <1>1, <1>2
<1> QED BY <1>3, <1>6, <1>7, <1>8

\* A request that is queued is counted as accepted.
LEMMA BalanceAccept ==
    ASSUME IInv, Balance, NEW s \in Slots, Accept(s)
    PROVE  Balance'
<1> DEFINE new == [id |-> Head(batch).id, result |-> -1]
<1>1. /\ req \in [Slots -> Request \cup {None}] /\ accepted \in [Ids -> Nat]
      /\ answered \in [Ids -> Nat] /\ dropped \in [Ids -> Nat]
  BY DEF IInv, TypeOK, TypeWork, TypeHistory
<1>2. /\ req[s] = None /\ req' = [req EXCEPT ![s] = new]
      /\ accepted' = [accepted EXCEPT ![new.id] = @ + 1]
      /\ answered' = answered /\ dropped' = dropped
  BY DEF Accept
<1>3. new.id \in Ids /\ new # None
  <2>1. Head(batch) \in Frames
    BY DEF IInv, TypeOK, TypeWork, Accept
  <2>2. new \in Request
    BY <2>1 DEF Request, Ids
  <2> QED BY <2>2, NoneAssumption DEF Request
<1> HIDE DEF new
<1> SUFFICES ASSUME NEW i \in Ids
             PROVE  /\ IsFiniteSet(Held(i)')
                    /\ accepted'[i] = answered'[i] + dropped'[i] + Cardinality(Held(i)')
  BY DEF Balance
<1>4. /\ IsFiniteSet(Held(i)) /\ Cardinality(Held(i)) \in Nat
      /\ accepted[i] = answered[i] + dropped[i] + Cardinality(Held(i))
  BY FS_CardinalityType DEF Balance
<1>5. s \notin Held(i)
  BY <1>2 DEF Held, Live
<1>6. CASE new.id = i
  <2>1. Held(i)' = Held(i) \cup {s}
    BY <1>1, <1>2, <1>3, <1>6 DEF Held, Live
  <2>2. IsFiniteSet(Held(i)') /\ Cardinality(Held(i)') = Cardinality(Held(i)) + 1
    BY <1>4, <1>5, <2>1, FS_AddElement
  <2>3. accepted'[i] = accepted[i] + 1 /\ answered'[i] + dropped'[i] = answered[i] + dropped[i]
    BY <1>1, <1>2, <1>6
  <2>4. answered[i] + dropped[i] \in Nat
    BY <1>1
  <2> QED BY <1>4, <2>2, <2>3, <2>4
<1>7. CASE new.id # i
  <2>1. Held(i)' = Held(i)
    BY <1>1, <1>2, <1>5, <1>7 DEF Held, Live
  <2>2. accepted'[i] = accepted[i] /\ answered'[i] + dropped'[i] = answered[i] + dropped[i]
    BY <1>1, <1>2, <1>3, <1>7
  <2> QED BY <1>4, <2>1, <2>2
<1> QED BY <1>6, <1>7

\* A pool thread sets the result of its request and leaves the id.
LEMMA BalanceFinish ==
    ASSUME IInv, Balance, NEW w \in Workers, WorkerFinish(w)
    PROVE  Balance'
<1>1. running[w] \in Slots /\ req \in [Slots -> Request \cup {None}]
  BY DEF IInv, TypeOK, TypeWork, WorkerFinish
<1>2. Runs(running[w]) /\ req[running[w]] \in Request
  BY <1>1 DEF IInv, OneOwner, LiveIsHeld, Live, Runs
<1>3. PICK r \in {-1, 0} :
        req' = [req EXCEPT ![running[w]] = [id |-> @.id, result |-> r]]
  BY DEF WorkerFinish
<1>4. /\ [id |-> req[running[w]].id, result |-> r] \in Request
      /\ [id |-> req[running[w]].id, result |-> r].id = req[running[w]].id
  BY <1>2 DEF Request
<1>5. ASSUME NEW i \in Ids PROVE Held(i)' = Held(i)
  BY <1>1, <1>2, <1>3, <1>4, NoneAssumption DEF Held, Live
<1>6. UNCHANGED <<accepted, answered, dropped>>
  BY DEF WorkerFinish
<1> QED BY <1>5, <1>6 DEF Balance

\* after_git_root frees the request it answers or drops.
LEMMA BalanceAfter ==
    ASSUME IInv, Balance, AfterDrop \/ AfterSend
    PROVE  Balance'
<1> DEFINE s == Head(afterq)
<1>1. afterq \in Seq(Slots) /\ afterq # <<>>
  BY DEF IInv, TypeOK, TypeWork, AfterDrop, AfterSend
<1>2. s \in Slots /\ On(afterq, s)
  BY <1>1, OnTail DEF IInv, OneOwner, QueuesOnce
<1>3. Live(s)
  BY <1>2 DEF IInv, OneOwner, LiveIsHeld
<1>4. /\ req' = [req EXCEPT ![s] = None] /\ accepted' = accepted
      /\ \/ /\ answered' = [answered EXCEPT ![req[s].id] = @ + 1]
            /\ dropped' = dropped
         \/ /\ dropped' = [dropped EXCEPT ![req[s].id] = @ + 1]
            /\ answered' = answered
  BY DEF AfterDrop, AfterSend
<1> QED BY <1>2, <1>3, <1>4, BalanceFreed

\* Init and every step keep the balance.
LEMMA BalanceHolds == Spec => []Balance
<1>1. Init => Balance
  <2> SUFFICES ASSUME Init, NEW i \in Ids
               PROVE  /\ IsFiniteSet(Held(i))
                      /\ accepted[i] = answered[i] + dropped[i] + Cardinality(Held(i))
    BY DEF Balance
  <2>1. Held(i) = {}
    BY DEF Init, Held, Live
  <2> QED BY <2>1, FS_EmptySet DEF Init
<1>2. IInv /\ Balance /\ [Next]_vars => Balance'
  <2> SUFFICES ASSUME IInv, Balance, [Next]_vars PROVE Balance'
    OBVIOUS
  <2>1. CASE Start \/ Down
    BY <2>1, BalanceUnchanged DEF Start, Down, RepoDeinit, Libgit2Shutdown, Exit, history
  <2>2. CASE ReadCallback \/ ProtocolError \/ Ignore
    BY <2>2, BalanceUnchanged
       DEF ReadCallback, ReadStdin, ReadEof, ProtocolError, Ignore, history
  <2>3. ASSUME NEW s \in Slots, Accept(s) PROVE Balance'
    BY <2>3, BalanceAccept
  <2>4. CASE CollectDone \/ AfterSigpipe \/ OnSignal
    BY <2>4, BalanceUnchanged DEF CollectDone, AfterSigpipe, OnSignal, history
  <2>5. CASE AfterDrop \/ AfterSend
    BY <2>5, BalanceAfter
  <2>6. ASSUME NEW w \in Workers, WorkerTake(w) PROVE Balance'
    BY <2>6, BalanceUnchanged DEF WorkerTake, history
  <2>7. ASSUME NEW w \in Workers, WorkerFinish(w) PROVE Balance'
    BY <2>7, BalanceFinish
  <2>8. CASE Client
    BY <2>8, BalanceUnchanged
       DEF Client, ClientWrite, ClientRead, ClientEof, ClientHangup, Interrupt, history
  <2>9. CASE UNCHANGED vars
    BY <2>9, BalanceUnchanged DEF vars, history
  <2> QED BY <2>1, <2>2, <2>3, <2>4, <2>5, <2>6, <2>7, <2>8, <2>9
          DEF Next, Consume, After
<1>3. IInv /\ [Next]_vars => IInv'
  BY NextIInv
<1> QED BY <1>1, <1>2, <1>3, InitIInv, PTL DEF Spec

\* Every accepted request is answered, dropped or still held, one count for
\* each id, for any number of slots.
THEOREM NoneLost == Spec => []Conservation
<1>1. Balance => Conservation
  BY DEF Balance, Conservation, Held
<1> QED BY <1>1, BalanceHolds, PTL

-----------------------------------------------------------------------------
(* StatusServer implements StatusService, and gives up on a stream it has  *)
(* closed.                                                                 *)

USE DEF loopVars, clientVars, poolVars, history

\* The frames of a chunk do not outlive the handle they came from.
ClosedInv == main = "loop" /\ stdin = "closed" => batch = <<>>

\* uv_close and the return of consume_bytes leave no frame behind.
LEMMA ClosedInvariant == Spec => []ClosedInv
<1>1. Init => ClosedInv
  BY DEF Init, ClosedInv
<1>2. ClosedInv /\ [Next]_vars => ClosedInv'
  <2> SUFFICES ASSUME ClosedInv, [Next]_vars PROVE ClosedInv'
    OBVIOUS
  <2>1. CASE Start \/ Down
    BY <2>1 DEF ClosedInv, Start, Down, RepoDeinit, Libgit2Shutdown, Exit
  <2>2. CASE ReadCallback
    BY <2>2 DEF ClosedInv, ReadCallback, ReadStdin, ReadEof, Idle
  <2>3. CASE Consume
    BY <2>3 DEF ClosedInv, Consume, ProtocolError, Ignore, Accept
  <2>4. CASE CollectDone \/ After \/ OnSignal
    BY <2>4 DEF ClosedInv, CollectDone, After, AfterDrop, AfterSend,
                AfterSigpipe, OnSignal, Idle
  <2>5. CASE \E w \in Workers : WorkerTake(w) \/ WorkerFinish(w)
    BY <2>5 DEF ClosedInv, WorkerTake, WorkerFinish
  <2>6. CASE Client
    BY <2>6 DEF ClosedInv, Client, ClientWrite, ClientRead, ClientEof,
                ClientHangup, Interrupt
  <2>7. CASE UNCHANGED vars
    BY <2>7 DEF ClosedInv, vars
  <2> QED BY <2>1, <2>2, <2>3, <2>4, <2>5, <2>6, <2>7 DEF Next
<1> QED BY <1>1, <1>2, PTL DEF Spec

\* protocol_error and the end of the pipe are final: no frame reaches the
\* queue afterwards.
THEOREM ClosedIsFinal == Spec => NothingAcceptedOnceClosed
<1>1. ClosedInv /\ [Next]_vars =>
        [main = "loop" /\ stdin = "closed" => accepted' = accepted]_vars
  <2> SUFFICES ASSUME ClosedInv, Next, main = "loop", stdin = "closed"
               PROVE  accepted' = accepted
    OBVIOUS
  <2>1. batch = <<>>
    BY DEF ClosedInv
  <2>2. CASE Start \/ Down
    BY <2>2 DEF Start, Down, RepoDeinit, Libgit2Shutdown, Exit
  <2>3. CASE ReadCallback \/ Consume
    BY <2>1, <2>3 DEF ReadCallback, ReadStdin, ReadEof, Consume,
                      ProtocolError, Ignore, Accept
  <2>4. CASE CollectDone \/ After \/ OnSignal
    BY <2>4 DEF CollectDone, After, AfterDrop, AfterSend, AfterSigpipe, OnSignal
  <2>5. CASE \E w \in Workers : WorkerTake(w) \/ WorkerFinish(w)
    BY <2>5 DEF WorkerTake, WorkerFinish
  <2>6. CASE Client
    BY <2>6 DEF Client, ClientWrite, ClientRead, ClientEof, ClientHangup,
                Interrupt
  <2> QED BY <2>2, <2>3, <2>4, <2>5, <2>6 DEF Next
<1> QED BY <1>1, ClosedInvariant, PTL DEF Spec, NothingAcceptedOnceClosed

-----------------------------------------------------------------------------
(* Refinement: steps of the server as steps of the service.                *)

\* A step that changes neither main, the requests nor the responses is
\* invisible.
LEMMA Invisible ==
    ASSUME UNCHANGED <<main, req, outPipe>>
    PROVE  UNCHANGED Service!vars
BY DEF Service!vars, Phase, Pending

\* So is a step on the way from the end of uv_run to the end of the process.
LEMMA InvisibleDown ==
    ASSUME main \notin {"start", "loop"}, main' \notin {"start", "loop"},
           UNCHANGED <<req, outPipe>>
    PROVE  UNCHANGED Service!vars
BY DEF Service!vars, Phase, Pending

\* Freeing a request takes it off the service.
LEMMA FreePending ==
    ASSUME NEW s \in Slots, req \in [Slots -> Request \cup {None}],
           req' = [req EXCEPT ![s] = None]
    PROVE  Pending' = [Pending EXCEPT ![s] = None]
BY DEF Pending

\* A finishing thread changes the result of a request, which the service does
\* not show.
LEMMA FinishPending ==
    ASSUME IInv, NEW w \in Workers, WorkerFinish(w)
    PROVE  UNCHANGED Service!vars
<1>1. /\ running[w] \in Slots /\ Runs(running[w])
      /\ req \in [Slots -> Request \cup {None}]
  BY DEF IInv, TypeOK, TypeWork, WorkerFinish, Runs
<1>2. req[running[w]] \in Request
  BY <1>1 DEF IInv, OneOwner, LiveIsHeld, Live
<1>3. PICK r \in {-1, 0} :
        req' = [req EXCEPT ![running[w]] = [id |-> @.id, result |-> r]]
  BY DEF WorkerFinish
<1>4. /\ [id |-> req[running[w]].id, result |-> r] \in Request
      /\ [id |-> req[running[w]].id, result |-> r].id = req[running[w]].id
  BY <1>2 DEF Request
<1>5. \A s \in Slots : Pending[s]' = Pending[s]
  BY <1>1, <1>2, <1>3, <1>4, NoneAssumption DEF Pending
<1>6. Pending' = Pending
  BY <1>5 DEF Pending
<1> QED BY <1>6 DEF Service!vars, Phase, WorkerFinish

\* main's start is Boot.
LEMMA StartStep == ASSUME Start PROVE Service!Next
<1>1. Phase = "new" /\ Phase' \in {"up", "down"}
  BY DEF Start, Phase
<1>2. UNCHANGED <<Pending, outPipe>>
  BY DEF Start, Pending
<1> QED BY <1>1, <1>2 DEF Service!Next, Service!Boot

\* The end of the loop, by uv_stop or by SIGPIPE, is Halt.
LEMMA HaltStep == ASSUME OnSignal \/ AfterSigpipe PROVE Service!Next
<1>1. Phase = "up" /\ Phase' = "down"
  BY DEF OnSignal, AfterSigpipe, Idle, Phase
<1>2. UNCHANGED <<Pending, outPipe>>
  BY DEF OnSignal, AfterSigpipe, Pending
<1> QED BY <1>1, <1>2 DEF Service!Next, Service!Halt

\* Queueing a request is Submit.
LEMMA AcceptStep ==
    ASSUME IInv, NEW s \in Slots, Accept(s)
    PROVE  Service!Next
<1> DEFINE i == Head(batch).id
<1>1. /\ req \in [Slots -> Request \cup {None}] /\ batch \in Seq(Frames)
      /\ batch # <<>> /\ req[s] = None /\ main = "loop" /\ main' = main
      /\ req' = [req EXCEPT ![s] = [id |-> i, result |-> -1]]
      /\ outPipe' = outPipe
  BY DEF IInv, TypeOK, TypeWork, Accept
<1>2. Head(batch) \in Frames
  BY <1>1
<1>3. i \in Ids
  BY <1>2 DEF Ids
<1>4. [id |-> i, result |-> -1] \in Request
  BY <1>3 DEF Request
<1>5. Pending' = [Pending EXCEPT ![s] = i]
  BY <1>1, <1>4, NoneAssumption DEF Pending
<1>6. Phase = "up" /\ Phase' = Phase
  BY <1>1 DEF Phase
<1>7. Pending[s] = None
  BY <1>1 DEF Pending
<1>8. Service!Submit(s, i)
  BY <1>1, <1>5, <1>6, <1>7 DEF Service!Submit
<1> QED BY <1>3, <1>8 DEF Service!Next

\* after_git_root is Reply or GiveUp for the request at the head.
LEMMA AfterStep ==
    ASSUME IInv, AfterDrop \/ AfterSend
    PROVE  Service!Next
<1> DEFINE s == Head(afterq)
<1>1. /\ req \in [Slots -> Request \cup {None}] /\ afterq \in Seq(Slots)
      /\ afterq # <<>> /\ main = "loop" /\ main' = main
      /\ req' = [req EXCEPT ![s] = None]
  BY DEF IInv, TypeOK, TypeWork, AfterDrop, AfterSend
<1>2. s \in Slots /\ On(afterq, s)
  BY <1>1, OnTail DEF IInv, OneOwner, QueuesOnce
<1>3. req[s] \in Request
  BY <1>1, <1>2 DEF IInv, OneOwner, LiveIsHeld, Live
<1>4. req[s].id \in Ids /\ req[s] # None /\ req[s].id # None
  BY <1>3, NoneAssumption DEF Request
<1>5. Pending' = [Pending EXCEPT ![s] = None]
  BY <1>1, <1>2, FreePending
<1>6. Pending[s] = req[s].id
  BY <1>2, <1>4 DEF Pending
<1>7. Phase = "up" /\ Phase' = Phase
  BY <1>1 DEF Phase
<1>8. CASE AfterDrop
  <2>1. outPipe' = outPipe
    BY <1>8 DEF AfterDrop
  <2>2. Service!GiveUp(s)
    BY <1>4, <1>5, <1>6, <1>7, <2>1 DEF Service!GiveUp
  <2> QED BY <1>2, <2>2 DEF Service!Next
<1>9. CASE AfterSend
  <2>1. outPipe' = Append(outPipe, req[s].id)
    BY <1>9 DEF AfterSend
  <2>2. Service!Reply(s)
    BY <1>4, <1>5, <1>6, <1>7, <2>1 DEF Service!Reply
  <2> QED BY <1>2, <2>2 DEF Service!Next
<1> QED BY <1>8, <1>9

\* The client's read of a response is Deliver.
LEMMA DeliverStep == ASSUME ClientRead PROVE Service!Next
<1>1. UNCHANGED <<Phase, Pending>>
  BY DEF ClientRead, Phase, Pending
<1> QED BY <1>1 DEF ClientRead, Service!Next, Service!Deliver

\* The server implements the service, for any frames, slots and pool threads.
THEOREM Refines == Spec => ServiceSpec
<1>1. Init => Service!Init
  BY DEF Init, Service!Init, Phase, Pending
<1>2. IInv /\ [Next]_vars => [Service!Next]_(Service!vars)
  <2> SUFFICES ASSUME IInv, [Next]_vars
               PROVE  Service!Next \/ UNCHANGED Service!vars
    OBVIOUS
  <2>1. CASE Start
    BY <2>1, StartStep
  <2>2. CASE Down
    BY <2>2, InvisibleDown DEF Down, RepoDeinit, Libgit2Shutdown, Exit
  <2>3. CASE ReadCallback \/ CollectDone
    BY <2>3, Invisible DEF ReadCallback, ReadStdin, ReadEof, CollectDone
  <2>4. CASE ProtocolError \/ Ignore
    BY <2>4, Invisible DEF ProtocolError, Ignore
  <2>5. CASE \E s \in Slots : Accept(s)
    BY <2>5, AcceptStep
  <2>6. CASE AfterDrop \/ AfterSend
    BY <2>6, AfterStep
  <2>7. CASE AfterSigpipe \/ OnSignal
    BY <2>7, HaltStep
  <2>8. CASE \E w \in Workers : WorkerTake(w)
    BY <2>8, Invisible DEF WorkerTake
  <2>9. CASE \E w \in Workers : WorkerFinish(w)
    BY <2>9, FinishPending
  <2>10. CASE ClientRead
    BY <2>10, DeliverStep
  <2>11. CASE (\E f \in Frames : ClientWrite(f)) \/ ClientEof \/ ClientHangup
              \/ Interrupt
    BY <2>11, Invisible DEF ClientWrite, ClientEof, ClientHangup, Interrupt
  <2>12. CASE UNCHANGED vars
    BY <2>12, Invisible DEF vars
  <2> QED BY <2>1, <2>2, <2>3, <2>4, <2>5, <2>6, <2>7, <2>8, <2>9, <2>10,
             <2>11, <2>12 DEF Next, Consume, After, Client
<1>3. Spec => []IInv
  BY InitIInv, NextIInv, PTL DEF Spec
<1> QED BY <1>1, <1>2, <1>3, PTL DEF Spec, ServiceSpec, Service!Spec
=============================================================================
