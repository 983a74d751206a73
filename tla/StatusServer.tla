---------------------------- MODULE StatusServer ----------------------------
(***************************************************************************)
(* magit-server as a process: the libuv loop thread (main, read_stdin,     *)
(* consume_bytes, msgpack_handler_recv, git_handler_queue_git_status,      *)
(* after_git_root, msgpack_handler_send), the pool threads that run        *)
(* git_root_worker, the two pipes that join it to Emacs, SIGINT, and the   *)
(* way down to exit().                                                     *)
(*                                                                         *)
(* One frame of either pipe is one element of a sequence: Framing models   *)
(* how bytes become frames.  git_root_worker is a take and a finish with a *)
(* result: RootWorker models what happens between the two.                 *)
(***************************************************************************)
EXTENDS Integers, Sequences, FiniteSets

CONSTANTS
    Frames,     \* what the client may write: see FrameType
    Slots,      \* addresses calloc can return for a git_root_req_T
    Workers,    \* libuv's pool threads
    None,       \* no request
    InCap,      \* frames the stdin pipe holds
    OutCap,     \* responses the stdout pipe holds
    MaxFrames,  \* bound: frames the client ever writes
    EnumSize    \* values of an enum, 2^32 in the build

CMD_GIT_STATUS == 1

(***************************************************************************)
(* "map": a MessagePack map whose keys and values have the right types;    *)
(* "invalid": a payload msgpack_handler_recv returns early on; "badlen": a *)
(* length word of zero or above MAX_MESSAGE_SIZE.                          *)
(***************************************************************************)
FrameType == [kind : {"map", "invalid", "badlen"}, id : Nat, cmd : Nat]

ASSUME FramesAssumption == Frames \subseteq FrameType
ASSUME BoundsAssumption == /\ InCap \in Nat
                           /\ OutCap \in Nat
                           /\ MaxFrames \in Nat
                           /\ EnumSize \in Nat \ {0}

VARIABLES
    main,       \* where the main thread is
    repo,       \* the global g_repo
    git2,       \* libgit2 is initialised
    sigint,     \* a SIGINT waits in libuv's signal pipe
    stdin,      \* the tty handle: "open" until uv_close
    inPipe,     \* frames written by the client, not yet read
    eof,        \* the client has closed its end of stdin
    hungup,     \* the client has closed its end of stdout
    nWritten,   \* frames the client has written
    batch,      \* frames of the chunk consume_bytes is working through
    req,        \* the git_root_req_T at each address, None when not allocated
    workq,      \* libuv's work queue
    running,    \* the request each pool thread runs
    doneq,      \* finished work not yet collected by the loop
    afterq,     \* finished work uv__work_done is calling back, in order
    outPipe,    \* responses written, not yet read by the client
    accepted,   \* history: per id, requests handed to uv_queue_work
    answered,   \* history: per id, responses written
    dropped     \* history: per id, requests freed without a response

loopVars == <<main, repo, git2, sigint>>
clientVars == <<inPipe, eof, hungup, nWritten>>
poolVars == <<workq, running, doneq>>
history == <<accepted, answered, dropped>>
vars == <<loopVars, clientVars, stdin, batch, req, poolVars, afterq, outPipe,
          history>>

Ids == {f.id : f \in Frames}

\* A git_root_req_T: result stays -1 until the worker has everything it needs.
Request == [id : Ids, result : {-1, 0}]

ASSUME NoneAssumption == None \notin Slots \cup Ids \cup Request

TypeProcess ==
    /\ main \in {"start", "loop", "stopped", "shutdown", "exiting", "exited",
                 "failed", "killed"}
    /\ repo \in {"null", "open", "freed"}
    /\ stdin \in {"open", "closed"}
TypeFlags ==
    git2 \in BOOLEAN /\ sigint \in BOOLEAN /\ eof \in BOOLEAN /\ hungup \in BOOLEAN
TypeClient ==
    /\ inPipe \in Seq(Frames) /\ Len(inPipe) <= InCap
    /\ nWritten \in 0..MaxFrames
    /\ outPipe \in Seq(Ids) /\ Len(outPipe) <= OutCap
TypeWork ==
    /\ batch \in Seq(Frames)
    /\ req \in [Slots -> Request \cup {None}]
    /\ workq \in Seq(Slots) /\ doneq \in Seq(Slots) /\ afterq \in Seq(Slots)
    /\ running \in [Workers -> Slots \cup {None}]
TypeHistory ==
    /\ accepted \in [Ids -> Nat]
    /\ answered \in [Ids -> Nat]
    /\ dropped \in [Ids -> Nat]

\* The process, its handles, the client's end, the queues and the history.
TypeOK == TypeProcess /\ TypeFlags /\ TypeClient /\ TypeWork /\ TypeHistory

Init ==
    /\ main = "start" /\ repo = "null" /\ git2 = FALSE /\ sigint = FALSE
    /\ stdin = "closed"
    /\ inPipe = <<>> /\ eof = FALSE /\ hungup = FALSE /\ nWritten = 0
    /\ batch = <<>>
    /\ req = [s \in Slots |-> None]
    /\ workq = <<>> /\ running = [w \in Workers |-> None] /\ doneq = <<>>
    /\ afterq = <<>> /\ outPipe = <<>>
    /\ accepted = [i \in Ids |-> 0]
    /\ answered = [i \in Ids |-> 0]
    /\ dropped = [i \in Ids |-> 0]

-----------------------------------------------------------------------------
(* The process: main before and after uv_run.                              *)

\* main up to uv_run.  Without an argument there is no repository; with one,
\* git_handler_repo_init opens it or main returns -1.
Start ==
    /\ main = "start"
    /\ git2' = TRUE
    /\ \/ main' = "loop" /\ repo' \in {"null", "open"} /\ stdin' = "open"
       \/ main' = "failed" /\ UNCHANGED <<repo, stdin>>
    /\ UNCHANGED <<sigint, clientVars, batch, req, poolVars, afterq, outPipe,
                   history>>

\* uv_run has returned: git_handler_repo_deinit when there was an argument.
RepoDeinit ==
    /\ main = "stopped"
    /\ main' = "shutdown"
    /\ repo' = IF repo = "open" THEN "freed" ELSE repo
    /\ UNCHANGED <<git2, sigint, clientVars, stdin, batch, req, poolVars,
                   afterq, outPipe, history>>

\* git_libgit2_shutdown, then main returns 0.
Libgit2Shutdown ==
    /\ main = "shutdown"
    /\ main' = "exiting"
    /\ git2' = FALSE
    /\ UNCHANGED <<repo, sigint, clientVars, stdin, batch, req, poolVars,
                   afterq, outPipe, history>>

\* exit() runs libuv's destructor, which joins the pool threads once they
\* have run everything that was still queued.
Exit ==
    /\ main = "exiting"
    /\ workq = <<>> /\ \A w \in Workers : running[w] = None
    /\ main' = "exited"
    /\ UNCHANGED <<repo, git2, sigint, clientVars, stdin, batch, req,
                   poolVars, afterq, outPipe, history>>

-----------------------------------------------------------------------------
(* The loop thread.  A callback runs to its end before the next one.       *)

Idle == main = "loop" /\ batch = <<>> /\ afterq = <<>>

\* libuv has read some of what the pipe holds and calls read_stdin.
ReadStdin ==
    /\ Idle /\ stdin = "open"
    /\ \E n \in 1..Len(inPipe) :
          /\ batch' = SubSeq(inPipe, 1, n)
          /\ inPipe' = SubSeq(inPipe, n + 1, Len(inPipe))
    /\ UNCHANGED <<loopVars, eof, hungup, nWritten, stdin, req, poolVars,
                   afterq, outPipe, history>>

\* read_stdin with nread < 0.  The signal handle keeps the loop alive.
ReadEof ==
    /\ Idle /\ stdin = "open" /\ inPipe = <<>> /\ eof
    /\ stdin' = "closed"
    /\ UNCHANGED <<loopVars, clientVars, batch, req, poolVars, afterq, outPipe,
                   history>>

\* Mutant: no return after protocol_error.
ProtocolErrorGoesOn ==
    /\ main = "loop" /\ batch # <<>> /\ Head(batch).kind = "badlen"
    /\ stdin' = "closed"
    /\ batch' = Tail(batch)
    /\ UNCHANGED <<loopVars, clientVars, req, poolVars, afterq, outPipe,
                   history>>

\* consume_bytes on a bad length: protocol_error closes the handle and the
\* rest of the chunk is lost.
ProtocolError ==
    /\ main = "loop" /\ batch # <<>> /\ Head(batch).kind = "badlen"
    /\ stdin' = "closed"
    /\ batch' = <<>>
    /\ UNCHANGED <<loopVars, clientVars, req, poolVars, afterq, outPipe,
                   history>>

\* The frames that reach git_handler_queue_git_status: the id and the command
\* are not zero, and the command, cut to the width of an enum, is the status
\* command.
IsStatusRequest(f) ==
    /\ f.kind = "map" /\ f.id # 0 /\ f.cmd # 0
    /\ f.cmd % EnumSize = CMD_GIT_STATUS

\* Mutant: no xfer(data), so the cleanup attribute frees a queued request.
AcceptKeepsCleanup(s) ==
    /\ main = "loop" /\ batch # <<>>
    /\ IsStatusRequest(Head(batch)) /\ repo = "open"
    /\ req[s] = None
    /\ workq' = Append(workq, s)
    /\ accepted' = [accepted EXCEPT ![Head(batch).id] = @ + 1]
    /\ batch' = Tail(batch)
    /\ UNCHANGED <<loopVars, clientVars, stdin, req, running, doneq, afterq,
                   outPipe, answered, dropped>>

\* git_handler_queue_git_status hands a new request to uv_queue_work, which
\* fails for a NULL callback only.
Accept(s) ==
    /\ main = "loop" /\ batch # <<>>
    /\ IsStatusRequest(Head(batch)) /\ repo = "open"
    /\ req[s] = None
    /\ req' = [req EXCEPT ![s] = [id |-> Head(batch).id, result |-> -1]]
    /\ workq' = Append(workq, s)
    /\ accepted' = [accepted EXCEPT ![Head(batch).id] = @ + 1]
    /\ batch' = Tail(batch)
    /\ UNCHANGED <<loopVars, clientVars, stdin, running, doneq, afterq,
                   outPipe, answered, dropped>>

\* The frame leaves no trace: it is not a status request, no repository is
\* open, or calloc fails.
Ignore ==
    /\ main = "loop" /\ batch # <<>> /\ Head(batch).kind # "badlen"
    /\ \/ ~IsStatusRequest(Head(batch))
       \/ repo # "open"
       \/ \A s \in Slots : req[s] # None
    /\ batch' = Tail(batch)
    /\ UNCHANGED <<loopVars, clientVars, stdin, req, poolVars, afterq, outPipe,
                   history>>

\* uv__work_done takes everything that is finished by now and calls
\* after_git_root for each, in order.
CollectDone ==
    /\ Idle /\ doneq # <<>>
    /\ afterq' = doneq
    /\ doneq' = <<>>
    /\ UNCHANGED <<loopVars, clientVars, stdin, batch, req, workq, running,
                   outPipe, history>>

\* Mutant: after_git_root returns on a failed result with no cleanup.
AfterDropLeaks ==
    /\ main = "loop" /\ afterq # <<>>
    /\ req[Head(afterq)].result < 0
    /\ dropped' = [dropped EXCEPT ![req[Head(afterq)].id] = @ + 1]
    /\ afterq' = Tail(afterq)
    /\ UNCHANGED <<loopVars, clientVars, stdin, batch, req, poolVars, outPipe,
                   accepted, answered>>

\* after_git_root for a failed result: no response, the request is freed.
AfterDrop ==
    /\ main = "loop" /\ afterq # <<>>
    /\ LET s == Head(afterq) IN
          /\ req[s].result < 0
          /\ req' = [req EXCEPT ![s] = None]
          /\ dropped' = [dropped EXCEPT ![req[s].id] = @ + 1]
    /\ afterq' = Tail(afterq)
    /\ UNCHANGED <<loopVars, clientVars, stdin, batch, poolVars, outPipe,
                   accepted, answered>>

\* Mutant: the response is sent and the request is not freed.
AfterSendLeaks ==
    /\ main = "loop" /\ afterq # <<>> /\ ~hungup
    /\ Len(outPipe) < OutCap
    /\ req[Head(afterq)].result = 0
    /\ outPipe' = Append(outPipe, req[Head(afterq)].id)
    /\ answered' = [answered EXCEPT ![req[Head(afterq)].id] = @ + 1]
    /\ afterq' = Tail(afterq)
    /\ UNCHANGED <<loopVars, clientVars, stdin, batch, req, poolVars, accepted,
                   dropped>>

\* after_git_root for a complete result: fwrite blocks the loop thread until
\* the pipe has room, then the request is freed.
AfterSend ==
    /\ main = "loop" /\ afterq # <<>> /\ ~hungup
    /\ Len(outPipe) < OutCap
    /\ LET s == Head(afterq) IN
          /\ req[s].result = 0
          /\ outPipe' = Append(outPipe, req[s].id)
          /\ req' = [req EXCEPT ![s] = None]
          /\ answered' = [answered EXCEPT ![req[s].id] = @ + 1]
    /\ afterq' = Tail(afterq)
    /\ UNCHANGED <<loopVars, clientVars, stdin, batch, poolVars, accepted,
                   dropped>>

\* The same write when nobody reads: SIGPIPE ends the process.
AfterSigpipe ==
    /\ main = "loop" /\ afterq # <<>> /\ hungup
    /\ req[Head(afterq)].result = 0
    /\ main' = "killed"
    /\ UNCHANGED <<repo, git2, sigint, clientVars, stdin, batch, req, poolVars,
                   afterq, outPipe, history>>

\* Mutant: the signal is swallowed.
OnSignalIgnores ==
    /\ Idle /\ sigint
    /\ sigint' = FALSE
    /\ UNCHANGED <<main, repo, git2, clientVars, stdin, batch, req, poolVars,
                   afterq, outPipe, history>>

\* on_signal: uv_stop, and uv_run returns before any other callback.
OnSignal ==
    /\ Idle /\ sigint
    /\ sigint' = FALSE
    /\ main' = "stopped"
    /\ UNCHANGED <<repo, git2, clientVars, stdin, batch, req, poolVars, afterq,
                   outPipe, history>>

-----------------------------------------------------------------------------
(* The pool threads, which live until exit() has joined them.              *)

PoolAlive == main \in {"loop", "stopped", "shutdown", "exiting"}

WorkerTake(w) ==
    /\ PoolAlive /\ running[w] = None /\ workq # <<>>
    /\ running' = [running EXCEPT ![w] = Head(workq)]
    /\ workq' = Tail(workq)
    /\ UNCHANGED <<loopVars, clientVars, stdin, batch, req, doneq, afterq,
                   outPipe, history>>

\* Mutant: the pool thread sends the response itself.
WorkerFinishSends(w) ==
    /\ PoolAlive /\ running[w] # None /\ Len(outPipe) < OutCap
    /\ outPipe' = Append(outPipe, req[running[w]].id)
    /\ answered' = [answered EXCEPT ![req[running[w]].id] = @ + 1]
    /\ req' = [req EXCEPT ![running[w]] = None]
    /\ running' = [running EXCEPT ![w] = None]
    /\ UNCHANGED <<loopVars, clientVars, stdin, batch, workq, doneq, afterq,
                   accepted, dropped>>

\* git_root_worker returns; result stays -1 unless every gating step worked.
WorkerFinish(w) ==
    /\ PoolAlive /\ running[w] # None
    /\ \E r \in {-1, 0} :
          req' = [req EXCEPT ![running[w]] = [id |-> @.id, result |-> r]]
    /\ doneq' = Append(doneq, running[w])
    /\ running' = [running EXCEPT ![w] = None]
    /\ UNCHANGED <<loopVars, clientVars, stdin, batch, workq, afterq, outPipe,
                   history>>

-----------------------------------------------------------------------------
(* The client and the user.                                                *)

ClientWrite(f) ==
    /\ ~eof /\ nWritten < MaxFrames /\ Len(inPipe) < InCap
    /\ inPipe' = Append(inPipe, f)
    /\ nWritten' = nWritten + 1
    /\ UNCHANGED <<loopVars, eof, hungup, stdin, batch, req, poolVars, afterq,
                   outPipe, history>>

ClientRead ==
    /\ ~hungup /\ outPipe # <<>>
    /\ outPipe' = Tail(outPipe)
    /\ UNCHANGED <<loopVars, clientVars, stdin, batch, req, poolVars, afterq,
                   history>>

ClientEof ==
    /\ ~eof
    /\ eof' = TRUE
    /\ UNCHANGED <<loopVars, inPipe, hungup, nWritten, stdin, batch, req,
                   poolVars, afterq, outPipe, history>>

ClientHangup ==
    /\ ~hungup
    /\ hungup' = TRUE /\ eof' = TRUE
    /\ UNCHANGED <<loopVars, inPipe, nWritten, stdin, batch, req, poolVars,
                   afterq, outPipe, history>>

\* The signal handler is installed by the time the loop runs.
Interrupt ==
    /\ main = "loop" /\ ~sigint
    /\ sigint' = TRUE
    /\ UNCHANGED <<main, repo, git2, clientVars, stdin, batch, req, poolVars,
                   afterq, outPipe, history>>

-----------------------------------------------------------------------------
ReadCallback == ReadStdin \/ ReadEof
Consume == ProtocolError \/ Ignore \/ \E s \in Slots : Accept(s)
After == AfterDrop \/ AfterSend \/ AfterSigpipe
Down == RepoDeinit \/ Libgit2Shutdown \/ Exit

Client ==
    \/ \E f \in Frames : ClientWrite(f)
    \/ ClientRead \/ ClientEof \/ ClientHangup \/ Interrupt

Next ==
    \/ Start \/ Down
    \/ ReadCallback \/ Consume \/ CollectDone \/ After \/ OnSignal
    \/ \E w \in Workers : WorkerTake(w) \/ WorkerFinish(w)
    \/ Client

Spec == Init /\ [][Next]_vars

(***************************************************************************)
(* A running thread keeps running, a poll of the loop serves every         *)
(* descriptor that is ready (so no callback is starved by another), a      *)
(* libgit2 call returns, and a client that has not gone away reads.        *)
(***************************************************************************)
Fairness ==
    /\ WF_vars(Start) /\ WF_vars(Down)
    /\ WF_vars(Consume) /\ WF_vars(After)
    /\ SF_vars(ReadCallback) /\ SF_vars(CollectDone) /\ SF_vars(OnSignal)
    /\ \A w \in Workers : WF_vars(WorkerFinish(w))
    /\ WF_vars(\E w \in Workers : WorkerTake(w))
    /\ WF_vars(ClientRead)

FairSpec == Spec /\ Fairness

-----------------------------------------------------------------------------
(* Properties.                                                             *)

Live(s) == req[s] # None
On(q, s) == \E i \in 1..Len(q) : q[i] = s
Once(q) == \A i, j \in 1..Len(q) : q[i] = q[j] => i = j

QueuesOnce == Once(workq) /\ Once(doneq) /\ Once(afterq)
RunOnce == \A v, w \in Workers :
              running[v] = running[w] /\ running[v] # None => v = w
Runs(s) == \E w \in Workers : running[w] = s
Apart == \A s \in Slots :
            /\ On(workq, s) => ~On(doneq, s) /\ ~On(afterq, s) /\ ~Runs(s)
            /\ On(doneq, s) => ~On(afterq, s) /\ ~Runs(s)
            /\ On(afterq, s) => ~Runs(s)
LiveIsHeld == \A s \in Slots :
                Live(s) <=> \/ On(workq, s) \/ On(doneq, s) \/ On(afterq, s)
                           \/ Runs(s)

\* "xfer(data); // until after_git_root": from uv_queue_work to after_git_root
\* a request is held in exactly one place, so it is freed once, never while
\* the queue or a pool thread can still reach it, and it is never lost.
OneOwner == QueuesOnce /\ RunOnce /\ Apart /\ LiveIsHeld

\* Whatever the ids the client chooses (they may repeat), every accepted
\* request is answered, dropped, or still held by the server: no response is
\* made up, duplicated or sent under the id of another request.
Conservation ==
    \A i \in Ids :
        accepted[i] = answered[i] + dropped[i]
                      + Cardinality({s \in Slots : Live(s) /\ req[s].id = i})

\* protocol_error gives up on the stream: no request of the chunk that held
\* the bad length, or of a later one, reaches the queue.
NothingAcceptedOnceClosed ==
    [][main = "loop" /\ stdin = "closed" => accepted' = accepted]_vars

\* Ctrl-C ends the server: the loop reaches on_signal even if it was writing
\* to a full pipe, and exit gets past the work still in the pool.
InterruptEnds == sigint ~> main \in {"exited", "killed"}

\* The service seen through the server: a request stands from the moment it
\* is queued until it is freed, while the loop runs.
Phase == CASE main = "start" -> "new" [] main = "loop" -> "up" [] OTHER -> "down"
Pending == [s \in Slots |-> IF req[s] = None THEN None ELSE req[s].id]
Service == INSTANCE StatusService WITH
              Handles <- Slots, phase <- Phase, pending <- Pending,
              replies <- outPipe

\* The server implements the service: a request is taken, and replied to at
\* most once under its own id, or given up; when the loop ends nothing more
\* is replied.
ServiceSpec == Service!Spec

\* And it serves: while the loop runs and the client reads, every accepted
\* request is replied to or given up, in spite of a closed stdin, a full pipe
\* and the other callbacks of the loop.
ServiceProgress == Service!Progress
=============================================================================
