------------------------- MODULE SubprocessCapture -------------------------
(***************************************************************************)
(* run_git_capture of git_handler.c, called by several threads at once:    *)
(* the pipes, the fork, the loop around poll, and the git process, with    *)
(* what each process inherits.                                             *)
(*                                                                         *)
(* A descriptor is <<caller, end>> wherever it is open.  Output is counted *)
(* in chunks; a pipe is a queue, so that the count says what has arrived.  *)
(* A call that EINTR interrupts is repeated and is no step.                *)
(***************************************************************************)
EXTENDS Integers, FiniteSets

CONSTANTS
    Callers,        \* threads that run it
    MaxOut, MaxErr, \* bounds: chunks a git process writes to a stream
    PipeSize,       \* chunks a pipe holds
    ErrorSize       \* sizeof(error_output), in chunks: it ends in a NUL

CaptureAssumption ==
    /\ IsFiniteSet(Callers) /\ MaxOut \in Nat /\ MaxErr \in Nat
    /\ PipeSize \in Nat \ {0} /\ ErrorSize \in Nat \ {0}

VARIABLES
    pc,         \* where each caller is
    ret,        \* what it returns
    open,       \* streams it still reads: stdout_open, stderr_open
    out,        \* chunks it appended to its output
    error,      \* error_length
    server,     \* descriptors open in the server
    cloexec,    \* those of them that are closed by exec
    child,      \* state of each caller's git process
    held,       \* the descriptors it has
    keeps,      \* those of them that exec leaves open
    wrote,      \* chunks it wrote to each stream
    code,       \* its exit status
    pipe,       \* chunks in each pipe
    misused,    \* descriptors closed, or read, when not open
    window      \* pairs of a git process and a caller in whose window it forked

parent == <<pc, ret, open, out, error>>
files == <<server, cloexec, misused>>
git == <<child, held, keeps, wrote, code, pipe>>
vars == <<parent, files, git, window>>

Streams == {"out", "err"}
Ends == {"out_r", "out_w", "err_r", "err_w"}
ReadEnd(s) == IF s = "out" THEN "out_r" ELSE "err_r"
WriteEnd(s) == IF s = "out" THEN "out_w" ELSE "err_w"
Most(s) == IF s = "out" THEN MaxOut ELSE MaxErr
Order == <<"out_r", "out_w", "err_r", "err_w">>         \* of the fcntl calls

Init ==
    /\ pc = [p \in Callers |-> "idle"] /\ ret = [p \in Callers |-> 0]
    /\ open = [p \in Callers |-> {}] /\ out = [p \in Callers |-> 0]
    /\ error = [p \in Callers |-> 0]
    /\ server = {} /\ cloexec = {} /\ misused = {} /\ window = {}
    /\ child = [p \in Callers |-> "none"] /\ held = [p \in Callers |-> {}]
    /\ keeps = [p \in Callers |-> {}]
    /\ wrote = [p \in Callers |-> [s \in Streams |-> 0]]
    /\ code = [p \in Callers |-> 0]
    /\ pipe = [p \in Callers |-> [s \in Streams |-> 0]]

-----------------------------------------------------------------------------
(* Descriptors.                                                            *)

Of(p, ends) == {<<p, e>> : e \in ends}

Close(fds) ==
    /\ server' = server \ fds /\ cloexec' = cloexec \ fds
    /\ misused' = misused \cup (fds \ server)

HasReader(p, s) ==
    \/ <<p, ReadEnd(s)>> \in server
    \/ \E q \in Callers : <<p, ReadEnd(s)>> \in held[q]
HasWriter(p, s) ==
    \/ <<p, WriteEnd(s)>> \in server
    \/ \E q \in Callers : <<p, WriteEnd(s)>> \in held[q]

Go(p, to) == pc' = [pc EXCEPT ![p] = to]
Fails(p) == ret' = [ret EXCEPT ![p] = -1]

-----------------------------------------------------------------------------
(* The caller, up to the fork.                                             *)

\* No path, or the first pipe cannot be made.
NoPipe(p) ==
    /\ pc[p] = "idle" /\ Go(p, "done") /\ Fails(p)
    /\ UNCHANGED <<open, out, error, files, git, window>>

PipeOut(p) ==
    /\ pc[p] = "idle" /\ Go(p, "piped")
    /\ server' = server \cup Of(p, {"out_r", "out_w"})
    /\ UNCHANGED <<ret, open, out, error, cloexec, misused, git, window>>

PipeErr(p) ==
    /\ pc[p] = "piped"
    /\ \/ /\ Go(p, "out_r") /\ server' = server \cup Of(p, {"err_r", "err_w"})
          /\ UNCHANGED <<ret, cloexec, misused>>
       \/ /\ Go(p, "done") /\ Fails(p) /\ Close(Of(p, {"out_r", "out_w"}))
    /\ UNCHANGED <<open, out, error, git, window>>

\* fcntl(FD_CLOEXEC) on the next of the four descriptors.
SetCloexec(p) ==
    /\ \E i \in 1..4 :
          /\ pc[p] = Order[i] /\ cloexec' = cloexec \cup {<<p, Order[i]>>}
          /\ Go(p, IF i = 4 THEN "fork" ELSE Order[i + 1])
    /\ UNCHANGED <<ret, open, out, error, server, misused, git, window>>

\* fcntl or fork fails: all four are closed.
NoChild(p) ==
    /\ pc[p] \in Ends \cup {"fork"}
    /\ Go(p, "done") /\ Fails(p) /\ Close(Of(p, Ends))
    /\ UNCHANGED <<open, out, error, git, window>>

\* The child has every descriptor of the server; the parent closes the ends it
\* does not read.
Fork(p) ==
    /\ pc[p] = "fork" /\ Go(p, "poll")
    /\ child' = [child EXCEPT ![p] = "forked"]
    /\ held' = [held EXCEPT ![p] = server]
    /\ keeps' = [keeps EXCEPT ![p] = server \ cloexec]
    /\ window' = window \cup
          {<<p, q>> : q \in {r \in Callers : pc[r] \in Ends \cup {"piped"}}}
    /\ open' = [open EXCEPT ![p] = Streams]
    /\ Close(Of(p, {"out_w", "err_w"}))
    /\ UNCHANGED <<ret, out, error, wrote, code, pipe>>

-----------------------------------------------------------------------------
(* The git process.                                                        *)

Exit(p, status) ==
    /\ child' = [child EXCEPT ![p] = "exited"]
    /\ held' = [held EXCEPT ![p] = {}]
    /\ keeps' = [keeps EXCEPT ![p] = {}]
    /\ code' = [code EXCEPT ![p] = status]

\* dup2 and execvp: the write ends stay as its standard streams, and what was
\* not close-on-exec when it forked stays as well.
Exec(p) ==
    /\ child[p] = "forked"
    /\ \/ /\ child' = [child EXCEPT ![p] = "runs"]
          /\ held' = [held EXCEPT ![p] = keeps[p] \cup Of(p, {"out_w", "err_w"})]
          /\ UNCHANGED <<keeps, code>>
       \/ Exit(p, 1)                            \* _exit(126), _exit(127)
    /\ UNCHANGED <<parent, files, wrote, pipe, window>>

\* Blocks while the pipe is full; without a reader SIGPIPE ends the process.
Write(p, s) ==
    /\ child[p] = "runs" /\ wrote[p][s] < Most(s)
    /\ IF HasReader(p, s)
       THEN /\ pipe[p][s] < PipeSize
            /\ pipe' = [pipe EXCEPT ![p][s] = @ + 1]
            /\ wrote' = [wrote EXCEPT ![p][s] = @ + 1]
            /\ UNCHANGED <<child, held, keeps, code>>
       ELSE Exit(p, 1) /\ UNCHANGED <<wrote, pipe>>
    /\ UNCHANGED <<parent, files, window>>

GitExits(p) ==
    /\ child[p] = "runs" /\ \E status \in {0, 1} : Exit(p, status)
    /\ UNCHANGED <<parent, files, wrote, pipe, window>>

-----------------------------------------------------------------------------
(* The caller, in the loop around poll and after.                          *)

\* poll fails, or a read fails with more than EINTR.
PollFails(p) ==
    /\ pc[p] = "poll" /\ open[p] # {}
    /\ Go(p, "close") /\ Fails(p)
    /\ UNCHANGED <<open, out, error, files, git, window>>

\* What does not fit is dropped; the pipe is read all the same.
CopyError(p) ==
    error' = [error EXCEPT ![p] = IF @ < ErrorSize - 1 THEN @ + 1 ELSE @]

\* Mutant: stderr is read only while there is room for it.
ReadWhileRoom(p, s) ==
    /\ pc[p] = "poll" /\ s \in open[p] /\ pipe[p][s] > 0
    /\ s = "err" => error[p] < ErrorSize - 1
    /\ pipe' = [pipe EXCEPT ![p][s] = @ - 1]
    /\ IF s = "out" THEN out' = [out EXCEPT ![p] = @ + 1] /\ UNCHANGED error
                    ELSE CopyError(p) /\ UNCHANGED out
    /\ UNCHANGED <<pc, ret, open, files, child, held, keeps, wrote, code, window>>

Read(p, s) ==
    /\ pc[p] = "poll" /\ s \in open[p] /\ pipe[p][s] > 0
    /\ pipe' = [pipe EXCEPT ![p][s] = @ - 1]
    /\ IF s = "out" THEN out' = [out EXCEPT ![p] = @ + 1] /\ UNCHANGED error
                    ELSE CopyError(p) /\ UNCHANGED out
    /\ UNCHANGED <<pc, ret, open, files, child, held, keeps, wrote, code, window>>

\* read returns 0: nobody has the write end any more.
EndOfStream(p, s) ==
    /\ pc[p] = "poll" /\ s \in open[p] /\ pipe[p][s] = 0 /\ ~HasWriter(p, s)
    /\ Close(Of(p, {ReadEnd(s)}))
    /\ open' = [open EXCEPT ![p] = @ \ {s}]
    /\ UNCHANGED <<pc, ret, out, error, git, window>>

LoopEnds(p) ==
    /\ pc[p] = "poll" /\ open[p] = {} /\ Go(p, "close")
    /\ UNCHANGED <<ret, open, out, error, files, git, window>>

\* Mutant: an error leaves the streams open.
CloseRestLeaks(p) ==
    /\ pc[p] = "close" /\ Go(p, "wait")
    /\ UNCHANGED <<ret, open, out, error, files, git, window>>

\* The streams an error left open.
CloseRest(p) ==
    /\ pc[p] = "close" /\ Go(p, "wait")
    /\ Close({<<p, ReadEnd(s)>> : s \in open[p]})
    /\ open' = [open EXCEPT ![p] = {}]
    /\ UNCHANGED <<ret, out, error, git, window>>

Reap(p) == child' = [child EXCEPT ![p] = "reaped"]

\* Mutant: the output of a git that failed is kept.
WaitKeeps(p) ==
    /\ pc[p] = "wait" /\ child[p] = "exited" /\ Go(p, "done") /\ Reap(p)
    /\ IF code[p] # 0 THEN Fails(p) ELSE UNCHANGED ret
    /\ UNCHANGED <<open, out, error, files, held, keeps, wrote, code, pipe, window>>

\* waitpid: an error of the loop, or of git, takes back what was appended.
Wait(p) ==
    /\ pc[p] = "wait" /\ child[p] = "exited" /\ Go(p, "done") /\ Reap(p)
    /\ IF ret[p] < 0 \/ code[p] # 0
       THEN Fails(p) /\ out' = [out EXCEPT ![p] = 0]
       ELSE UNCHANGED <<ret, out>>
    /\ UNCHANGED <<open, error, files, held, keeps, wrote, code, pipe, window>>

\* waitpid fails with more than EINTR.
WaitFails(p) ==
    /\ pc[p] = "wait" /\ Go(p, "done") /\ Fails(p)
    /\ out' = [out EXCEPT ![p] = 0]
    /\ UNCHANGED <<open, error, files, git, window>>

Caller(p) ==
    \/ NoPipe(p) \/ PipeOut(p) \/ PipeErr(p) \/ SetCloexec(p) \/ NoChild(p)
    \/ Fork(p) \/ PollFails(p) \/ LoopEnds(p) \/ CloseRest(p)
    \/ Wait(p) \/ WaitFails(p)
    \/ \E s \in Streams : Read(p, s) \/ EndOfStream(p, s)
Git(p) == Exec(p) \/ GitExits(p) \/ \E s \in Streams : Write(p, s)

Next == \E p \in Callers : Caller(p) \/ Git(p)

Spec == Init /\ [][Next]_vars

\* The caller's steps but for the calls that fail.
Works(p) ==
    \/ PipeOut(p) \/ PipeErr(p) \/ SetCloexec(p) \/ Fork(p)
    \/ LoopEnds(p) \/ CloseRest(p) \/ Wait(p)
    \/ \E s \in Streams : Read(p, s) \/ EndOfStream(p, s)

\* git goes on, and exits unless it may be in a write that blocks.
GitWorks(p) ==
    \/ Exec(p) \/ \E s \in Streams : Write(p, s)
    \/ /\ \A s \in Streams : wrote[p][s] < Most(s) => pipe[p][s] < PipeSize
       /\ GitExits(p)

\* The kernel schedules every thread and process; no call has to fail for a
\* capture to end.
FairSpec == Spec /\ \A p \in Callers : WF_vars(Works(p)) /\ WF_vars(GitWorks(p))

-----------------------------------------------------------------------------
(* Properties.                                                             *)

Places == {"idle", "piped", "fork", "poll", "close", "wait", "done"} \cup Ends
Descriptors == Callers \X Ends

\* The error text and its NUL fit error_output, however much git says.
TypeOK ==
    /\ pc \in [Callers -> Places] /\ ret \in [Callers -> {-1, 0}]
    /\ open \in [Callers -> SUBSET Streams]
    /\ out \in [Callers -> 0..MaxOut]
    /\ error \in [Callers -> 0..(ErrorSize - 1)]
    /\ server \subseteq Descriptors /\ cloexec \subseteq server
    /\ misused \subseteq Descriptors
    /\ child \in [Callers -> {"none", "forked", "runs", "exited", "reaped"}]
    /\ held \in [Callers -> SUBSET Descriptors]
    /\ keeps \in [Callers -> SUBSET Descriptors]
    /\ wrote \in [Callers -> [Streams -> Nat]] /\ code \in [Callers -> {0, 1}]
    /\ pipe \in [Callers -> [Streams -> 0..PipeSize]]

\* A capture that returns 0 has all that git wrote, to its end, and git exited
\* with 0; one that returns an error has put its output back.
AllOrNothing ==
    \A p \in Callers : pc[p] = "done" =>
        IF ret[p] = 0 THEN code[p] = 0 /\ out[p] = wrote[p]["out"]
                      ELSE out[p] = 0

\* No descriptor is closed twice -- a second close may hit a descriptor another
\* thread has got meanwhile -- and every return closes them all.
ClosedOnce ==
    /\ misused = {}
    /\ \A p \in Callers : pc[p] = "done" => Of(p, Ends) \cap server = {}

\* A git process of another caller has a caller's descriptors only if it was
\* forked between the caller's pipe and its fcntl calls; such a stray delays
\* the end of the caller's stream until that process exits too.
StraysOnlyFromTheWindow ==
    \A p, q \in Callers :
        p # q /\ child[p] = "runs" /\ Of(q, Ends) \cap held[p] # {}
            => <<p, q>> \in window

-----------------------------------------------------------------------------
(* What is true between any two steps, so that the properties stay true.   *)

Before == {"idle", "piped", "fork"} \cup Ends           \* no git process yet
Looping == {"poll", "close", "wait"}

\* The descriptors of its pipes a caller has open, by its place.
EndsByPlace ==
    \A p \in Callers, e \in Ends :
        <<p, e>> \in server <=>
            \/ pc[p] = "piped" /\ e \in {"out_r", "out_w"}
            \/ pc[p] \in Ends \cup {"fork"}
            \/ pc[p] \in {"poll", "close"} /\ \E s \in open[p] : e = ReadEnd(s)

\* The fcntl calls are done up to the place, and all of them at the fork.
SetByPlace ==
    \A p \in Callers, e \in Ends : <<p, e>> \in server =>
        /\ pc[p] = "out_w" /\ e = "out_r" => <<p, e>> \in cloexec
        /\ pc[p] = "err_r" /\ e \in {"out_r", "out_w"} => <<p, e>> \in cloexec
        /\ pc[p] = "err_w" /\ e # "err_w" => <<p, e>> \in cloexec
        /\ pc[p] \in {"fork", "poll", "close"} => <<p, e>> \in cloexec

\* Before the fork there is no process, and nothing is appended.
NothingYet == \A p \in Callers : pc[p] \in Before => child[p] = "none" /\ out[p] = 0

\* What git wrote has been read or is in the pipe.
Accounted ==
    /\ \A p \in Callers, s \in Streams : wrote[p][s] <= Most(s)
    /\ \A p \in Callers :
          pc[p] # "done" => wrote[p]["out"] = out[p] + pipe[p]["out"]

\* A stream at its end is empty, and git has gone.
Drained ==
    \A p \in Callers, s \in Streams :
        pc[p] \in Looping /\ ret[p] = 0 /\ s \notin open[p] =>
            pipe[p][s] = 0 /\ child[p] \notin {"forked", "runs"}

ReadToTheEnd ==
    \A p \in Callers :
        \/ pc[p] = "close" /\ ret[p] = 0
        \/ pc[p] = "wait"
        => open[p] = {}

\* After a return of 0 there is no process that could still write.
Settled ==
    \A p \in Callers : pc[p] = "done" =>
        IF ret[p] = 0
        THEN child[p] = "reaped" /\ code[p] = 0 /\ out[p] = wrote[p]["out"]
        ELSE out[p] = 0

\* git has its own write ends, and by exec no more than what stays open.
HeldByState ==
    \A p \in Callers :
        /\ child[p] \in {"forked", "runs"} => Of(p, {"out_w", "err_w"}) \subseteq held[p]
        /\ child[p] = "runs" => held[p] \subseteq keeps[p] \cup Of(p, Ends)

KeptFromTheWindow ==
    \A p, q \in Callers : \A e \in Ends :
        p # q /\ child[p] \in {"forked", "runs"} /\ <<q, e>> \in keeps[p] =>
            <<p, q>> \in window

CaptureInv ==
    /\ TypeOK /\ misused = {} /\ EndsByPlace /\ SetByPlace /\ NothingYet /\ Accounted
    /\ Drained /\ ReadToTheEnd /\ Settled /\ HeldByState /\ KeptFromTheWindow
=============================================================================
