----------------------------- MODULE ServerLog -----------------------------
(***************************************************************************)
(* The log of git_handler.c, written by the loop thread, the pool and the  *)
(* tasks: its configuration on the first call, the level of each record,   *)
(* the line that is written, and libgit2's error message in it.            *)
(*                                                                         *)
(* A thread runs step after step (RUN_TASK, parallel_task_runner): it      *)
(* clears its last error, makes libgit2 calls, logs the ones that failed   *)
(* and logs the step.  Before its steps it opens or discovers a repository *)
(* (git_root_worker, parallel_task_runner, git_handler_repo_init) and      *)
(* logs that as well when it fails, but clears nothing before.             *)
(* Lengths are counted, characters are not.                                *)
(***************************************************************************)
EXTENDS Integers, Sequences

CONSTANTS
    Threads,
    MsgSize, BufSize,   \* sizeof(msg), sizeof(buf)
    Prefix,             \* length of what precedes the message
    Lengths,            \* bound: lengths of messages
    MaxSteps            \* bound: steps and openings of a thread

LogAssumption ==
    /\ MsgSize \in Nat \ {0} /\ BufSize \in Nat \ {0, 1}
    /\ Prefix \in Nat /\ Lengths \subseteq Nat /\ MaxSteps \in Nat

\* gh_log_level_t
DEBUG == 0
INFO == 1
WARN == 2
ERROR == 3
OFF == 4
Levels == DEBUG..OFF

VARIABLES
    env,        \* the two environment variables: [level, file]
    once,       \* g_log_once
    g_log_level,
    g_log_fp,   \* "stderr" or "file"
    pc,         \* what each thread does
    step,       \* the number of its step or opening
    error,      \* libgit2's last error in the thread: the step it is of, or 0
    rec,        \* the record being logged
    then,       \* where gh_log returns to
    lines,      \* the line the last gh_log wrote, if it did
    dropped     \* the level for which it returned early, if it did

config == <<env, once, g_log_level, g_log_fp>>
vars == <<config, pc, step, error, rec, then, lines, dropped>>

\* The level is one, or it is unset or names none.
Envs == [level : {-1} \cup Levels, file : {"unset", "ok", "denied"}]

NoRec == [level |-> OFF, error |-> 0, of |-> 0, opens |-> FALSE]

Init ==
    /\ env \in Envs
    /\ once = "no" /\ g_log_level = INFO /\ g_log_fp = "stderr"
    /\ pc = [t \in Threads |-> "idle"] /\ step = [t \in Threads |-> 0]
    /\ error = [t \in Threads |-> 0]
    /\ rec = [t \in Threads |-> NoRec] /\ then = [t \in Threads |-> "idle"]
    /\ lines = <<>> /\ dropped = {}

Go(t, to) == pc' = [pc EXCEPT ![t] = to]

-----------------------------------------------------------------------------
(* Steps and libgit2 calls.                                                *)

\* Mutant: a step is begun like an opening, without git_error_clear.
BeginKeeps(t) ==
    /\ pc[t] = "idle" /\ step[t] < MaxSteps /\ Go(t, "calls")
    /\ step' = [step EXCEPT ![t] = @ + 1]
    /\ UNCHANGED <<config, error, rec, then, lines, dropped>>

\* git_error_clear, then the step.
Begin(t) ==
    /\ pc[t] = "idle" /\ step[t] < MaxSteps /\ Go(t, "calls")
    /\ step' = [step EXCEPT ![t] = @ + 1]
    /\ error' = [error EXCEPT ![t] = 0]
    /\ UNCHANGED <<config, rec, then, lines, dropped>>

Log(t, level, message, to) ==
    /\ rec' = [rec EXCEPT ![t] = [level |-> level, error |-> message,
                                  of |-> step[t], opens |-> pc[t] = "opens"]]
    /\ then' = [then EXCEPT ![t] = to]
    /\ Go(t, "gh_log")

\* "Not found" and "unborn branch" are normal outcomes.
gh_git_err_level(code) == IF code = "ENOTFOUND" THEN DEBUG ELSE ERROR

\* A libgit2 call fails, with a message or without; GH_CHECK_RET logs it.
CallFails(t) ==
    /\ pc[t] = "calls"
    /\ \E code \in {"ENOTFOUND", "other"}, says \in BOOLEAN :
          LET message == IF says THEN step[t] ELSE error[t] IN
          /\ error' = [error EXCEPT ![t] = message]
          /\ Log(t, gh_git_err_level(code), message, "failed")
    /\ UNCHANGED <<config, step, lines, dropped>>

CallsSucceed(t) ==
    /\ pc[t] = "calls" /\ Go(t, "ended")
    /\ UNCHANGED <<config, step, error, rec, then, lines, dropped>>

\* gh_log_step: a failed step that may not fail, or a slow one, is a warning.
StepLevel(failed, optional, slow) ==
    IF (failed /\ ~optional) \/ slow THEN WARN ELSE DEBUG

StepEnds(t) ==
    /\ pc[t] \in {"ended", "failed"}
    /\ \E optional, slow \in BOOLEAN :
          Log(t, StepLevel(pc[t] = "failed", optional, slow), 0, "idle")
    /\ UNCHANGED <<config, step, error, lines, dropped>>

-----------------------------------------------------------------------------
(* Openings.                                                               *)

\* The worker, or a task, on a thread of the pool that has run steps before; or
\* repo_init, which opens after it failed to discover.  The error stays.
Open(t) ==
    /\ pc[t] = "idle" /\ step[t] < MaxSteps /\ Go(t, "opens")
    /\ step' = [step EXCEPT ![t] = @ + 1]
    /\ UNCHANGED <<config, error, rec, then, lines, dropped>>

\* If libgit2 fails without a message, what is logged is the error it finds.
OpenFails(t) ==
    /\ pc[t] = "opens"
    /\ \E level \in {WARN, ERROR}, says \in BOOLEAN :
          LET message == IF says THEN step[t] ELSE error[t] IN
          /\ error' = [error EXCEPT ![t] = message]
          /\ Log(t, level, message, "idle")
    /\ UNCHANGED <<config, step, lines, dropped>>

OpenSucceeds(t) ==
    /\ pc[t] = "opens" /\ Go(t, "idle")
    /\ UNCHANGED <<config, step, error, rec, then, lines, dropped>>

-----------------------------------------------------------------------------
(* gh_log.                                                                 *)

gh_log_parse_level(s, fallback) == IF s \in Levels THEN s ELSE fallback

\* Mutant: a flag, set before the variables are.
OnceAsFlag(t) ==
    /\ pc[t] = "gh_log"
    /\ \/ once = "no" /\ once' = "done" /\ Go(t, "init")
       \/ once = "done" /\ once' = once /\ Go(t, "test")
    /\ UNCHANGED <<env, g_log_level, g_log_fp, step, error, rec, then, lines, dropped>>

\* pthread_once: the first thread configures, the others wait for it.
Once(t) ==
    /\ pc[t] = "gh_log"
    /\ \/ once = "no" /\ once' = "busy" /\ Go(t, "init")
       \/ once = "done" /\ once' = once /\ Go(t, "test")
    /\ UNCHANGED <<env, g_log_level, g_log_fp, step, error, rec, then, lines, dropped>>

\* gh_log_init_once: a file that cannot be opened leaves stderr, with a line.
InitOnce(t) ==
    /\ pc[t] = "init" /\ Go(t, "test") /\ once' = "done"
    /\ g_log_level' = gh_log_parse_level(env.level, g_log_level)
    /\ g_log_fp' = IF env.file = "ok" THEN "file" ELSE "stderr"
    /\ UNCHANGED <<env, step, error, rec, then, lines, dropped>>

\* The record and the place to return to are of the call that ends.
Return(t) ==
    /\ Go(t, then[t])
    /\ rec' = [rec EXCEPT ![t] = NoRec] /\ then' = [then EXCEPT ![t] = "idle"]

TooLow(t) ==
    /\ pc[t] = "test" /\ rec[t].level < g_log_level
    /\ Return(t) /\ dropped' = {rec[t].level} /\ lines' = <<>>
    /\ UNCHANGED <<config, step, error>>

Least(a, b) == IF a < b THEN a ELSE b

\* Mutant: a line too long is cut with its newline.
LineCut(len) ==
    LET n == Prefix + Least(len, MsgSize - 1) + 1 IN
    [size |-> Least(n, BufSize - 1), newline |-> n < BufSize]

\* The message is cut to its buffer, the line to its own, but not the newline.
Line(len) ==
    LET n == Prefix + Least(len, MsgSize - 1) + 1 IN
    [size |-> Least(n, BufSize - 1), newline |-> TRUE]

\* One fwrite, under the lock of the stream.
Write(t) ==
    /\ pc[t] = "test" /\ rec[t].level >= g_log_level
    /\ \E len \in Lengths :
          lines' = <<[to |-> g_log_fp, rec |-> rec[t], line |-> Line(len)]>>
    /\ Return(t) /\ dropped' = {}
    /\ UNCHANGED <<config, step, error>>

Next == \E t \in Threads :
    \/ Begin(t) \/ CallFails(t) \/ CallsSucceed(t) \/ StepEnds(t)
    \/ Open(t) \/ OpenFails(t) \/ OpenSucceeds(t)
    \/ Once(t) \/ InitOnce(t) \/ TooLow(t) \/ Write(t)

Spec == Init /\ [][Next]_vars

Logs(t) == Once(t) \/ InitOnce(t) \/ TooLow(t) \/ Write(t)

\* A thread in gh_log goes on.
FairSpec == Spec /\ \A t \in Threads : WF_vars(Logs(t))

-----------------------------------------------------------------------------
(* Properties.                                                             *)

Rec == [level : Levels, error : 0..MaxSteps, of : 0..MaxSteps, opens : BOOLEAN]
Written == [to : {"stderr", "file"}, rec : Rec,
            line : [size : 1..(BufSize - 1), newline : BOOLEAN]]

Places == {"idle", "opens", "calls", "ended", "failed", "gh_log", "init", "test"}

\* The log's configuration, the threads' places and what was written, which
\* fits its buffer.
TypeOK ==
    /\ env \in Envs /\ once \in {"no", "busy", "done"}
    /\ g_log_level \in Levels /\ g_log_fp \in {"stderr", "file"}
    /\ pc \in [Threads -> Places]
    /\ then \in [Threads -> {"idle", "failed"}]
    /\ step \in [Threads -> 0..MaxSteps] /\ error \in [Threads -> 0..MaxSteps]
    /\ rec \in [Threads -> Rec]
    /\ dropped \subseteq Levels /\ lines \in Seq(Written)

\* "read once on first log call": no record is judged, or written, by the
\* defaults while another thread still configures.
ConfiguredFirst ==
    LET level == gh_log_parse_level(env.level, INFO) IN
    /\ \A l \in dropped : l < level
    /\ \A i \in 1..Len(lines) :
          /\ lines[i].rec.level >= level
          /\ lines[i].to = "file" <=> env.file = "ok"

\* "truncated: keep the trailing newline": lines of different threads stay
\* lines, however long a message is.
LinesEnd == \A i \in 1..Len(lines) : lines[i].line.newline

\* The message is of the record's step, or older in the record of an opening.
MessageOf(r) == r.error \in {0, r.of} \/ (r.opens /\ r.error < r.of)

\* "Logs '<what> failed: code=N: <libgit2 message>'": the message in the line of
\* a step is of that step, never of one the same thread ran before.  The line of
\* an opening may carry the message of an earlier step, and no other.
MessageOfThisStep == \A i \in 1..Len(lines) : MessageOf(lines[i].rec)

-----------------------------------------------------------------------------
(* What is true between any two steps, so that the properties stay true.   *)

\* Until it is done the configuration has its defaults; one thread does it,
\* and no record is judged before.
ConfiguredOnce ==
    /\ once # "done" => g_log_level = INFO
    /\ once = "done" =>
          /\ g_log_level = gh_log_parse_level(env.level, INFO)
          /\ g_log_fp = IF env.file = "ok" THEN "file" ELSE "stderr"
    /\ \A t \in Threads :
          /\ pc[t] = "init" => once = "busy"
          /\ pc[t] = "test" => once = "done"
    /\ \A t, u \in Threads : pc[t] = "init" /\ pc[u] = "init" => t = u

\* A thread's last error is of its step or an earlier one; while a step makes its
\* calls, and in the line of a step, it is of that step or none.
ErrorOfThisStep ==
    \A t \in Threads :
        /\ error[t] <= step[t]
        /\ pc[t] = "calls" => error[t] \in {0, step[t]}
        /\ MessageOf(rec[t])

LogInv ==
    /\ TypeOK /\ ConfiguredOnce /\ ErrorOfThisStep
    /\ ConfiguredFirst /\ LinesEnd /\ MessageOfThisStep
=============================================================================
