----------------------------- MODULE FuzzyJobs -----------------------------
(***************************************************************************)
(* The fuzzy search server's handling of messages: handle_json_msg with    *)
(* its flags "job" and "cancel", the timer that tries a message again, the *)
(* pool thread that runs a search or loads the file list, and the grep     *)
(* process.                                                                *)
(*                                                                         *)
(* Searches of files, paths, most recently used files and yanks are alike; *)
(* "init" stands for the commands that load a list, "search" for those     *)
(* that search it.  Of what libuv may refuse only uv_spawn is modelled: a  *)
(* uv_read_start that fails after it (grep.c:142) and a uv_queue_work that *)
(* fails are left out.                                                     *)
(***************************************************************************)
EXTENDS Integers, Sequences, FiniteSets

CONSTANTS
    MaxMsgs,        \* bound: messages of the client
    MaxFiles,       \* bound: files of a list
    MaxOutput,      \* bound: reads that a grep's output takes
    Failures        \* which of "spawn", "popen" may fail

JobsAssumption ==
    /\ MaxMsgs \in Nat /\ MaxFiles \in Nat /\ MaxOutput \in Nat
    /\ Failures \subseteq {"spawn", "popen"}

Commands == {"init", "search", "write_mru", "grep"}
Messages == [n : 1..MaxMsgs, seq : 1..MaxMsgs, cmd : Commands]
None == [n |-> 0, seq |-> 0, cmd |-> "none"]

VARIABLES
    inbox,      \* messages the server has not read
    sent,       \* how many the client wrote
    cancel, job, current_seq,       \* the variables of json_msg_handler.c
    timers,     \* messages that are to be tried again
    work,       \* the message the pool runs, or None
    place,      \* where: "queued", "runs", "after"
    at,         \* the search's place in the list
    list,       \* the list it captured: which, and how long
    cache,      \* g_f_cache and g_f_cache_len
    freed,      \* lists freed so far
    proc,       \* the grep process: "none", "runs", "killed", "exited"
    grep,       \* its message
    output,     \* reads its output will still take
    answers,    \* what the client has been sent, in order
    fate,       \* what became of each message
    spoiled,    \* messages whose job was cancelled, or began when another was
    lossy,      \* messages whose grep's lines were dropped
    misused     \* what was read when freed, or before it was loaded

flags == <<cancel, job, current_seq>>
pool == <<work, place, at, list>>
lists == <<cache, freed, misused>>
child == <<proc, grep, output>>
seen == <<answers, fate, spoiled, lossy>>
vars == <<inbox, sent, flags, timers, pool, lists, child, seen>>

Init ==
    /\ inbox = <<>> /\ sent = 0
    /\ cancel = FALSE /\ job = FALSE /\ current_seq = 0
    /\ timers = {} /\ work = None /\ place = "none" /\ at = 0
    /\ list = [id |-> 0, len |-> 0] /\ cache = [id |-> 0, len |-> 0]
    /\ freed = {} /\ misused = {}
    /\ proc = "none" /\ grep = None /\ output = 0
    /\ answers = <<>> /\ fate = [n \in 1..MaxMsgs |-> "none"] /\ spoiled = {} /\ lossy = {}

Becomes(m, f) == fate' = [fate EXCEPT ![m.n] = f]

-----------------------------------------------------------------------------
\* The client numbers its queries; two messages may belong to one.
ClientSends ==
    /\ sent < MaxMsgs /\ sent' = sent + 1
    /\ \E c \in Commands, seq \in 1..MaxMsgs :
          LET last == IF inbox # <<>> THEN inbox[Len(inbox)].seq ELSE current_seq
              m == [n |-> sent', seq |-> seq, cmd |-> c] IN
          /\ seq \in {last, last + 1}
          /\ inbox' = Append(inbox, m) /\ Becomes(m, "sent")
    /\ UNCHANGED <<flags, timers, pool, lists, child, answers, spoiled, lossy>>

-----------------------------------------------------------------------------
(* handle_json_msg.                                                        *)

\* In what follows c is the value of "cancel" the message is handled with.

Old(m) == m.seq < current_seq

\* A message from a timer is taken from it.
Handled(m) == timers' = timers \ {m}

Ignore(m, c) ==
    /\ Old(m) /\ cancel' = c /\ Handled(m) /\ Becomes(m, "dropped")
    /\ UNCHANGED <<job, current_seq, pool, lists, child, answers, spoiled, lossy>>

\* A job is under way: it is cancelled, its grep gets SIGINT -- which does not
\* always work -- and a timer tries the message again.
Postpone(m, c) ==
    /\ ~Old(m) /\ job
    /\ current_seq' = m.seq /\ cancel' = TRUE /\ job' = job
    /\ timers' = timers \cup {m} /\ Becomes(m, "postponed")
    /\ proc' \in IF proc = "runs" THEN {"runs", "killed"} ELSE {proc}
    /\ spoiled' = spoiled \cup ({work.n, grep.n} \ {0})
    /\ UNCHANGED <<pool, lists, grep, output, answers, lossy>>

Idle(m, c) == ~Old(m) /\ ~job /\ current_seq' = m.seq /\ cancel' = c

\* The message's job begins; cancel may still be set for the job before it.
Begins(m, c) ==
    /\ job' = TRUE /\ Becomes(m, "started")
    /\ spoiled' = spoiled \cup IF c /\ fate[m.n] = "sent" THEN {m.n} ELSE {}

\* Mutant: the job is said to be done as soon as it is queued.
QueueSearchDone(m, c) ==
    /\ Idle(m, c) /\ Handled(m) /\ m.cmd \in {"init", "search"}
    /\ job' = FALSE /\ Becomes(m, "started")
    /\ work' = m /\ place' = "queued" /\ at' = 0 /\ list' = cache
    /\ UNCHANGED <<lists, child, answers, spoiled, lossy>>

\* queue_search: what the search will read is captured now.
QueueSearch(m, c) ==
    /\ Idle(m, c) /\ Handled(m) /\ m.cmd \in {"init", "search"} /\ Begins(m, c)
    /\ work' = m /\ place' = "queued" /\ at' = 0 /\ list' = cache
    /\ UNCHANGED <<lists, child, answers, lossy>>

\* write_mru runs at once, on the loop thread, and answers nothing.
WriteMru(m, c) ==
    /\ Idle(m, c) /\ Handled(m) /\ m.cmd = "write_mru" /\ Becomes(m, "written")
    /\ UNCHANGED <<job, pool, lists, child, answers, spoiled, lossy>>

\* queue_grep.
QueueGrep(m, c) ==
    /\ Idle(m, c) /\ Handled(m) /\ m.cmd = "grep" /\ Begins(m, c)
    /\ proc' = "runs" /\ grep' = m /\ output' \in 0..MaxOutput
    /\ UNCHANGED <<pool, lists, answers, lossy>>

\* uv_spawn fails, and job_done is commented out.
GrepNotSpawned(m, c) ==
    /\ Idle(m, c) /\ Handled(m) /\ m.cmd = "grep" /\ "spawn" \in Failures
    /\ job' = TRUE /\ Becomes(m, "failed")
    /\ UNCHANGED <<pool, lists, child, answers, spoiled, lossy>>

handle_json_msg(m, c) ==
    \/ Ignore(m, c) \/ Postpone(m, c)
    \/ QueueSearch(m, c) \/ WriteMru(m, c)
    \/ QueueGrep(m, c) \/ GrepNotSpawned(m, c)

ReadMessage ==
    /\ inbox # <<>> /\ inbox' = Tail(inbox)
    /\ handle_json_msg(Head(inbox), cancel)
    /\ UNCHANGED sent

-----------------------------------------------------------------------------
(* timer.c and handle_json_msg_again_cb.                                   *)

\* Mutant: cancel is left as it is.
TimerKeepsCancel ==
    \E m \in timers :
        ~job /\ handle_json_msg(m, cancel) /\ UNCHANGED <<inbox, sent>>

\* Every 10 ms the timer looks whether the job is done; then cancel is reset
\* and the message handled again.
Timer ==
    \E m \in timers :
        ~job /\ handle_json_msg(m, FALSE) /\ UNCHANGED <<inbox, sent>>

-----------------------------------------------------------------------------
(* The pool thread and its callback.                                       *)

PoolTakes ==
    /\ place = "queued" /\ place' = "runs"
    /\ UNCHANGED <<inbox, sent, flags, timers, work, at, list, lists, child, seen>>

Answer(m) == answers' = Append(answers, m) /\ Becomes(m, "answered")

\* init_file: the old list is freed if it was not empty and the new one is set;
\* its length only once popen has delivered it.  cancel is not looked at.
InitFile ==
    /\ place = "runs" /\ work.cmd = "init" /\ place' = "after"
    /\ freed' = freed \cup (IF cache.len > 0 THEN {cache.id} ELSE {})
    /\ \/ /\ \E n \in 0..MaxFiles : cache' = [id |-> work.n, len |-> n]
          /\ Answer(work)
       \/ /\ "popen" \in Failures /\ cache' = [cache EXCEPT !.id = work.n]
          /\ Becomes(work, "no_list") /\ UNCHANGED answers
    /\ UNCHANGED <<inbox, sent, flags, timers, work, at, list, misused, child,
                   spoiled, lossy>>

\* start_fuzzy_response looks at cancel before each file.
SearchCancelled ==
    /\ place = "runs" /\ work.cmd = "search" /\ at < list.len /\ cancel
    /\ place' = "after" /\ Becomes(work, "cancelled")
    /\ UNCHANGED <<inbox, sent, flags, timers, work, at, list, lists, child, answers,
                   spoiled, lossy>>

SearchFile ==
    /\ place = "runs" /\ work.cmd = "search" /\ at < list.len /\ ~cancel
    /\ at' = at + 1
    /\ misused' = misused
          \cup (IF list.id \in freed THEN {"freed_list"} ELSE {})
          \cup (IF fate[list.id] = "no_list" THEN {"no_list"} ELSE {})
    /\ UNCHANGED <<inbox, sent, flags, timers, work, place, list, cache, freed, child, seen>>

SearchEnds ==
    /\ place = "runs" /\ work.cmd = "search" /\ at = list.len
    /\ place' = "after" /\ Answer(work)
    /\ UNCHANGED <<inbox, sent, flags, timers, work, at, list, lists, child,
                   spoiled, lossy>>

\* after_fuzzy_file_search.
After ==
    /\ place = "after" /\ place' = "none" /\ work' = None /\ job' = FALSE
    /\ UNCHANGED <<inbox, sent, cancel, current_seq, timers, at, list, lists, child, seen>>

-----------------------------------------------------------------------------
(* The grep process and its callbacks.                                     *)

\* read_pipe: with cancel set the lines are dropped.
ReadPipe ==
    /\ proc \in {"runs", "exited"} /\ output > 0 /\ output' = output - 1
    /\ lossy' = lossy \cup IF cancel THEN {grep.n} ELSE {}
    /\ UNCHANGED <<inbox, sent, flags, timers, pool, lists, proc, grep, answers,
                   fate, spoiled>>

\* Output that libuv reads after it has reported the exit: the context is freed
\* by then.  What the write into it does is not modelled.
ReadPipeLate ==
    /\ proc = "none" /\ output > 0 /\ output' = output - 1
    /\ misused' = misused \cup {"context"}
    /\ UNCHANGED <<inbox, sent, flags, timers, pool, cache, freed, proc, grep, seen>>

GrepEnds ==
    /\ proc = "runs" /\ proc' = "exited"
    /\ UNCHANGED <<inbox, sent, flags, timers, pool, lists, grep, output, seen>>

\* Mutant: the flag is reset only for a grep that was not interrupted.
OnProcExitNotDone ==
    /\ proc \in {"killed", "exited"} /\ proc' = "none" /\ grep' = None
    /\ \/ /\ proc = "exited" /\ Answer(grep) /\ job' = FALSE
       \/ /\ proc = "killed" /\ Becomes(grep, "cancelled") /\ UNCHANGED <<answers, job>>
    /\ UNCHANGED <<inbox, sent, cancel, current_seq, timers, pool, lists, output,
                   spoiled, lossy>>

\* on_proc_exit: what SIGINT ended does not answer.
OnProcExit ==
    /\ proc \in {"killed", "exited"} /\ proc' = "none" /\ grep' = None
    /\ job' = FALSE
    /\ \/ /\ proc = "exited" /\ Answer(grep)
       \/ /\ proc = "killed" /\ Becomes(grep, "cancelled") /\ UNCHANGED answers
    /\ UNCHANGED <<inbox, sent, cancel, current_seq, timers, pool, lists, output,
                   spoiled, lossy>>

Pool == PoolTakes \/ InitFile \/ SearchCancelled \/ SearchFile \/ SearchEnds
Loop == ReadMessage \/ Timer \/ After \/ ReadPipe \/ ReadPipeLate \/ OnProcExit

Next == ClientSends \/ Pool \/ Loop \/ GrepEnds

Spec == Init /\ [][Next]_vars

\* The loop serves its callbacks, each timer among them; the pool runs what is
\* queued; a grep ends.
FairSpec ==
    /\ Spec /\ WF_vars(Pool) /\ WF_vars(GrepEnds)
    /\ WF_vars(ReadMessage) /\ WF_vars(After) /\ WF_vars(OnProcExit)
    /\ WF_vars(Timer)

-----------------------------------------------------------------------------
(* Properties.                                                             *)

\* The flags, the one work request and the one grep of the search server.
TypeOK ==
    /\ sent \in 0..MaxMsgs /\ current_seq \in 0..MaxMsgs
    /\ cancel \in BOOLEAN /\ job \in BOOLEAN
    /\ misused \subseteq {"freed_list", "no_list", "context"}
    /\ timers \subseteq Messages
    /\ work \in Messages \cup {None} /\ grep \in Messages \cup {None}
    /\ place \in {"none", "queued", "runs", "after"} /\ at \in 0..MaxFiles
    /\ output \in 0..MaxOutput
    /\ proc \in {"none", "runs", "killed", "exited"}
    /\ spoiled \subseteq 1..MaxMsgs /\ lossy \subseteq 1..MaxMsgs

\* At most one job is under way, so that the searches' static buffers, the
\* lists and the grep's globals have one user -- "assert(g_child_req == NULL)"
\* -- and only "job" sees to it.
OneJob ==
    /\ work = None \/ proc = "none"
    /\ (work # None \/ proc # "none") => job

\* A search reads the list it was queued with, and no other job frees it
\* meanwhile; only after a popen that failed is there a length and no list.
ListsLive ==
    /\ "freed_list" \notin misused
    /\ "no_list" \in misused => \E n \in 1..MaxMsgs : fate[n] = "no_list"

\* The client never gets an answer to an older query after one to a newer.
AnswersInOrder ==
    \A i \in 2..Len(answers) : answers[i - 1].seq <= answers[i].seq

\* A message is dropped only when a later one has come: what is postponed is
\* tried again.
DroppedForNewer ==
    \A n \in 1..MaxMsgs : fate[n] = "dropped" =>
        \E k \in 1..MaxMsgs : k > n /\ fate[k] # "none"

\* A job goes without an answer, or answers with lines left out, only if a later
\* message cancelled it, or if it began while the cancellation of the job before
\* was still set: a message that comes after the end of the one and before the
\* timer.
CancelledForNewer ==
    \A n \in 1..MaxMsgs : fate[n] = "cancelled" \/ n \in lossy => n \in spoiled
-----------------------------------------------------------------------------
(* What is true between any two steps, so that the properties stay true.   *)

Fates == {"none", "sent", "dropped", "postponed", "started", "written", "failed",
          "answered", "cancelled", "no_list"}
Lists == [id : 0..MaxMsgs, len : 0..MaxFiles]

Typed ==
    /\ TypeOK
    /\ inbox \in Seq(Messages) /\ answers \in Seq(Messages)
    /\ list \in Lists /\ cache \in Lists /\ freed \subseteq 0..MaxMsgs
    /\ fate \in [1..MaxMsgs -> Fates]

\* How many messages have been read.
Read == sent - Len(inbox)

\* The messages are read in the order of their numbers, and a message's fate
\* says where it is.
Tracked ==
    /\ Read \in Nat
    /\ \A i \in 1..Len(inbox) : inbox[i].n = Read + i /\ fate[Read + i] = "sent"
    /\ \A n \in 1..MaxMsgs : n <= sent <=> fate[n] # "none"
    /\ \A m \in timers : m.n <= Read /\ fate[m.n] = "postponed"
    /\ \A m, k \in timers : m.n = k.n => m = k
    /\ place \in {"queued", "runs"} => fate[work.n] = "started"
    /\ proc # "none" => fate[grep.n] = "started"

\* The pool has a message from its queue to its callback, the grep from its
\* start to its exit.
Placed ==
    /\ place = "none" <=> work = None
    /\ work # None => work.cmd \in {"init", "search"}
    /\ proc = "none" <=> grep = None

\* current_seq is the number of the latest query read: what waits for a timer is
\* of no later one, and if of an earlier one a later message has been read.
Sequenced ==
    /\ \A i \in 1..Len(inbox) : current_seq <= inbox[i].seq
    /\ \A i, j \in 1..Len(inbox) : i <= j => inbox[i].seq <= inbox[j].seq
    /\ \A m \in timers : m.seq <= current_seq /\ (m.seq < current_seq => m.n < Read)

\* No answer is to a later query than the job's, which is none later than the
\* latest.
Answered ==
    /\ \A i \in 1..Len(answers) :
          /\ answers[i].seq <= current_seq
          /\ work # None => answers[i].seq <= work.seq
          /\ proc # "none" => answers[i].seq <= grep.seq
    /\ work # None => work.seq <= current_seq
    /\ proc # "none" => grep.seq <= current_seq

\* cancel is set only for a job that is noted as spoiled.
Spoiled ==
    /\ cancel /\ work # None => work.n \in spoiled
    /\ cancel /\ proc # "none" => grep.n \in spoiled
    /\ proc = "killed" => grep.n \in spoiled

\* The list that is cached was loaded by a message that is done, is not freed, and
\* is the one that a search under way has captured.
Cached ==
    /\ \A i \in freed \cup {cache.id} : i # 0 => fate[i] \in {"answered", "no_list"}
    /\ 0 \notin freed /\ cache.id \notin freed
    /\ cache.id = 0 => cache.len = 0
    /\ place \in {"queued", "runs"} /\ work.cmd = "search" => list = cache

JobsInv ==
    /\ Typed /\ OneJob /\ ListsLive /\ AnswersInOrder /\ DroppedForNewer
    /\ CancelledForNewer
    /\ Tracked /\ Placed /\ Sequenced /\ Answered /\ Spoiled /\ Cached
=============================================================================
