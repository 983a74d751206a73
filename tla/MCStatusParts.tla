--------------------------- MODULE MCStatusParts ---------------------------
(***************************************************************************)
(* The parts of a status request that share no state, checked side by side *)
(* in one run: a behaviour is a behaviour of one part.  The cells v1 to    *)
(* v15 hold that part's variables, in the order of its INSTANCE.           *)
(***************************************************************************)
EXTENDS Integers, Sequences

CONSTANTS
    Callers, MaxOut, MaxErr, PipeSize, ErrorSize,               \* Capture
    Threads, MsgSize, BufSize, Prefix, Lengths, MaxSteps,       \* Log
    Roots, Sections, MaxVersion, MaxAsked, Waiting, None,       \* Buffer
    MaxPairs, Sizes,                                            \* Message
    LogLimit, TagSearch, MaxItems                               \* Routines

VARIABLES part, v1, v2, v3, v4, v5, v6, v7, v8, v9, v10, v11, v12, v13, v14, v15

all == <<part, v1, v2, v3, v4, v5, v6, v7, v8, v9, v10, v11, v12, v13, v14, v15>>

Routines == INSTANCE GitRoutines WITH
    routine <- v1, pc <- v2, ptr <- v3, rc <- v4, out <- v5, count <- v6, items <- v7,
    broken <- v8, failed <- v9

Message == INSTANCE StatusMessage WITH
    pc <- v1, g_repo <- v2, g_dot_git_dir <- v3, left <- v4, id <- v5, cmd <- v6, pwd <- v7,
    made <- v8, live <- v9, misused <- v10, req <- v11, result <- v12, reply <- v13,
    header <- v14, size <- v15

Capture == INSTANCE SubprocessCapture WITH
    pc <- v1, ret <- v2, open <- v3, out <- v4, error <- v5, server <- v6, cloexec <- v7,
    child <- v8, held <- v9, keeps <- v10, wrote <- v11, code <- v12, pipe <- v13,
    misused <- v14, window <- v15

Log == INSTANCE ServerLog WITH
    env <- v1, once <- v2, g_log_level <- v3, g_log_fp <- v4, pc <- v5, step <- v6,
    error <- v7, rec <- v8, then <- v9, lines <- v10, dropped <- v11

Buffer == INSTANCE StatusBuffer WITH
    version <- v1, asked <- v2, info <- v3, stack <- v4, shown <- v5, left <- v6

-----------------------------------------------------------------------------
(* Repositories whose records are sent, every two of each kind.            *)

Sides == {"NONE", "ADDED", "MODIFIED", "DELETED", "RENAMED", "TYPECHANGE"}

Entry(x, y, u, path, old) ==
    [index |-> x, wt |-> y, conflicted |-> u, path |-> path, old |-> old]

\* What libgit2 reports: a file may be in the index and untracked; and names
\* that begin with a question mark.
Entries ==
    {Entry(p[1], p[2], FALSE, <<"f">>,
           IF "RENAMED" \in {p[1], p[2]} THEN <<"o">> ELSE <<>>) :
        p \in {q \in Sides \X Sides :
            /\ q[1] = "DELETED" => q[2] \in {"NONE", "ADDED"}
            /\ q[2] = "ADDED" => q[1] \in {"NONE", "DELETED"}}}
    \cup {Entry("NONE", "NONE", TRUE, <<"?", "f">>, <<>>),
          Entry("NONE", "ADDED", FALSE, <<"?", "f">>, <<>>),
          Entry("RENAMED", "NONE", FALSE, <<"f">>, <<"?", "o">>)}

Worktrees ==
    {w \in [path : {"p", "q"}, head : {"", "h"}, branch : {"b"}, detached : BOOLEAN,
            locked : BOOLEAN, reason : {"", "r"}, prunable : BOOLEAN] :
        w.reason = "" \/ w.locked}

Branches ==
    {b \in [name : {"b", "c"}, current : BOOLEAN, upstream : {"", "u"},
            track : {"none", "counts", "gone"}, ahead : {"0", "2"}, behind : {"0", "1"},
            subject : {"", "s"}] :
        /\ b.track # "none" => b.upstream # ""
        /\ b.track # "counts" => b.ahead = "0" /\ b.behind = "0"}

Tags == {<<"v">>, <<"v", "w">>, <<"v", "2", "ghash">>}

Records == INSTANCE StatusRecords WITH
    MaxRecords <- 2,
    pc <- v1, kind <- v2, given <- v3, sent <- v4, got <- v5

ASSUME PartsAssumption ==
    /\ Routines!LimitsAssumption /\ Message!MessageAssumption
    /\ Capture!CaptureAssumption /\ Log!LogAssumption
    /\ Buffer!BufferAssumption /\ Records!RecordsAssumption

-----------------------------------------------------------------------------
\* The cells a part does not use, and their values.
from12 == <<v12, v13, v14, v15>>
from10 == <<v10, v11, from12>>
from7 == <<v7, v8, v9, from10>>
from6 == <<v6, from7>>

Zero12 == v12 = 0 /\ v13 = 0 /\ v14 = 0 /\ v15 = 0
Zero10 == v10 = 0 /\ v11 = 0 /\ Zero12
Zero7 == v7 = 0 /\ v8 = 0 /\ v9 = 0 /\ Zero10
Zero6 == v6 = 0 /\ Zero7

Init ==
    \/ part = "routines" /\ Routines!Init /\ Zero10
    \/ part = "message" /\ Message!Init
    \/ part = "capture" /\ Capture!Init
    \/ part = "log" /\ Log!Init /\ Zero12
    \/ part = "buffer" /\ Buffer!Init /\ Zero7
    \/ part = "records" /\ Records!Init /\ Zero6

RoutinesStep == part = "routines" /\ Routines!Next /\ UNCHANGED <<part, from10>>
MessageStep == part = "message" /\ Message!Next /\ UNCHANGED part
CaptureStep == part = "capture" /\ Capture!Next /\ UNCHANGED part
LogStep == part = "log" /\ Log!Next /\ UNCHANGED <<part, from12>>
BufferStep == part = "buffer" /\ Buffer!Next /\ UNCHANGED <<part, from7>>
RecordsStep == part = "records" /\ Records!Next /\ UNCHANGED <<part, from6>>

Next == \/ RoutinesStep \/ MessageStep \/ CaptureStep
        \/ LogStep \/ BufferStep \/ RecordsStep

Safety == Init /\ [][Next]_all

\* The fairness of GitRoutines, SubprocessCapture and ServerLog.
Fairness ==
    /\ WF_all(part = "routines" /\ Routines!Go /\ UNCHANGED <<part, from10>>)
    /\ \A p \in Callers :
          /\ WF_all(part = "capture" /\ Capture!Works(p) /\ UNCHANGED part)
          /\ WF_all(part = "capture" /\ Capture!GitWorks(p) /\ UNCHANGED part)
    /\ \A t \in Threads :
          WF_all(part = "log" /\ Log!Logs(t) /\ UNCHANGED <<part, from12>>)

Spec == Safety /\ Fairness

-----------------------------------------------------------------------------
(* Properties.                                                             *)

\* A routine of git_handler.c frees what it acquired once, whichever call
\* fails, appends what it reports and stops where its bounds are.
RoutinesSound ==
    part = "routines" =>
        /\ Routines!TypeOK /\ Routines!NothingLeaks /\ Routines!NoMisuse
        /\ Routines!AppendsOnSuccess /\ Routines!ListsAreWhole /\ Routines!LogIsBounded

\* Each string of a request has one owner from msgpack_handler_recv to
\* git_root_request_cleanup, and only those the code forgets stay behind.
MessageOwned ==
    part = "message" => Message!TypeOK /\ Message!FreedOnce /\ Message!NothingElseLeaks

\* The client reads from a response the results the request has, under the
\* length and the count of pairs that msgpack_handler_send declares.
MessageArrives ==
    part = "message" =>
        Message!PairsAsDeclared /\ Message!ResultsArrive /\ Message!LengthArrives

\* run_git_capture returns all of the output or none, with its descriptors
\* closed once, and lends them only to a git forked in its window.
CaptureSound ==
    part = "capture" =>
        /\ Capture!TypeOK /\ Capture!AllOrNothing /\ Capture!ClosedOnce
        /\ Capture!StraysOnlyFromTheWindow

\* gh_log writes and drops by the configuration only, in whole lines; the error
\* message in the line of a step is of that step, in that of an opening, before
\* which git_root_worker and git_handler_repo_init clear nothing, perhaps older.
LogSound ==
    part = "log" =>
        /\ Log!TypeOK /\ Log!ConfiguredFirst /\ Log!LinesEnd /\ Log!MessageOfThisStep

\* The texts in a response are taken apart to what they were made from
\* (git_handler.c against the section functions).
RecordsArrive ==
    part = "records" =>
        /\ Records!UntrackedExactly /\ Records!WorktreesArrive
        /\ Records!BranchesArrive /\ Records!TagArrives

\* A locked worktree is locked for the reader of magit-list-worktrees too, with
\* the reason the server sends.
LockedWorktreesArrive == part = "records" => Records!LockedArrives

\* A status buffer shows its own repository, and git-info-for-hooks is nil
\* between commands, unless an error has left another answer in it.
BufferOwn == part = "buffer" => Buffer!TypeOK /\ Buffer!OwnRepository /\ Buffer!ClearedAtTop

\* A section is drawn from data no older than its command, from an answer or
\* from git (magit-status-setup-buffer-cb, magit-refresh).
BufferFresh == [][part = "buffer" => Buffer!DrawsFresh]_all

\* A routine, a capture or a log call is under way.
Busy ==
    CASE part = "routines" -> Routines!Running
      [] part = "capture" -> \E p \in Callers : v1[p] \notin {"idle", "done"}
      [] part = "log" -> \E t \in Threads : v5[t] \in {"gh_log", "init", "test"}
      [] OTHER -> FALSE

\* Every routine, every capture and every call of gh_log returns.  A caller
\* captures once and a thread logs so many times only: if each of them returns,
\* none is left.
PartsReturn == Busy ~> ~Busy
=============================================================================
