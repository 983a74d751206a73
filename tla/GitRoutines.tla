---------------------------- MODULE GitRoutines ----------------------------
(***************************************************************************)
(* The routines of git_handler.c that a status task runs: which libgit2    *)
(* object each acquires, what it does when a call fails, what it frees on  *)
(* which path, and what it has appended to its output by then.             *)
(*                                                                         *)
(* A routine is a table of steps, executed by the actions below; a call    *)
(* may fail in every way the code distinguishes.  A pointer is "null",     *)
(* "live" or "dangling" (freed, not reset); a free of a null pointer does  *)
(* nothing, as in libgit2.                                                 *)
(***************************************************************************)
EXTENDS Integers, Sequences

CONSTANTS
    LogLimit,       \* commits get_log writes: 30
    TagSearch,      \* commits get_tag_desc looks at: 1000
    MaxItems        \* bound: iterations of a loop

LimitsAssumption ==
    LogLimit \in Nat /\ TagSearch \in Nat /\ MaxItems \in Nat

VARIABLES
    routine,    \* the routine that runs, or ran last
    pc,         \* its next step; 0: none runs
    ptr,        \* its pointers
    rc,         \* its variable ret
    out,        \* records appended to its output
    count,      \* its own counter of commits
    items,      \* iterations so far
    broken,     \* what it did to its pointers that it may not do
    failed      \* the calls that failed

vars == <<routine, pc, ptr, rc, out, count, items, broken, failed>>

-----------------------------------------------------------------------------
(* Steps.                                                                  *)

Handles == {"branch", "upstream", "obj", "sid", "ref", "odb", "path",
            "cgraph", "walker", "commit", "up_buf", "iter", "index",
            "head_ref", "head_obj", "diff", "buf", "status", "config",
            "value", "names", "wt", "wt_repo", "lock_reason", "match",
            "tag_names", "tag_ref", "tag", "tag_commit", "tag_name", "head",
            "resolved"}

Op(op, h, uses, to) ==
    [op |-> op, h |-> h, uses |-> uses, to |-> to, miss |-> "-", at |-> "-"]

At(label, step) == [step EXCEPT !.at = label]

Try(h, to) == Op("try", h, "-", to)                \* ret = call; < 0: goto
TryWith(h, uses, to) == Op("try", h, uses, to)     \* the same, reads "uses"
Ask(h, to) == Op("ask", h, "-", to)                \* ret is left alone
AskWith(h, uses, to) == Op("ask", h, uses, to)
Find(h, uses, miss, to) == [Op("find", h, uses, to) EXCEPT !.miss = miss]
Next_(h, to) == Op("next", h, "-", to)             \* an iterator
More(to) == Op("more", "-", "-", to)               \* a counted loop
Limit(to) == Op("limit", "-", "-", to)
If(h, to) == Op("if", h, "-", to)                  \* skip unless h is set
Put(uses) == Op("put", "-", uses, "-")             \* append a record
Free(h) == Op("free", h, "-", "-")
Null(h) == Op("null", h, "-", "-")                 \* set, or enter its scope
Give(h) == Op("give", h, "-", "-")                 \* another owns it now
Count == Op("count", "-", "-", "-")
Goto(to) == Op("goto", "-", "-", to)
Ok == Op("set", "ok", "-", "-")
Error == Op("set", "error", "-", "-")
Finished == Op("finished", "-", "-", "-")          \* ITEROVER is not an error

Exit == At("exit", Op("goto", "-", "-", "exit"))   \* the closing brace

-----------------------------------------------------------------------------
(* The routines.                                                           *)

get_upstream_branch ==
    <<Try("branch", "out"), TryWith("upstream", "branch", "out"),
      TryWith("-", "upstream", "out"), Put("upstream"),
      At("out", Free("upstream")), Free("branch"), Exit>>

get_rev_parse_short_head ==
    <<Try("obj", "out"), TryWith("sid", "obj", "out"), Put("sid"),
      At("out", Free("sid")), Free("obj"), Exit>>

\* Mutant: the reference is freed before its target is copied.
get_symbolic_ref_freed ==
    <<Try("ref", "out"), AskWith("-", "ref", "none"),
      AskWith("-", "ref", "none"), Free("ref"), Put("ref"), Goto("exit"),
      At("none", Error), At("out", Free("ref")), Exit>>

get_symbolic_ref ==
    <<Try("ref", "out"), AskWith("-", "ref", "none"),
      AskWith("-", "ref", "none"), Put("ref"), Goto("out"),
      At("none", Error), At("out", Free("ref")), Exit>>

load_commit_graph ==
    <<Try("odb", "exit"), Ask("-", "nopath"), Ask("path", "nopath"),
      Try("cgraph", "nograph"), Free("path"),
      TryWith("-", "cgraph", "refused"), Give("cgraph"), Free("odb"), Ok,
      Goto("exit"),
      At("nopath", Free("odb")), Error, Goto("exit"),
      At("nograph", Free("path")), Free("odb"), Ok, Goto("exit"),
      At("refused", Free("cgraph")), Free("odb"), Exit>>

get_log ==
    <<Try("walker", "out"), Try("-", "out"), Try("-", "out"),
      At("while", Next_("-", "over")), Limit("over"),
      Try("commit", "while"), Put("commit"), Free("commit"),
      Null("commit"), Count, Goto("while"),
      At("over", Finished),
      At("out", Free("commit")), Free("walker"), Exit>>

append_branch_record ==
    <<Try("-", "out"), Find("up_buf", "-", "oid", "out"),
      At("oid", Ask("-", "write")), If("up_buf", "summary"),
      AskWith("-", "up_buf", "summary"), TryWith("-", "up_buf", "out"),
      At("summary", Ask("commit", "write")),
      At("write", Put("-")), Ok,
      At("out", Free("commit")), Free("up_buf"), Exit>>

\* Mutant: the reference is freed only when its record was written.
get_branch_list_leaking ==
    <<Try("iter", "exit"),
      At("while", Next_("ref", "over")), TryWith("-", "ref", "out"),
      Put("ref"), Free("ref"), Null("ref"), Goto("while"),
      At("over", Finished), At("out", Free("iter")), Exit>>

get_branch_list ==
    <<Try("iter", "exit"),
      At("while", Next_("ref", "over")), TryWith("-", "ref", "drop"),
      Put("ref"), Free("ref"), Null("ref"), Goto("while"),
      At("drop", Free("ref")), Null("ref"), Goto("out"),
      At("over", Finished), At("out", Free("iter")), Exit>>

get_ref_oid == <<Try("-", "exit"), Put("-"), Exit>>

get_rev_parse_verify ==
    <<Try("obj", "exit"), Put("obj"), Free("obj"), Exit>>

get_staged ==
    <<Try("index", "exit"), TryWith("-", "index", "out"),
      Find("head_ref", "-", "diff", "out"),
      TryWith("head_obj", "head_ref", "out"),
      At("diff", TryWith("diff", "index", "out")),
      TryWith("-", "diff", "out"), TryWith("buf", "diff", "out"),
      Put("buf"),
      At("out", Free("buf")), Free("diff"), Free("head_obj"),
      Free("head_ref"), Free("index"), Exit>>

get_diff_patch ==
    <<Try("diff", "out"), TryWith("-", "diff", "out"),
      TryWith("buf", "diff", "out"), Put("buf"),
      At("out", Free("buf")), Free("diff"), Exit>>

get_status_porcelain_z ==
    <<Try("status", "exit"),
      At("for", More("done")), AskWith("-", "status", "for"),
      Put("status"), Goto("for"),
      At("done", Free("status")), Ok, Exit>>

get_config_status_show_untracked_files ==
    <<Try("config", "exit"), Try("value", "unset"), Put("value"),
      At("unset", Free("value")), Free("config"), Ok, Exit>>

list_worktrees_porcelain ==
    <<Put("-"), Ask("head_ref", "linked"), Put("head_ref"), Free("head_ref"),
      At("linked", Try("names", "exit")),
      At("for", More("done")), Null("wt"), Null("wt_repo"),
      Null("lock_reason"), AskWith("wt", "names", "for"), Put("wt"),
      AskWith("wt_repo", "wt", "locked"),
      AskWith("head_ref", "wt_repo", "close"), Free("head_ref"),
      At("close", Free("wt_repo")),
      At("locked", AskWith("lock_reason", "wt", "prune")),
      At("prune", Free("lock_reason")), AskWith("-", "wt", "entry"),
      At("entry", Free("wt")), Goto("for"),
      At("done", Free("names")), Ok, Exit>>

tag_cb ==
    <<Ask("obj", "exit"), AskWith("commit", "obj", "free"),
      AskWith("-", "commit", "free"), Ask("match", "free"),
      Give("match"),
      At("free", Free("commit")), Free("obj"), Exit>>

get_tag_desc_if_match ==
    <<Try("head", "exit"), Find("match", "head", "none", "failed"),
      At("none", Free("head")), If("match", "end"), Put("match"),
      Free("match"), At("end", Ok), Goto("exit"),
      At("failed", Free("head")), Exit>>

get_tag_desc ==
    <<Try("head_ref", "empty"), TryWith("head_obj", "head_ref", "unpeeled"),
      Free("head_ref"), Free("head_obj"),
      Try("walker", "out"), Try("-", "out"),
      At("while", Next_("-", "found")), Limit("found"),
      Try("commit", "while"), Null("tag_names"), Try("tag_names", "list"),
      At("for", More("untagged")),
      Null("tag_ref"), Null("tag"), Null("tag_commit"),
      TryWith("tag_ref", "tag_names", "for"),
      AskWith("-", "tag_ref", "symbolic"),
      TryWith("tag", "tag_ref", "lightweight"), Free("tag_ref"),
      TryWith("tag_commit", "tag", "nocommit"), Free("tag"),
      AskWith("-", "tag_commit", "other"),
      Ask("tag_name", "oom"),
      At("oom", Free("tag_commit")), Free("tag_names"), Goto("found"),
      At("other", Free("tag_commit")), Goto("for"),
      At("nocommit", Free("tag")), Goto("for"),
      At("lightweight", Free("tag_ref")), Goto("for"),
      At("symbolic", Free("tag_ref")), Goto("for"),
      At("untagged", Free("tag_names")), Free("commit"), Null("commit"),
      Count, Goto("while"),
      At("list", Free("commit")), Goto("while"),
      At("found", If("tag_name", "end")), Put("tag_name"),
      Free("tag_name"),
      At("end", Ok), At("out", Free("commit")), Free("walker"),
      Goto("exit"),
      At("unpeeled", Free("head_ref")), Goto("exit"),
      At("empty", Ok), Exit>>

get_branch_upstream_name ==
    <<Try("branch", "exit"), TryWith("upstream", "branch", "none"),
      Free("branch"), TryWith("-", "upstream", "out"), Put("upstream"),
      At("out", Free("upstream")), Goto("exit"),
      At("none", Free("branch")), Exit>>

git_head_subject ==
    <<Try("head", "exit"), TryWith("obj", "head", "unpeeled"),
      Free("head"), Put("obj"), Free("obj"), Goto("exit"),
      At("unpeeled", Free("head")), Exit>>

git_symbolic_ref_short_head ==
    <<Try("head_ref", "exit"), AskWith("-", "head_ref", "none"),
      AskWith("-", "head_ref", "none"),
      TryWith("resolved", "head_ref", "unborn"), Put("resolved"),
      Free("resolved"), Free("head_ref"), Goto("exit"),
      At("unborn", Put("head_ref")), Free("head_ref"), Ok, Goto("exit"),
      At("none", Free("head_ref")), Error, Exit>>

git_config_list_z ==
    <<Try("config", "exit"), TryWith("iter", "config", "noiter"),
      At("while", Next_("-", "over")), Put("iter"), Goto("while"),
      At("over", Free("iter")), Free("config"), Finished, Goto("exit"),
      At("noiter", Free("config")), Exit>>

git_rev_head ==
    <<Try("head", "exit"), AskWith("-", "head", "none"), Put("head"),
      Free("head"), Goto("exit"),
      At("none", Error), Free("head"), Exit>>

\* The task of each field, by the name the worker logs it under; the three
\* look-ups of a tag or of the stash differ in the reference only.
Steps(name) ==
    CASE name = "config_list_z" -> git_config_list_z
      [] name = "head_subject" -> git_head_subject
      [] name = "tag_desc" -> get_tag_desc
      [] name = "tag_desc_if_match" -> get_tag_desc_if_match
      [] name = "worktrees_porcelain" -> list_worktrees_porcelain
      [] name = "config_show_untracked_files" -> get_config_status_show_untracked_files
      [] name = "status_porcelain_z" -> get_status_porcelain_z
      [] name = "diff_patch" -> get_diff_patch
      [] name = "staged" -> get_staged
      [] name = "stash_oid" -> get_ref_oid
      [] name = "branch_list" -> get_branch_list
      [] name = "rev_parse_verify" -> get_rev_parse_verify
      [] name = "log" -> get_log
      [] name = "rev_parse_short_head" -> get_rev_parse_short_head
      [] name = "origin_head" -> get_symbolic_ref
      [] name = "upstream_branch_master" -> get_upstream_branch
      [] name = "rev_head" -> git_rev_head
      [] name = "symbolic_ref_short_head" -> git_symbolic_ref_short_head
      [] name = "branch_upstream_name" -> get_branch_upstream_name
      [] name = "branch_record" -> append_branch_record
      [] name = "tag_cb" -> tag_cb
      [] name = "commit_graph" -> load_commit_graph

Routines ==
    {"config_list_z", "head_subject", "tag_desc", "tag_desc_if_match",
     "worktrees_porcelain", "config_show_untracked_files",
     "status_porcelain_z", "diff_patch", "staged", "stash_oid",
     "branch_list", "rev_parse_verify", "log",
     "rev_parse_short_head", "origin_head",
     "upstream_branch_master", "rev_head",
     "symbolic_ref_short_head", "branch_upstream_name",
     "branch_record", "tag_cb", "commit_graph"}

-----------------------------------------------------------------------------
(* Execution.                                                              *)

Running == pc # 0
Step == Steps(routine)[pc]
Label(l) == CHOOSE i \in DOMAIN Steps(routine) : Steps(routine)[i].at = l

\* What a step does wrong: it reads an object that is gone, frees one twice,
\* or loses the only pointer to one.
Misuse(s) ==
    (IF s.uses \in Handles /\ ptr[s.uses] # "live"
        THEN {<<"use", s.uses>>} ELSE {})
    \cup (IF s.op = "free" /\ ptr[s.h] = "dangling"
        THEN {<<"free", s.h>>} ELSE {})

Lost(h) == IF h \in Handles /\ ptr[h] = "live" THEN {<<"lost", h>>} ELSE {}

Point(h, to) == ptr' = IF h \in Handles THEN [ptr EXCEPT ![h] = to] ELSE ptr

Init ==
    /\ routine = "config_list_z" /\ pc = 0
    /\ ptr = [h \in Handles |-> "null"]
    /\ rc = "ok" /\ out = 0 /\ count = 0 /\ items = 0
    /\ broken = {} /\ failed = {}

\* The runner calls the task function, with an empty output.
Call ==
    /\ ~Running
    /\ routine' \in Routines
    /\ pc' = 1
    /\ ptr' = [h \in Handles |-> "null"]
    /\ rc' = "ok" /\ out' = 0 /\ count' = 0 /\ items' = 0
    /\ broken' = {} /\ failed' = {}

\* A call into libgit2 succeeds; it may have something to return or not.
Works ==
    /\ Running
    /\ \/ Step.op \in {"try", "ask", "find"} /\ items' = items
       \/ /\ Step.op \in {"next", "more"}
          /\ items < MaxItems /\ items' = items + 1
    /\ pc' = pc + 1
    /\ Point(Step.h, "live")
    /\ rc' = IF Step.op \in {"try", "find", "next"} THEN "ok" ELSE rc
    /\ broken' = broken \cup Misuse(Step) \cup Lost(Step.h)
    /\ UNCHANGED <<routine, out, count, failed>>

\* It fails.  libgit2 may or may not clear the pointer it was to set.
Fails ==
    /\ Running
    /\ Step.op \in {"try", "ask", "find", "next"}
    /\ pc' = Label(Step.to)
    /\ \/ ptr' = ptr
       \/ Step.h \in Handles /\ ptr[Step.h] = "dangling" /\ Point(Step.h, "null")
    /\ rc' = IF Step.op = "ask" THEN rc ELSE "error"
    /\ failed' = failed \cup {<<Step.op, Step.h>>}
    /\ broken' = broken \cup Misuse(Step)
    /\ UNCHANGED <<routine, out, count, items>>

\* Nothing is there, which the code tells from a failure.
Misses ==
    /\ Running
    /\ Step.op = "find"
    /\ pc' = Label(Step.miss)
    /\ rc' = "none"
    /\ UNCHANGED <<routine, ptr, out, count, items, broken, failed>>

\* The last item has been seen.
Ends ==
    /\ Running
    /\ Step.op \in {"next", "more"}
    /\ pc' = Label(Step.to)
    /\ rc' = IF Step.op = "next" THEN "over" ELSE rc
    /\ UNCHANGED <<routine, ptr, out, count, items, broken, failed>>

\* The bound of the search: LogLimit for the log, TagSearch for the tags.
Bound == IF routine = "log" THEN LogLimit ELSE TagSearch

Jumps ==
    /\ Running
    /\ Step.op \in {"goto", "if", "limit"} /\ Step.at # "exit"
    /\ pc' = IF \/ Step.op = "goto"
                \/ Step.op = "if" /\ ptr[Step.h] # "live"
                \/ Step.op = "limit" /\ count >= Bound
             THEN Label(Step.to) ELSE pc + 1
    /\ UNCHANGED <<routine, ptr, rc, out, count, items, broken, failed>>

Frees ==
    /\ Running
    /\ Step.op \in {"free", "null", "give"}
    /\ pc' = pc + 1
    /\ Point(Step.h, IF Step.op = "free" /\ ptr[Step.h] # "null"
                     THEN "dangling" ELSE "null")
    /\ broken' = broken \cup Misuse(Step)
                    \cup (IF Step.op = "null" THEN Lost(Step.h) ELSE {})
    /\ UNCHANGED <<routine, rc, out, count, items, failed>>

Writes ==
    /\ Running
    /\ Step.op = "put"
    /\ pc' = pc + 1
    /\ out' = out + 1
    /\ broken' = broken \cup Misuse(Step)
    /\ UNCHANGED <<routine, ptr, rc, count, items, failed>>

Sets ==
    /\ Running
    /\ Step.op \in {"set", "finished", "count"}
    /\ pc' = pc + 1
    /\ rc' = CASE Step.op = "set" -> Step.h
               [] Step.op = "finished" /\ rc = "over" -> "ok"
               [] OTHER -> rc
    /\ count' = IF Step.op = "count" THEN count + 1 ELSE count
    /\ UNCHANGED <<routine, ptr, out, items, broken, failed>>

Returns ==
    /\ Running
    /\ Step.at = "exit"
    /\ pc' = 0
    /\ UNCHANGED <<routine, ptr, rc, out, count, items, broken, failed>>

Go == Works \/ Fails \/ Misses \/ Ends \/ Jumps \/ Frees \/ Writes \/ Sets
        \/ Returns

Next == Call \/ Go

Spec == Init /\ [][Next]_vars /\ WF_vars(Go)

-----------------------------------------------------------------------------
(* Properties.                                                             *)

\* A routine's place, handles and counts.
TypeOK ==
    /\ routine \in Routines
    /\ pc \in 0..Len(Steps(routine))
    /\ ptr \in [Handles -> {"null", "live", "dangling"}]
    /\ rc \in {"ok", "error", "none", "over"}
    /\ out \in Nat /\ count \in Nat /\ items \in 0..MaxItems
    /\ broken \subseteq {"use", "free", "lost"} \X Handles

\* Whichever call fails, a routine returns with everything it acquired freed
\* or handed on: the cleanup attributes and the "out:" labels of
\* git_handler.c, on every path.
NothingLeaks ==
    /\ ~Running => \A h \in Handles : ptr[h] # "live"
    /\ \A m \in broken : m[1] # "lost"

\* No routine reads a string whose owner is gone ("copy it out before the
\* cleanup runs on return", git_handler.c:439) or frees twice.  The one
\* exception is get_tag_desc: it frees the commit when git_tag_list fails,
\* without resetting it, and frees it again if the walk ends there.
NoMisuse ==
    broken # {} =>
        /\ routine = "tag_desc" /\ <<"try", "tag_names">> \in failed
        /\ broken = {<<"free", "commit">>}

\* The routines that write one record.
Single == {"upstream_branch_master", "rev_parse_short_head", "origin_head",
           "stash_oid", "rev_parse_verify", "branch_record", "diff_patch",
           "staged", "head_subject", "rev_head", "branch_upstream_name",
           "symbolic_ref_short_head"}

\* A routine that writes one record writes it only if it succeeds, and if it
\* succeeds it has written it ("Appends ... on success",
\* git_handler.c:423, 450, 471, 929, 954; "Everything is computed; now write
\* the record", 862).
AppendsOnSuccess ==
    ~Running /\ routine \in Single => out = (IF rc = "ok" THEN 1 ELSE 0)

\* A list is reported as whole only if its iterator said that nothing is
\* left: a failure in the middle is not taken for the end.
ListsAreWhole ==
    ~Running /\ routine \in {"config_list_z", "branch_list", "log"} /\ rc = "ok"
        => \A f \in failed : f[1] # "next"

\* The log has at most the commits asked for, however many of them could
\* not be looked up (git_handler.c:735).
LogIsBounded == routine = "log" => out <= LogLimit
=============================================================================
