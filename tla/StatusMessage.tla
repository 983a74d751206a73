--------------------------- MODULE StatusMessage ---------------------------
(***************************************************************************)
(* One message in the MessagePack layer: msgpack_handler_recv reads it,    *)
(* pair by pair; git_handler.c owns its strings while the request runs;    *)
(* msgpack_handler_send writes the response, which magit-client.el and     *)
(* magit-status.el read.                                                   *)
(*                                                                         *)
(* An allocation is named after the field that holds it; the strings of    *)
(* the pwd keys are told apart, a message may have several.                *)
(***************************************************************************)
EXTENDS Integers, Sequences, FiniteSets

CONSTANTS
    MaxPairs,       \* bound: pairs of a message
    Sizes           \* bound: encoded lengths of a response

\* msgpack_handler_send has 32 bits for a length.
MessageAssumption ==
    /\ MaxPairs \in Nat
    /\ Sizes \subseteq Nat /\ \A n \in Sizes : n \div 256^3 < 256

NULL == "NULL"
CMD_GIT_STATUS == 1

Pwds == <<"first_pwd", "second_pwd">>       \* bound: pwd keys of a message

VARIABLES
    pc,         \* the function that runs
    g_repo, g_dot_git_dir,      \* the globals of git_handler.c
    left,       \* pairs left to read
    id, cmd,    \* msgpack_handler_recv's variables
    pwd,        \* and the string it owns
    made,       \* pwd strings made
    live,       \* what is allocated
    misused,    \* what was freed, or read, when it was not live
    req,        \* the request: which allocation each field points to
    result,     \* and its result
    reply,      \* the pairs of the response
    header,     \* its four bytes
    size        \* and the length they stand for

recv == <<left, id, cmd, pwd, made>>
sent == <<reply, header, size>>
globals == <<g_repo, g_dot_git_dir>>
vars == <<pc, globals, recv, live, misused, req, result, sent>>

-----------------------------------------------------------------------------
(* The request and the response.                                           *)

\* The results of the tasks, and those of the later steps.
TaskFields ==
    {"list_z", "head_log_line", "subj", "tag_desc", "opt_tag_desc_head",
     "worktree_porcelain", "config_status_show_untracked_files", "status",
     "diff", "staged", "stash", "branches", "revision_by_idx", "logs",
     "rev_short_head", "tag_master", "tag_origin_master", "tag_origin_head",
     "origin_head", "upstream_branch_master"}
StepFields == {"branch", "upstream_branch", "upstream_subj"}
GateFields == {"root", "rev_head", "version"}

git_root_req_T == {"pwd", "repo_path", "dot_git_dir", "repo"}
                  \cup TaskFields \cup StepFields \cup GateFields

\* The fields of magit_res_T that after_git_root sets, in its order; a field
\* set twice has its last value and one left out is NULL.
res_inits ==
    <<"root", "rev_head", "list_z", "branch", "upstream_branch",
      "head_log_line", "upstream_subj", "tag_desc", "opt_tag_desc_head",
      "version", "worktree_porcelain", "dot_git_dir",
      "config_status_show_untracked_files", "status", "diff", "staged",
      "stash", "branches", "revision_by_idx", "logs", "rev_short_head",
      "tag_master", "tag_origin_master", "origin_head", "tag_origin_head",
      "upstream_branch">>

res(field) ==
    IF \E i \in 1..Len(res_inits) : res_inits[i] = field
    THEN req[field] ELSE NULL

\* enum MAGIT_RES_KEY: a key's value is its place; 0 is the id, 18 is_bare.
MAGIT_RES_KEY ==
    <<"root", "rev_head", "MAGIT_EXTENSION", "list_z", "branch",
      "head_log_line", "upstream_branch", "upstream_subj", "tag_desc",
      "opt_tag_desc_head", "version", "worktree_porcelain", "dot_git_dir",
      "config_status_show_untracked_files", "status", "diff", "staged",
      "is_bare", "stash", "branches", "revision_by_idx", "logs",
      "rev_short_head", "tag_master", "tag_origin_master", "origin_head",
      "tag_origin_head", "upstream_branch_master">>

\* The same numbers as the client's magit-info-*-enum constants name them.
magit_info_enum(field) ==
    CHOOSE k \in 1..28 : field =
        <<"root", "rev_head", "MAGIT_EXTENSION", "list_z", "branch",
          "head_log_line", "upstream_branch", "upstream_subj", "tag_desc",
          "opt_tag_desc_head", "version", "worktree_porcelain", "dot_git_dir",
          "config_status_show_untracked_files", "status", "diff", "staged",
          "is_bare", "stash", "branches", "revision_by_idx", "logs",
          "rev_short_head", "tag_master", "tag_origin_master", "origin_head",
          "tag_origin_head", "upstream_branch_master">>[k]

-----------------------------------------------------------------------------
Init ==
    /\ pc = "start" /\ g_repo = NULL /\ g_dot_git_dir = NULL
    /\ left = 0 /\ id = 0 /\ cmd = 0 /\ pwd = NULL /\ made = 0
    /\ live = {} /\ misused = {}
    /\ req = [f \in git_root_req_T |-> NULL] /\ result = -1
    /\ reply = <<>> /\ header = <<>> /\ size = 0

\* free() of a pointer that may be NULL.
Free(objects) ==
    /\ live' = live \ objects
    /\ misused' = misused \cup (objects \ (live \cup {NULL}))

Hold(objects) == live' = live \cup objects /\ UNCHANGED misused

(* git_handler_repo_init and git_handler_repo_deinit, around the loop.      *)

\* main without an argument opens nothing.
NoRepo ==
    /\ pc = "start" /\ pc' = "recv"
    /\ UNCHANGED <<globals, recv, live, misused, req, result, sent>>

\* The git directory is looked for first; if there is none, its string stays
\* behind, and the repository may open all the same.
RepoInit ==
    /\ pc = "start"
    /\ \E found, opened \in BOOLEAN :
          /\ g_dot_git_dir' = IF found THEN "g_dot_git_dir" ELSE NULL
          /\ g_repo' = IF opened THEN "g_repo" ELSE NULL
          /\ Hold({IF found THEN "g_dot_git_dir" ELSE "out"}
                  \cup IF opened THEN {"g_repo"} ELSE {})
          /\ pc' = IF opened THEN "recv" ELSE "failed"
    /\ UNCHANGED <<recv, req, result, sent>>

RepoDeinit ==
    /\ pc = "done" /\ pc' = "stopped"
    /\ Free({g_repo, g_dot_git_dir})
    /\ UNCHANGED <<globals, recv, req, result, sent>>

(* msgpack_handler_recv.                                                   *)

\* Every return frees the string the function still owns.
Return == pc' = "done" /\ Free({pwd}) /\ UNCHANGED <<globals, recv, req, result, sent>>

Recv ==
    /\ pc = "recv"
    /\ \/ Return                                        \* no map
       \/ /\ pc' = "pairs" /\ left' \in 0..MaxPairs
          /\ UNCHANGED <<globals, id, cmd, pwd, made, live, misused, req, result, sent>>

Pair == pc = "pairs" /\ left > 0 /\ left' = left - 1

KeyId ==
    /\ Pair /\ id' \in 0..1
    /\ UNCHANGED <<globals, pc, cmd, pwd, made, live, misused, req, result, sent>>

KeyCmd ==
    /\ Pair /\ cmd' \in 0..2
    /\ UNCHANGED <<globals, pc, id, pwd, made, live, misused, req, result, sent>>

\* A second pwd key replaces the first string.
KeyPwd ==
    /\ Pair /\ made < Len(Pwds) /\ made' = made + 1
    /\ pwd' = Pwds[made'] /\ Hold({pwd'})
    /\ UNCHANGED <<globals, pc, id, cmd, req, result, sent>>

\* The switch has no default: another key says nothing.
KeyOther ==
    /\ Pair
    /\ UNCHANGED <<globals, pc, id, cmd, pwd, made, live, misused, req, result, sent>>

\* A key that is no number, or a value of the wrong type.
BadPair == pc = "pairs" /\ left > 0 /\ Return

\* Mutant: the string is lent to the request and not given.
DispatchLends ==
    /\ pc = "pairs" /\ left = 0 /\ id # 0 /\ cmd = CMD_GIT_STATUS
    /\ pc' = "queue" /\ req' = [req EXCEPT !["pwd"] = pwd] /\ Free({pwd})
    /\ UNCHANGED <<globals, recv, result, sent>>

\* The command is known: the request takes the string (xfer).
Dispatch ==
    /\ pc = "pairs" /\ left = 0 /\ id # 0 /\ cmd = CMD_GIT_STATUS
    /\ pc' = "queue" /\ req' = [req EXCEPT !["pwd"] = pwd] /\ pwd' = NULL
    /\ UNCHANGED <<globals, left, id, cmd, made, live, misused, result, sent>>

NoDispatch ==
    /\ pc = "pairs" /\ left = 0 /\ (id = 0 \/ cmd # CMD_GIT_STATUS)
    /\ Return

-----------------------------------------------------------------------------
(* git_handler_queue_git_status and git_root_worker.                       *)

\* The fields the cleanup does not list.
Forgotten == {"rev_short_head", "tag_master", "tag_origin_master",
              "tag_origin_head", "origin_head", "upstream_branch_master"}
FreedFields == git_root_req_T \ Forgotten

git_root_request_cleanup == Free({req[f] : f \in FreedFields} \cup {"data"})

\* calloc fails: the string is in no one's hands.
NoMemory ==
    /\ pc = "queue" /\ pc' = "done"
    /\ req' = [req EXCEPT !["pwd"] = NULL]
    /\ UNCHANGED <<globals, recv, live, misused, result, sent>>

Calloc ==
    /\ pc = "queue" /\ pc' = "allocated" /\ Hold({"data"})
    /\ UNCHANGED <<globals, recv, req, result, sent>>

\* No repository, a repository without a path, or uv_queue_work fails: what
\* was set by then is freed.
NotQueued ==
    /\ pc \in {"allocated", "queueing"} /\ pc' = "done"
    /\ git_root_request_cleanup
    /\ UNCHANGED <<globals, recv, req, result, sent>>

Set(fields) ==
    /\ req' = [f \in git_root_req_T |-> IF f \in fields THEN f ELSE req[f]]
    /\ Hold(fields)

\* The git directory is copied.
Fill ==
    /\ pc = "allocated" /\ g_repo # NULL /\ pc' = "queueing"
    /\ Set({"repo_path"}
           \cup IF g_dot_git_dir = NULL THEN {} ELSE {"dot_git_dir"})
    /\ UNCHANGED <<globals, recv, result, sent>>

Queued ==
    /\ pc = "queueing" /\ pc' = "worker"
    /\ UNCHANGED <<globals, recv, live, misused, req, result, sent>>

\* The repository cannot be opened: the worker returns at once.
WorkerFails ==
    /\ pc = "worker" /\ pc' = "after"
    /\ UNCHANGED <<globals, recv, live, misused, req, result, sent>>

gate_result == 0

\* The tasks and steps have run; the gate decides whether there is a response.
WorkerEnds ==
    /\ pc = "worker" /\ pc' = "after"
    /\ \/ /\ Set({"repo"} \cup TaskFields \cup StepFields) /\ UNCHANGED result
       \/ /\ Set({"repo"} \cup TaskFields \cup StepFields \cup GateFields)
          /\ result' = gate_result
    /\ UNCHANGED <<globals, recv, sent>>

-----------------------------------------------------------------------------
(* after_git_root and msgpack_handler_send.                                *)

\* The keys msgpack_handler_buf_create appends, in order; the one that names
\* is_bare, and the id, have a number for their value.
appended == <<0, 1, 2, 4, 5, 6, 7, 8, 9, 10, 11, 12, 13, 14, 15, 16, 17, 18, 19,
              20, 21, 22, 23, 24, 25, 26, 27, 28>>

\* Mutant: the values shifted by a key.
append_key_val_shifted(k) ==
    <<k, IF k = 0 THEN "id"
         ELSE IF MAGIT_RES_KEY[k] = "is_bare" THEN "is_bare"
         ELSE res(MAGIT_RES_KEY[IF k = 16 THEN 17 ELSE k])>>

append_key_val(k) ==
    <<k, IF k = 0 THEN "id"
         ELSE IF MAGIT_RES_KEY[k] = "is_bare" THEN "is_bare"
         ELSE res(MAGIT_RES_KEY[k])>>

declared == 28                                  \* msgpack_pack_map

buf_create == [i \in 1..Len(appended) |-> append_key_val(appended[i])]

\* The length, most significant byte first.
length_header(len) == [i \in 1..4 |-> (len \div 256^(4 - i)) % 256]

\* Not run to the end, or failed: only the cleanup.
AfterDrops ==
    /\ pc = "after" /\ pc' = "done" /\ git_root_request_cleanup
    /\ UNCHANGED <<globals, recv, req, result, sent>>

AfterSends ==
    /\ pc = "after" /\ result = 0 /\ pc' = "done"
    /\ reply' = buf_create
    /\ size' \in Sizes /\ header' = length_header(size')
    /\ git_root_request_cleanup
    /\ UNCHANGED <<globals, recv, req, result>>

Next ==
    \/ NoRepo \/ RepoInit \/ RepoDeinit
    \/ Recv \/ KeyId \/ KeyCmd \/ KeyPwd \/ KeyOther \/ BadPair
    \/ Dispatch \/ NoDispatch
    \/ NoMemory \/ Calloc \/ NotQueued \/ Fill \/ Queued
    \/ WorkerFails \/ WorkerEnds \/ AfterDrops \/ AfterSends

Spec == Init /\ [][Next]_vars

-----------------------------------------------------------------------------
(* magit-client.el and magit-status.el.                                    *)

\* The length the filter computes.
magit_server_filter_len(bytes) ==
    bytes[1] * 256^3 + bytes[2] * 256^2 + bytes[3] * 256 + bytes[4]

\* alist-get in a response: the first pair with the key.
magit_info_get(k) ==
    LET at == {i \in 1..Len(reply) : reply[i][1] = k} IN
    IF at = {} THEN NULL
    ELSE reply[CHOOSE i \in at : \A j \in at : i <= j][2]

-----------------------------------------------------------------------------
(* Properties.                                                             *)

Objects == git_root_req_T \cup {"data", "g_repo", "g_dot_git_dir", "out"}
            \cup {Pwds[i] : i \in 1..Len(Pwds)}

\* The handler's place, what it allocated and the fields of the request.
TypeOK ==
    /\ pc \in {"start", "failed", "recv", "pairs", "queue", "allocated", "queueing",
               "worker", "after", "done", "stopped"}
    /\ left \in 0..MaxPairs /\ id \in 0..1 /\ cmd \in 0..2
    /\ pwd \in Objects \cup {NULL} /\ made \in 0..Len(Pwds)
    /\ live \subseteq Objects /\ misused \subseteq Objects
    /\ req \in [git_root_req_T -> Objects \cup {NULL}]
    /\ result \in {-1, 0} /\ size \in Sizes \cup {0}

\* Ownership of a message's strings passes from msgpack_handler_recv to the
\* request and to its cleanup: whichever key, call or step fails, nothing is
\* freed twice, by both of them or by two fields.
FreedOnce == misused = {}

\* And nothing is left over, except what the code forgets: a pwd replaced by a
\* second key, the pwd when calloc fails, the six results that
\* git_root_request_cleanup does not list, and the string for a git directory
\* that was not found.
NothingElseLeaks ==
    pc = "stopped" =>
        live \subseteq
            {Pwds[i] : i \in 1..(made - 1)}
            \cup {Pwds[i] : i \in {j \in {made} : j > 0 /\ id # 0
                                     /\ cmd = CMD_GIT_STATUS
                                     /\ req["pwd"] = NULL}}
            \cup Forgotten
            \cup IF g_dot_git_dir = NULL THEN {"out"} ELSE {}

\* "msgpack_pack_map(&packer, 28)" promises the pairs that follow, or the
\* client's decoder reads on into the next frame; and no key comes twice.
PairsAsDeclared ==
    reply # <<>> =>
        /\ Len(reply) = declared
        /\ Cardinality({reply[i][1] : i \in 1..Len(reply)}) = declared

\* What the client reads under the number it has for a result is that result of
\* that request, by way of the request, the response, the key and the number;
\* all but upstream_branch_master, which after_git_root leaves out.
ResultsArrive ==
    reply # <<>> =>
        \A f \in (git_root_req_T
                  \ {"pwd", "repo_path", "repo", "subj",
                     "upstream_branch_master"}) :
            magit_info_get(magit_info_enum(f)) = req[f]

\* The four bytes msgpack_handler_send writes stand for the same length in
\* magit-server-filter, at every byte boundary.
LengthArrives ==
    header # <<>> => magit_server_filter_len(header) = size

\* "Return the name of the upstream branch of BRANCH": for master the client
\* reads upstream_branch_master, which a task has looked up.
UpstreamOfMasterArrives ==
    reply # <<>> => magit_info_get(magit_info_enum("upstream_branch_master"))
                        = req["upstream_branch_master"]

-----------------------------------------------------------------------------
(* What is true between any two steps, so that the properties stay true.   *)

Given == {"allocated", "queueing", "worker", "after"}       \* there is a request
Over == {"done", "stopped"}

\* The repository and its git directory live as long as the globals name them.
GlobalsOwned ==
    /\ g_repo \in {NULL, "g_repo"} /\ g_dot_git_dir \in {NULL, "g_dot_git_dir"}
    /\ "g_repo" \in live <=> g_repo # NULL /\ pc # "stopped"
    /\ "g_dot_git_dir" \in live <=> g_dot_git_dir # NULL /\ pc # "stopped"
    /\ "out" \in live => g_dot_git_dir = NULL
    /\ pc = "start" => live = {} /\ g_repo = NULL /\ g_dot_git_dir = NULL

\* The string of the message's last pwd key.
LastPwd == IF made = 0 THEN NULL ELSE Pwds[made]

\* It belongs to msgpack_handler_recv, then to the request, then to nobody.
PwdOwned ==
    /\ \A i \in 1..Len(Pwds) : Pwds[i] \in live => i <= made
    /\ pc \in {"start", "failed", "recv"} => made = 0 /\ pwd = NULL
    /\ pc = "pairs" => pwd = LastPwd
    /\ pc \in Given \cup {"queue"} =>
          req["pwd"] = LastPwd /\ id # 0 /\ cmd = CMD_GIT_STATUS
    /\ pc \notin Over => LastPwd \in live \cup {NULL}
    /\ pc \in Over /\ LastPwd \in live =>
          id # 0 /\ cmd = CMD_GIT_STATUS /\ req["pwd"] = NULL

\* A request has every string its fields point to, and no other.
FieldsOwned ==
    /\ "pwd" \notin live /\ ("data" \in live <=> pc \in Given)
    /\ \A f \in git_root_req_T \ {"pwd"} :
          /\ pc \notin Over => req[f] \in {NULL, f} /\ (f \in live <=> req[f] = f)
          /\ pc \notin Over \cup Given => req[f] = NULL
          /\ pc \in Over /\ f \in live => f \in Forgotten

\* A response is made of the request as it stays.
ReplyMade ==
    \/ reply = <<>> /\ header = <<>>
    \/ /\ pc \in Over /\ reply = buf_create
       /\ size \in Sizes /\ header = length_header(size)

MessageInv ==
    TypeOK /\ misused = {} /\ GlobalsOwned /\ PwdOwned /\ FieldsOwned /\ ReplyMade
=============================================================================
