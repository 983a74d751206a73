--------------------------- MODULE FuzzyCommands ---------------------------
(***************************************************************************)
(* What the fuzzy search server does with a command: the fields of the     *)
(* message, the list the command is about, and the three lists -- files,   *)
(* most recently used files, yanks -- with the memory that holds them.     *)
(* One command runs at a time; FuzzyJobs has the order of messages, the    *)
(* cancellation of a job, and grep.                                        *)
(***************************************************************************)
EXTENDS Integers, Sequences, SequencesExt, FiniteSets

CONSTANTS
    Values,     \* search words
    Orders,     \* orders in which a client writes the keys of a message
    MaxLoads,   \* bound: lists loaded
    MaxLen      \* bound: lines of a list

CommandsAssumption ==
    /\ MaxLoads \in Nat /\ MaxLen \in Nat
    /\ \A o \in Orders : ToSet(o) = {"cmd", "value", "source", "seq"}

Commands == {"init_file", "file", "init_path", "path", "init_mru", "mru", "init_yank", "yank"}
Lists == {"file", "mru", "yank"}
NULL == 0
Whole == ""     \* the search word that asks for the whole list

VARIABLES
    msg,        \* the message, and what the server makes of it: see Init
    pc,         \* "idle", "queued", "after"
    job,        \* the search_data_t of the job
    cache,      \* of each list: the load it is of, or NULL, and its length
    pool,       \* of each list: the load its strings are of, or NULL
    loads,      \* how many there were
    live,       \* of each list: the caches and the pools that are allocated
    misused,    \* what was read or freed that was not there
    said        \* the answer to the last message, or Nothing

memory == <<cache, pool, loads, live, misused>>
vars == <<msg, pc, job, memory, said>>

Nothing == [list |-> "nothing", load |-> NULL, len |-> 0]
NoJob == [list |-> "none", cmd |-> "none", value |-> "none", id |-> NULL, len |-> 0]

Init ==
    /\ msg = [cmd |-> "none", value |-> "none", parsed |-> FALSE]
    /\ pc = "idle" /\ job = NoJob /\ said = Nothing
    /\ cache = [l \in Lists |-> [id |-> NULL, len |-> 0]]
    /\ pool = [l \in Lists |-> NULL]
    /\ loads = 0 /\ misused = {}
    /\ live = [l \in Lists |-> [caches |-> {}, pools |-> {}]]

-----------------------------------------------------------------------------
(* handle_json_msg.                                                        *)

\* The tokens of a message: each key and its value; seq is a number.
Tokens(cmd, value, order) ==
    FlattenSeq([i \in DOMAIN order |->
        CASE order[i] = "cmd" -> <<"cmd", cmd>>
          [] order[i] = "value" -> <<"value", value>>
          [] order[i] = "source" -> <<"list_cmd", "somewhere">>
          [] order[i] = "seq" -> <<"seq", "7">>])

Keys == {"cmd", "value", "list_cmd"}

\* Mutant: the token after a key is looked at again, as a key.
Fields_twice(tokens) ==
    FoldLeft(LAMBDA q, t :
        LET r == IF q.key = "" THEN q ELSE [q EXCEPT ![q.key] = t, !.key = ""] IN
        IF t \in Keys THEN [r EXCEPT !.key = t] ELSE r,
        [cmd |-> "", value |-> "", list_cmd |-> "", seq |-> "0", key |-> ""], tokens)

\* A known key takes the next token, whatever it is; the last number that
\* follows no such key is the sequence number.
Fields(tokens) ==
    FoldLeft(LAMBDA q, t :
        IF q.key # "" THEN [q EXCEPT ![q.key] = t, !.key = ""]
        ELSE IF t \in Keys THEN [q EXCEPT !.key = t]
        ELSE IF t = "7" THEN [q EXCEPT !.seq = t] ELSE q,
        [cmd |-> "", value |-> "", list_cmd |-> "", seq |-> "0", key |-> ""], tokens)

\* The list a command is about, and the search word it is queued with.
Queue(f) ==
    LET Captured(l, value) ==
            [list |-> l, cmd |-> f.cmd, value |-> value,
             id |-> cache[l].id, len |-> cache[l].len] IN
    CASE f.cmd \in {"init_file", "file", "init_path", "path"} -> Captured("file", f.value)
      [] f.cmd = "init_mru" -> Captured("mru", Whole)
      [] f.cmd = "mru" -> Captured("mru", f.value)
      [] f.cmd = "init_yank" -> Captured("yank", Whole)
      [] f.cmd = "yank" -> Captured("yank", f.value)
      [] OTHER -> NoJob

\* A message is read, and its job queued; uv_queue_work may fail.
handle_json_msg(cmd, value, order) ==
    /\ pc = "idle" /\ said' = Nothing
    /\ LET f == Fields(Tokens(cmd, value, order)) IN
       /\ msg' = [cmd |-> cmd, value |-> value, parsed |-> f.cmd = cmd /\ f.value = value /\ f.seq = "7"]
       /\ \/ job' = Queue(f) /\ pc' = IF job' = NoJob THEN "idle" ELSE "queued"
          \/ job' = NoJob /\ pc' = "idle"
    /\ UNCHANGED memory

-----------------------------------------------------------------------------
(* Loading.                                                                *)

New == loads + 1

\* deinit_file, only if there was a file: free() of the list and its pool.
Freed_file ==
    IF cache["file"].len = 0 THEN live["file"]
    ELSE [caches |-> live["file"].caches \ {cache["file"].id},
          pools |-> live["file"].pools \ {pool["file"]}]

\* deinit_mru and deinit_yank.
Freed(l) ==
    [caches |-> live[l].caches \ {cache[l].id}, pools |-> live[l].pools \ {pool[l]}]

With(sets) == [caches |-> sets.caches \cup {New}, pools |-> sets.pools \cup {New}]

Loading(l) ==
    /\ pc = "queued" /\ job.list = l /\ job.value = Whole /\ loads < MaxLoads
    /\ pc' = "after" /\ loads' = New
    /\ UNCHANGED <<msg, job>>

Answers(l, len) == said' = [list |-> l, load |-> New, len |-> len]

\* init_file.  If popen fails, the new list is neither cleared nor filled and
\* the old one's length stays.
init_file ==
    /\ Loading("file")
    /\ live' = [live EXCEPT !["file"] = With(Freed_file)]
    /\ pool' = [pool EXCEPT !["file"] = New]
    /\ UNCHANGED misused
    /\ \/ \E n \in 0..MaxLen :
             cache' = [cache EXCEPT !["file"] = [id |-> New, len |-> n]] /\ Answers("file", n)
       \/ /\ cache' = [cache EXCEPT !["file"].id = New]
          /\ UNCHANGED said

\* The address and the length are reset with the list.
deinit_mru == [id |-> NULL, len |-> 0]

\* init_mru: no file is an empty answer, one that cannot be read is none, and
\* neither is an empty one.
init_mru ==
    /\ Loading("mru")
    /\ pool' = [pool EXCEPT !["mru"] = New] /\ UNCHANGED misused
    /\ \/ /\ cache' = [cache EXCEPT !["mru"] = deinit_mru]
          /\ live' = [live EXCEPT !["mru"] =
                        [caches |-> Freed("mru").caches, pools |-> With(Freed("mru")).pools]]
          /\ Answers("mru", 0) \/ UNCHANGED said
       \/ \E n \in 0..MaxLen :
             /\ cache' = [cache EXCEPT !["mru"] = [id |-> New, len |-> n]]
             /\ live' = [live EXCEPT !["mru"] = With(Freed("mru"))]
             /\ IF n > 0 THEN Answers("mru", n) ELSE UNCHANGED said

\* init_yank; what qsort does with no yank is in FuzzyLists.
init_yank ==
    /\ Loading("yank")
    /\ \E n \in 0..MaxLen :
          /\ cache' = [cache EXCEPT !["yank"] = [id |-> New, len |-> n]]
          /\ IF n > 0 THEN Answers("yank", n) ELSE UNCHANGED said
    /\ pool' = [pool EXCEPT !["yank"] = New]
    /\ live' = [live EXCEPT !["yank"] = With(Freed("yank"))]
    /\ UNCHANGED misused

\* start_fuzzy_response over the list that was captured.
Search ==
    /\ pc = "queued" /\ job.value # Whole /\ pc' = "after"
    /\ said' = [list |-> job.list, load |-> job.id, len |-> job.len]
    /\ misused' = misused \cup
          (IF job.len > 0 /\ job.id \notin live[job.list].caches THEN {"freed"} ELSE {})
    /\ UNCHANGED <<msg, job, cache, pool, loads, live>>

\* after_fuzzy_*_search.
After ==
    /\ pc = "after" /\ pc' = "idle" /\ job' = NoJob
    /\ UNCHANGED <<msg, memory, said>>

Next ==
    \/ \E cmd \in Commands, value \in Values, order \in Orders : handle_json_msg(cmd, value, order)
    \/ init_file \/ init_mru \/ init_yank \/ Search \/ After

Spec == Init /\ [][Next]_vars

-----------------------------------------------------------------------------
(* Properties.                                                             *)

\* Types; what the server keeps of a list is allocated.
TypeOK ==
    /\ pc \in {"idle", "queued", "after"} /\ loads \in 0..MaxLoads
    /\ \A l \in Lists :
          /\ cache[l].id \in live[l].caches \cup {NULL} /\ cache[l].len \in 0..MaxLen
          /\ pool[l] \in live[l].pools \cup {NULL}

\* The fields arrive in any order of keys, also when the user searches for a
\* word that is a key, as "easy parsing. No depth guarantee." allows.
Parsed == msg.cmd # "none" => msg.parsed

\* An answer is about the command's list, the one loaded last, and a search
\* reads no list that is not there.
RightList ==
    /\ said # Nothing /\ msg.value # Whole /\ msg.cmd \in Lists =>
            said.list = msg.cmd /\ said.load = cache[said.list].id
    /\ misused = {}

\* A list is loaded over and over and the old one freed, with its strings; only
\* lists of files that were empty stay behind.
OnlyEmptyLeak ==
    /\ \A l \in {"mru", "yank"} :
          live[l].caches \subseteq {cache[l].id} /\ live[l].pools \subseteq {pool[l]}
    /\ Cardinality(live["file"].pools) = Cardinality(live["file"].caches)

\* A list that has a line is not forgotten when the next is loaded.
FullAreFreed ==
    \A l \in Lists : loads' # loads /\ cache[l].len > 0 /\ cache'[l].id # cache[l].id =>
       cache[l].id \notin live'[l].caches /\ pool[l] \notin live'[l].pools
=============================================================================
