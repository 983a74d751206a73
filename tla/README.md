# magit-server and its Emacs client: a TLA+ development

This repository is a fork of Magit. Besides the Lisp of Magit it holds a native
`magit-server` (C: libuv, libgit2, MessagePack) that computes what a status buffer
needs in one request, and `lisp/magit-client.el`, which starts the server, frames
requests and dispatches responses. Its source directory also keeps a fuzzy search
server that the build leaves out, and a vendored copy of klib. The modules here model
these programs; every definition is translated from the source, and `PROJECT.json`
("map") names the lines.

## 1. Inventory

| part | state it keeps | operations | talks to |
|---|---|---|---|
| process and loop (`src/src/magit_server.c`) | `g_repo`, the tty, signal and loop handles, libgit2's init count | `main`, `read_stdin`, `on_signal`, exit | stdin, SIGINT, the pool |
| frame parser (`consume_bytes`) | `g_state`, the length and payload buffers and how much of them is filled | one call per chunk read | hands payloads to the decoder |
| MessagePack layer (`msgpack_handler.c`) | none that outlives a call | `msgpack_handler_recv`, `msgpack_handler_send` | queues requests, writes stdout |
| request queue (`git_handler_queue_git_status`, `after_git_root`) | one `git_root_req_T` per request | queue, call back, free | libuv's work queue and done queue |
| worker (`git_root_worker`, `RUN_PARALLEL_TASKS`) | the fields of its request, 19 task records, 19 threads | open, fan out, join, dependent steps, gate | libgit2 |
| task functions (`task_*`, `get_*`) | libgit2 handles, an output string | one routine per field | libgit2 |
| `run_git_capture` | two pipes, a child, two buffers | fork, exec, poll, reap | a git process |
| server log (`gh_log`) | level, file, a `pthread_once` | configure, format, write | the environment, libgit2's last error |
| client (`lisp/magit-client.el`) | per root a process and a partial frame; per process a counter and the pending callbacks | start, stop, send, filter, sentinel | the server, by two pipes |
| status buffer on server data (`magit-status.el`, `magit-mode.el`, `magit-git.el`) | `git-info-for-hooks`, the mode buffer | `magit-status-req`, its callback, refresh, the readers of an answer | client |
| Magit proper (`lisp/*.el`) | buffers, sections, processes, caches | commands, refresh | git |
| fuzzy search server (`vim9-fuzzy.c`, `json_msg_handler.c`, `fuzzy.c`, `search_helper.c`, `timer.c`, `grep.c`, `yank.c`, `mru.c`, `str_pool.c`) | job and cancel flags, current sequence number, three lists, a string pool | messages, jobs on the pool, a timer, a grep | Vim; commented out of `src/src/CMakeLists.txt` |
| klib (`src/ext/klib`) | strings, tables, trees, rings, thread pools | library calls | `kstring` is under every string of the server; `khash.h` is only included |
| docs, tests, build files | - | - | - |

How the parts interact. Emacs writes frames to the server's stdin and reads frames
from its stdout. All callbacks of the server run on one loop thread, one at a time;
a status request is a `git_root_req_T` that travels loop -> work queue -> pool thread
-> done queue -> loop, and only the thread that holds it touches it. A pool thread
fans out to 19 more threads, joins them, runs the steps that depend on one another,
and sets the result; the loop thread then writes the response with blocking stdio and
frees the request. In Emacs the answer is put in a global variable for the time the
status buffer is drawn, and every section function takes its text apart.

What is hard here: ownership of the request across three kinds of thread; a loop
thread that blocks in `fwrite`; frames cut anywhere by the pipe; a bad frame in the
middle of a chunk; SIGINT while work is in flight, with `git_libgit2_shutdown` called
before the pool has stopped; requests that are dropped without a word; a sentinel of
an old process that runs after a new one was registered; callbacks that signal an
error or wait in the middle of the filter; cleanup by `goto` in twenty-two routines where
every call can fail; a global variable that an error leaves set.

For each part, what makes it correct:

| part | correct when |
|---|---|
| process and loop | nothing is taken after stdin was closed; SIGINT ends it whatever is in flight; every request is resolved |
| frame parser | the payloads are those of the byte stream, however it is cut; never outside the buffers; silent after a bad length |
| MessagePack layer | the strings of a message have one owner on every path; the response has the pairs and the length it declares; the client reads each result under its own number |
| request queue | a request has one owner at a time, is freed once, and is answered at most once under its own id |
| worker | no task thread outlives the join; the cleanup sees NULL or valid pointers; a response that is sent is complete; what it reports was read in a known window |
| task functions | whatever call fails, what was acquired is freed once; a result is appended only on success; a list that broke off is not reported as whole |
| `run_git_capture` | no hang on a full pipe; all of the output or none; descriptors closed once |
| server log | configured once before it judges; whole lines; the error message of the step a line is about |
| client | one server per root; the filter keeps its place in the stream; each answer reaches its callback once; a dead server is replaced |
| status buffer | it shows its own repository, no older than the command, and the answer is gone afterwards |
| fuzzy search server | one job at a time; answers in the order of the queries; a query is given up only for a newer one; lists outlive their searches; a name is found exactly if the word is a subsequence of it |
| klib | each structure is the map, sequence, set of blocks or sorted array it stands for; each job of a thread loop is done once |

The hazards of this code, line by line and with the properties that cover them, are
in `PROJECT.json` ("hazards").

## 2. Plan

What the server owes its client came first, then the parts it is made of, then its
client, then the data an answer carries, then the code that is kept beside the server.

| module | composes / implements |
|---|---|
| `StatusService` | abstract: submit, reply or give up, per handle |
| `StatusServer` | implements `StatusService` |
| `Framing` | the `ReadStdin`/`ProtocolError` steps of `StatusServer`, byte by byte |
| `RootWorker` | the `WorkerTake`..`AfterSend` steps of `StatusServer` for one request; implements `StatusService` with one handle |
| `GitRoutines` | what a task of `RootWorker` does inside |
| `StatusMessage`, `StatusRecords` | a message from its pairs to its response; the texts in it and their readers |
| `SubprocessCapture`, `ServerLog` | the rest of `git_handler.c` |
| `StatusClient`, `StatusBuffer` | the client; the buffers drawn from its callbacks |
| `FuzzyJobs`, `FuzzyInput`, `FuzzyMatch`, `FuzzyLists`, `FuzzyCommands`, `MruFile`, `StrPool` | the fuzzy search server |
| `KtPipeline`, `KtFor`, `KtForpool` (extends `KtFor`) | `kthread.c` |
| `KMap`, `KQueue` | abstract: a finite map; a sequence |
| `KHash` | implements `KMap` |
| `KDeque`, `KList` | implement `KQueue` |
| `KString`, `KSearch`, `KAlloc`, `KAvl`, `KetOpt`, `KSort`, `KSeq` | the other files of klib that are modelled |

What is left, in the order in which it would add most: `StatusClient` and
`StatusServer` over bounded pipes, for the absence of deadlock between a client that
writes and a loop that writes; an inductive invariant for `KHash` and `KDeque`, whose
refinements are only model-checked.

## 3. Modules

### The server

**`StatusService`** is what a client may rely on: a server that is up takes a request
under a handle and resolves it by one reply under its own id or by giving it up; down,
it does nothing. It does not know of threads or frames. `phase` may start "up" for
implementations that do not model startup.

**`StatusServer`** has the loop thread as the program counter `main`
("start" -> "loop" -> the steps after `uv_run` -> "exited" or "killed"), the two pipes
as bounded sequences of frames, libuv's work queue, pool threads, done queue and the
batch of completions it is calling back (`workq`, `running`, `doneq`, `afterq`), and the
allocated `git_root_req_T`s (`req`). One action is one callback or one iteration of
`consume_bytes`: `ReadStdin`, `ReadEof`, `ProtocolError`, `Accept`
(`git_handler_queue_git_status`), `Ignore`, `CollectDone`, `AfterDrop`, `AfterSend`
(enabled only if stdout has room: `fwrite` blocks the loop), `AfterSigpipe`, `OnSignal`;
`WorkerTake` and `WorkerFinish` on the pool; `RepoDeinit`, `Libgit2Shutdown`, `Exit`
after the loop. `accepted`, `answered` and `dropped` are history. The cast of `cmd` to
an enum is kept as a remainder (`EnumSize`). libuv's own behaviour, which is not in the
repository, is modelled from how the code uses it and marked external in the map.

**`Framing`** is `consume_bytes` over bytes. A buffer is the sequence of the bytes
received into it; `chunk` is `data` from `offset`. The loop's two `if` blocks are split
by how they leave: `LengthPart`, `LengthWhole`, `LengthBad`, `PayloadPart`,
`PayloadWhole`. `RefParse` is the reference definition, written over the whole stream.

**`RootWorker`** follows one request from `git_handler_queue_git_status` to its cleanup.
`pc` says where it is; `thread`, `rc` and `out` are the thread, return code and field of
each task; the dependent steps are `rev`, `branch`, `upstream`, `subject`. The repository
is a version number that `RepoChanges` moves; every read records the version it saw
(`opened`, `seen`, `stepSeen`). What distinguishes the 19 tasks to their callers is in
four constant sets: `Gating` (rows 0, 1, 3, 4, 5, 6 of the table), `Streaming` (output
may be left half-written by an error), `Lenient` (returns 0 although a part was skipped)
and `Forgotten` (the field `git_root_request_cleanup` leaves out). `MayNotStart` says
whose `pthread_create` may fail; joining such a thread is undefined behaviour and
modelled as an error return, a hang or a crash.

**`GitRoutines`** has every `get_*` routine as a table of steps (a call that may fail,
a free, a jump, a record written) and nine actions that execute a table. Every call
fails in every way its caller tells apart; a pointer is null, live or dangling. A table
shows what the C text hides: which `goto` jumps over which `free`.

**`StatusMessage`** takes one message through `msgpack_handler_recv` (pairs in any
order, several of a key, any type), `git_handler_queue_git_status`, the worker, the
cleanup and `msgpack_handler_send`, and reads the response as
`magit-server-filter` and `magit-info-get` do. Allocations are named after the field
that holds them. **`StatusRecords`** has the texts that are records: status entries,
worktrees, branches, the closest tag, as the C code writes them and as the section
functions take them apart.

**`SubprocessCapture`** runs `run_git_capture` in several threads: `pipe`, the four
`fcntl` calls one by one, `fork` with the descriptors the child inherits, `execvp`, the
loop around `poll`, `waitpid`. (The function is static and nobody calls it today.)
**`ServerLog`** is `gh_log` for several threads: `pthread_once`, the level, the buffer
that cuts a line, `git_error_last`. A thread runs steps, each after `git_error_clear`,
and openings (`git_repository_open_ext` of the worker and of a task,
`git_repository_discover` of `git_handler_repo_init`), before which nothing is cleared.

### Emacs

**`StatusClient`** is `magit-client.el` for one root. Emacs runs one piece of Lisp at a
time, so an action is what runs between two points where Lisp may wait. `stack` holds the
filters that are running: a callback that waits lets another filter in (`Waiting`), one
that signals ends its filter without keeping the buffer (`Erring`). A response is two
pieces that may arrive apart, and the two ends of a crash (`Die`, `Notice`, `Sentinel`)
are separate steps because Lisp may run in between. `Stops` says whether
`magit-server-stop` is called; nothing in `lisp/` does. Bytes that are no frame either
wait for ever (`FilterEnds`) or end the filter in an error (`DispatchFails`).

**`StatusBuffer`** has the command, the answer and the drawing of status buffers of
several repositories. `stack` holds what is being drawn, because a section function may
wait and another answer be drawn meanwhile; `info` is `git-info-for-hooks`; an error
leaves it as it is.

### The fuzzy search server

**`FuzzyJobs`** has the flags `job` and `cancel`, the sequence number, the timer that
tries a message again, the pool thread and the grep process. **`FuzzyInput`** is
`read_stdin`: headers, lengths and bodies over reads that deliver any part.
**`FuzzyMatch`** is the matcher and the ranking, character by character.
**`FuzzyLists`** makes lists of what a command, a grep or the yank directory gives, and
answers with them, JSON escapes included. **`FuzzyCommands`** parses a message and
loads, searches and frees the three lists. **`MruFile`** is `mru.c` with several editors
on one file. **`StrPool`** is `str_pool.c`.

### klib

**`KtPipeline`**, **`KtFor`** and **`KtForpool`** have one step per access to what the
threads share; condition variables may wake spuriously. **`KString`** keeps apart what
`realloc` has allocated and what `kstring_t` believes; where the code does not look
whether `realloc` failed (`kvsprintf`, `kgetline`) the model goes on, up to the first
write past the buffer. **`KAlloc`** has cores, free
blocks and blocks in use as intervals. **`KHash`**, **`KDeque`** and **`KList`** have
the buckets, the ring and the nodes of the C code and an abstract content. **`KAvl`**
has rotations, sizes, iterators and the destructor; **`KSearch`**, **`KetOpt`**,
**`KSort`** and **`KSeq`** are algorithms on small inputs, against reference
definitions or against what their input was made from.

`MCStatusParts`, `MCFuzzyServer` and `MCKlib` put parts that share no state side by
side: `part` chooses one, the cells `v1`, `v2`, ... hold its variables, and each step is
guarded by `part`. A behaviour of such a run is a behaviour of one part. `MCStatusClient`
does the same for three uses of the client. The sizes of `MCStatusParts`, and those of
`FuzzyJobs`, `StrPool` and `FuzzyCommands` in `MCFuzzyServer`, are constants of those
modules, given in their `.cfg`, so that what is proved of them holds for all values; a
part's inductive invariant ends its module (`CaptureInv`, `LogInv`, `BufferInv`,
`MessageInv`, `JobsInv`), but for that of the routines, a set of tables that only their
proof reads (`RoutinesInv` in `StatusPartsProofs`), and those of `StrPool`,
`FuzzyCommands` and `kthread.c`, which stand with their proofs.

## 4. Runs

| run | what it shows |
|---|---|
| `server_safety` | each request has one owner, none is lost or answered twice, none is taken after the stream was closed; the server implements `StatusService` |
| `server_liveness` | every request is resolved; after SIGINT the process ends |
| `framing` | the incremental parser agrees with the reference parser, stays in its buffers, stops at a bad length, and always returns |
| `worker` | with a `pthread_create` that fails too: no thread outlives the join, the cleanup sees no garbage, what is sent was read between opening and HEAD and is complete but for the task without a thread; implements `StatusService`; the request is resolved |
| `worker_incomplete` | (violated) a result is complete for every gating task |
| `client` | one server, callbacks known, recovery in three uses: callbacks that return, callbacks that signal or wait, servers that are stopped; place in the stream and dispatch in the first |
| `status_parts` | routines, messages, captures, log, records and status buffers |
| `locked_worktree` | (violated) a locked worktree is read as locked |
| `fuzzy_server` | jobs, input, matcher, loaders, commands, the file of used paths, the string pool |
| `klib` | the thread pools and the data structures |
| `upstream_of_master` | (violated) a result that a task looks up never arrives |
| `status_buffer_refresh` | (violated) a refresh shows the answer of another repository |

Deadlock is checked only in `status_buffer_refresh`: every other model ends (the process
exits, the stream ends, the request is freed, the calls have returned, the bounded
requests run out). That nothing is stuck before is the liveness properties' business:
`InterruptEnds`, `ServiceProgress`, `ConsumeReturns`, `AnswersDispatched`,
`RootRecovers`, `PartsReturn`, `EveryMessageEnds`, `KlibEnds`.

**Bounds.** All are bounds of the models, not of the code.

- `server_*`: two slots, two pool threads and three frames let one request run while
  another is queued, finished or called back and a third frame waits in the batch; a
  stdout of one response is full as soon as two are due, which is the case that blocks
  the loop. Safety is also proved for all sizes.
- `framing`: two-valued bytes, so that the length words 1 to 3 (good) and 0 and 4 to 15
  (bad) all occur; thirteen bytes hold two frames and the beginning of a third, in chunks
  of up to six, so a frame boundary, a length and a payload fall anywhere in a chunk.
- `worker*`: three tasks, one of each kind, are enough since tasks share nothing but the
  join, and two repository changes separate any three reads. The thread of the first,
  a gating task, may not start.
- `client`: two processes in turn (the second is started because the first died) with
  three requests each, so that several frames meet in one chunk; two requests when
  callbacks signal and wait; three processes of one request each when servers are
  stopped. At most two filters nest.
- `status_parts`: loops of a routine run up to four times, past their limits of two;
  messages of up to five pairs; response sizes at every byte boundary of the length; two
  captures whose git fills its stderr pipe and the error buffer; two threads of two
  steps or openings each, so that an opening follows a failed step, a message that fits
  and one that is cut; every two records of each kind; two
  repositories with two sections.
- `fuzzy_server`: three messages against one job; four messages in two parts each, with
  a body shorter than a header and one as long; all names of up to five characters
  against all words of up to two and two longer ones that use up the recursion; every two
  names of up to three, and seven of 29 to 117 characters whose scores lie on both sides
  of zero; outputs
  of up to four characters and three that are too long for each buffer; two editors;
  commands loaded three times; a pool of six bytes and six strings.
- `klib`: three threads, three steps, five batches, two spurious wakeups (three and one
  where a step drops a batch); up to seven jobs for three threads; two calls of the
  pool; strings of up to seven bytes (five with a failing `realloc`, in any round of
  `kgetline`); patterns of four
  in strings of five; eleven units in two cores; five keys in up to sixteen buckets,
  which they collide and rehash in; nine keys in the tree, enough for every double
  rotation and removal; three words of ten kinds on a command line; arrays of six, with
  the thresholds of the sorts lowered so that every branch is taken; two records in
  four formats and all texts of five characters in up to three reads; a ring of two to
  eight; a list of three.

**Fairness.** Weak fairness of a thread's or the loop's next step: the kernel schedules
every thread, libgit2 calls return, `fwrite` returns once the client reads. Strong
fairness of the loop's poll callbacks (`ReadCallback`, `CollectDone`, `OnSignal`): one
`epoll` round serves every descriptor that is ready, so a callback is not starved by
another although it is disabled while one runs. `ClientRead` is fair: Emacs reads
whenever it is idle. A client that never reads again stops the loop in `fwrite` for good,
SIGINT included; the liveness runs leave that out. For the client: what is readable is read, exited processes are
reaped, Lisp goes on. For `SubprocessCapture`, the callers and their git processes go
on, but no call has to fail and a git may exit only when it is not blocked in a write.
For `FuzzyJobs`: the loop, the pool, the timer and grep go on. For `kthread.c`: each
thread goes on; spurious wakeups need not come. Nothing is assumed of users, SIGINT,
crashes or other git processes. In `worker` each task thread is fair; a task that never
returns would hold its request for ever; and `ServiceProgress` is asked of behaviours in
which `pthread_join` of a thread that was not created returns or kills the process.

`EveryMessageEnds` excepts a grep that could not be spawned: then `job` stays set for
ever and everything later is postponed again and again. In `klib`, `ThreadsSound` does
not ask `Once` of the pool with spurious wakeups, nor `KlibEnds` anything of it, and `status_parts` asks `NoMisuse` of
every routine but `get_tag_desc`; section 6 says why.

## 5. Proofs

All proofs are for arbitrary constants that satisfy the named assumptions.

- `StatusServerProofs!Correct` (`TypeOK`, `OneOwner`) and `NoneLost` (`Conservation`).
  `TypeOK` alone is not inductive: `after_git_root` and a finishing thread reach a
  request through a queue, and that it is still allocated is what `OneOwner` says. The
  two together are the inductive invariant. Lemmas about `Append` and `Tail` of queues
  without duplicates carry the argument; `NoneLost` adds that each count changes with
  its set (`FiniteSetTheorems`).
- `StatusServerProofs!ClosedIsFinal` and `Refines`. Closing empties the batch in
  the same step, and nothing is read after, hence nothing is accepted; every step of the
  server is a step of `StatusService` or invisible.
- `FramingProofs!Bounds`, `Silent`, `Parses` and `Agrees`. The length that is being filled was
  checked against `MAX_MESSAGE_SIZE`, and each iteration starts with room for at least
  one byte. `Parses` is the parser's functional correctness without recursion: there
  are cut points in the stream, the first at its start and the last where the parser is
  (`Framed`), such that between two neighbours lie the four bytes of a good length and
  that many bytes of payload, the payload that was delivered. `OneMoreFrame` extends the
  cut points by one; every other step only moves bytes from `chunk` into a buffer.
  `Agrees` (`ParsesStream`) adds that this is what the reference parser makes of the
  stream, however it was cut into chunks. `RefParse` is a recursive function on positions;
  that it is the function its equation describes is shown by hand (`RefExists`,
  `RefFromIs`), by descent on how many bytes are left, with the library's `WFMin`.
- `RootWorkerProofs!Types`, `Joined`, `CleanupSafe`, `Full`, `FullIfAllStart`, `Fresh`,
  `Refines`. The
  invariant says which threads there can be at each place (`Threads`), that a field is a
  pointer from `Open` to the cleanup (`Pointers`), that a return code of 0 means a
  complete field (`Answers`) and that a good result was gated (`Gated`). `Full` is
  `CompleteIfStarted`: complete but for tasks whose threads were not created.
  `FullIfAllStart` is `CompleteResult`; it needs `MayNotStart = {}`, and the run
  `worker_incomplete` shows that it does. `Fresh` adds
  the order of the versions read (`Windows`).
- `StatusClientProofs!AtMostOneServer`, assuming `Stops = FALSE`: an entry is cleared
  only by the process it stands for and only an empty entry lets another start.
- `StatusClientProofs!TypesHold`, `AssertionHolds` (`CallbackKnown`) and
  `NoCallbackTwice`, for every use: callbacks may signal and wait, and servers may be
  stopped. That the filter finds a callback is not inductive. The invariant (`AnswerInv`)
  follows each answer from the server to the filter: it is in the pipe of its process or
  in one activation's buffer, once (`PipeOpen`, `ReadOpen`, `ReadApart`), and its request
  is open as long as it is there. An activation that has lost its place holds nothing
  that will be decoded (`Lost`); a frame taken from the front leaves the rest distinct.
  `CalledOnce` comes with it: a callback is called at most once, and its request is not
  pending then. `TypesHold` is about types only.
- `StatusClientProofs!PlaceKept` (`Aligned`), assuming `PlainUse`, that is, no callback
  signals or waits and `magit-server-stop` is not called: the run `client` shows what happens without.
  What the root has kept, followed by the pipe, is a sequence of frames to different open
  requests, whole as long as the server runs (`StreamFramed`).
- `StatusPartsProofs!CapturesSound`, `LogsSound`, `BuffersOwn`, `BuffersFresh`,
  `MessagesOwned`, `MessagesArrive` and `RoutinesAreSound`, of `MCStatusParts!Safety`: the initial states and
  steps of all parts. `Spec` is `Safety` with the fairness of the threads, which no proof
  of safety needs.
  - Capture (`CaptureInv`), for any number of callers and any output and pipe sizes: a
    caller's descriptors are a function of where it is (`EndsByPlace`, `SetByPlace`); what
    git wrote was read or is in the pipe (`Accounted`); a stream at its end means an empty
    pipe and no writer (`Drained`), which holds because git has its write ends until it
    exits (`HeldByState`); so a return of 0 has everything (`Settled`). A foreign
    descriptor survives `exec` only if the fork fell between `pipe` and `fcntl`
    (`KeptFromTheWindow`).
  - Log (`LogInv`): while one thread configures, no other judges a line
    (`ConfiguredOnce`); the error a thread's step would log is of that step or
    none, because every step clears it first; that of an opening may be an earlier one's,
    and is of no later (`ErrorOfThisStep`).
  - Buffers (`BufferInv`): versions only grow and every answer is of one that has been
    (`Past`); an answer in `git-info-for-hooks` that no error left belongs to the setup on
    top of the stack and is no older than it (`AnswerOfTop`). `BuffersFresh` is an action
    property: the invariant holds before the step that draws.
  - Messages (`MessageInv`): an allocation is live exactly while the global, the request
    or the reader's variable that owns it points to it (`GlobalsOwned`, `PwdOwned`,
    `FieldsOwned`), with the code's forgotten ones named; the reply is made of the request
    as it stays (`ReplyMade`). `MessageAssumption` asks that the lengths fit 32 bits, as
    the cast at `msgpack_handler.c:115` does; then the four bytes of the header spell the
    length. `PairsAsDeclared` counts the pairs with `FiniteSetTheorems`.
  - Routines (`RoutinesInv`), for any `LogLimit`, `TagSearch` and `MaxItems`. The table
    `Held` says, of each place of each routine, which handles may be live there, which
    must be, and which pointers do not dangle. `FlowOf` is what a step needs of the table
    at its own place and where it leads, and one leaf checks it for each of the 268 places
    of the 22 routines; the nine actions then keep the invariant whatever the routine.
    At the closing brace nothing may be held, so nothing leaks. `Said` does the same for
    what has been written: of the routines with one record that it is written exactly if
    they return success, of the lists that a failure of the iterator is reported, of the
    log that it counts what it writes. `get_tag_desc` may free its commit twice, after
    `git_tag_list` failed in some turn of its loop, and only then (`CommitFreed`).
- `FuzzyServerProofs!JobsHold` (`JobsSound`), of `MCFuzzyServer!Safety`. Its parts need
  one another and more: `JobsInv` adds where each message is (`Tracked`: the unread ones are
  the last in number, a timer has a message once, the pool's and the grep's are started),
  which steps a work request has (`Placed`), that `current_seq` is below everything unread
  and above everything that waits (`Sequenced`), that a job's query is no older than those
  answered (`Answered`), that `cancel` is set only for a job a later message has spoiled or
  that began under it (`Spoiled`), and that the list a search has captured is the cached
  one, loaded by a message that is done (`Cached`). `handle_json_msg` is called by the
  reader and by a timer: what it may rely on is one predicate (`Came`), which `JobsRead`
  and `JobsTimer` establish, and each outcome of the handler is proved from it once.
- `FuzzyServerProofs!StringsHold` (`PoolSound`, which is the share of `StrPool` in
  `ListsSound`), for any size of the first block and any strings. Its parts need one
  another, and that every string in the block in use lies before `pos` (`BeforePos`).
- `FuzzyServerProofs!CommandsHold` (`TypeOK`, `RightList`, `OnlyEmptyLeak` of
  `FuzzyCommands`) and `FullListsFreed` (`FullAreFreed`), for any search words and any
  number and length of lists. A job that is queued has captured the list as it still is
  (`Captured`), because one job runs at a time and a load answers before the next message
  is read; of the most recently used files and of the yanks nothing is allocated but what
  is kept, and the list of files has as many pools as lists (`Allocated`): an empty one
  stays behind with its pool. That a search is answered from the list its message names
  takes that the fields arrived (`Parsed`), which folds over tokens and is TLC's.
- `KtPipelineProofs!Types`, `Exclusion`, `Order`, `InputOrder`, `Complete`, for any
  number of workers, steps and batches and whatever the step function returns. The wait
  condition compares a worker with all others, but only at the moment it leaves the wait;
  the invariant says for every pair that the one with the smaller index is ahead
  (`Behind`), that indices are distinct, and that what a step has begun is below every
  worker that has yet to begin it (`YetToBegin`). For the batches (`NoneSkipped`,
  `AllPassed`), if none is dropped:
  whoever is further has an earlier one (`Further`, `Numbered`), each has been through the
  steps that its worker has done and no other (`Located`), and one that has not been
  through a step has a worker that is on its way there (`OnItsWay`), so a worker at a step
  has the very next batch.
- `KtForProofs!ForSound` (`TypeOK`, `Once`, `AllRun`), for any number of threads and jobs.
  A counter moves on by the number of threads, so what it is at has one remainder for ever
  (`OnCourse`), no job has two counters, and the jobs done are exactly those below their
  counters (`Exact`). A thread leaves its own jobs only past their end (`Ended`), which is
  why stopping at the first theft that fails loses none. The lemmas about remainders
  (`Remainder`, `RemaindersApart`) come from the defining equation of `\div` and `%`.
- `KtForProofs!PoolSound` (`PoolTypeOK`, `NoneLate`, `Finished`), for any number of calls
  and of spurious wakeups. `n_pending` is the number of threads that have yet to say that
  they are ready, counting those whose orders are still to be written (`Counted`), so it
  is 0 only when nobody is at work; the counter of a thread belongs to this call once its
  order is written (`Dealt`), and what such a counter has passed is done (`Worked`).
  `PoolOnce` (`Once`) assumes `MaxWakes = 0`: then every thread sleeps until the broadcast,
  when all counters have been written (`Punctual`). With one spurious wakeup TLC finds a
  job done twice; section 6 has the line.

Only model-checked:

- Liveness: temporal reasoning under fairness, and ENABLED, are outside the prover.
- Properties of folds over texts and of recursive operators: the records
  (`RecordsArrive`), the input, the matcher and the lists of the fuzzy search server, the
  sorts, trees and readers of klib. The prover has no SMT backend where a RECURSIVE
  operator is in reach, and the library's induction theorems take an operator, which the
  installed provers cannot instantiate; the way around, a least counterexample with
  `WFMin`, is the one that `Agrees` takes for a recursive function.
- The file of used paths of the fuzzy search server, the fields of its commands
  (`Parsed`), and the refinements of `KMap` and `KQueue`: the first two fold over text, and
  the others take an index modulo a power of two that is chosen, and the installed provers
  have no facts about powers.
- `ThreadsSound` as it stands in `MCKlib`, which reaches modules with RECURSIVE operators.
  All of it is proved, but of `KtPipeline`, `KtFor` and `KtForpool` and not of the cells
  that `MCKlib` keeps their variables in.
- The types of the client with all uses together (`Typed`); `TypesHold` is the same for
  each use.

## 6. Disagreements with the code's own words

Four are findings of a run:

- `worker_incomplete`: `RUN_PARALLEL_TASKS` ignores the result of `pthread_create`, and a
  task's record starts with the result 0. If a gating task's thread cannot be created, a
  response without that field is sent, although the log line of that very condition says
  "incomplete result, no response will be sent" (`src/src/git_handler.c:1961`).
- `upstream_of_master`: the response sets `.upstream_branch` twice
  (`git_handler.c:2018`) and `.upstream_branch_master` never; what the docstring at
  `magit-git.el:1716` promises is empty for master.
- `locked_worktree`: a worktree locked with a reason is read as not locked, since
  `string-prefix-p` has its arguments swapped (`magit-git.el:2201`); the docstring at
  `magit-git.el:2160` says that LOCKED may be a string. `RecordsArrive` asks the flag only
  of the others.
- `status_buffer_refresh`: an error in a section function leaves `git-info-for-hooks`
  set (`magit-mode.el:734`), and the next refresh, of any repository, draws from it;
  compare the docstring at `magit-mode.el:1110`.

Others are conditions or exceptions of the properties, which say in their comments what
they leave out:

- Records. A file deleted in the index and untracked in the worktree is sent as one entry
  `D?` and not listed (`git_handler.c:1119` against `:1114`); a tag at HEAD is sent bare and read as no tag
  (`git_handler.c:1471` against `magit-git.el:1938`); a file renamed from a name that
  begins with `?` looks untracked.
- Routines. `get_tag_desc` frees a commit a second time when `git_tag_list` failed and
  the walk ends there (`git_handler.c:1416`); it passes over lightweight tags;
  `get_config_status_show_untracked_files` returns 0 whatever failed. Six results are
  not in `git_root_request_cleanup`.
- Log. The worker, a task and `git_handler_repo_init` log `git_error_last` of a failed
  opening without `git_error_clear` before it (`git_handler.c:1831`, `:1774`, `:2078`,
  `:2084`): if libgit2 sets no error, the line has the message of a step that the same
  pool thread ran for another request.
- Status buffer. A setup nested in another that signals leaves the outer one with the
  other repository's answer; one that succeeds leaves it without an answer.
- Fuzzy server, jobs. `cancel` is reset by the timer that finds the job done: a
  message read after the job and before that timer begins with it still set, and may go
  unanswered though it is the newest; a `write_mru` that
  was postponed and overtaken is lost; a failed `uv_spawn` leaves `job` set for ever; a
  failed `popen` leaves the old length over no list; a `uv_read_start` that fails after
  the spawn (`grep.c:142`) leaves `job` set too, which the model has not; a late read of grep's pipe uses the
  freed context.
- Fuzzy server, input. A message cut by a read loses its header or gets a NUL, and a
  stale length swallows some of the messages after it, a number `Swallowed` bounds; of
  several messages in one read the first is handled and the rest of the buffer lost, and
  the length can be passed, after which the parser takes in everything.
- Fuzzy server, matching. `score` is a `size_t` that penalties can take below zero
  (`fuzzy.c:64` against `:44`), so that a name with some hundred unmatched letters is
  first, and one left with exactly 0 is not listed; `ListsSound` excepts both, for names of
  more than `ShortName` letters; the
  separator bonus looks at the search word instead of the name (`fuzzy.c:105` against
  `:32`); the recursive match stores shifted positions (`fuzzy.c:198` against `:60`).
- Fuzzy server, lists. Continuation bytes of UTF-8 are copied though "only ascii is
  supported" (`json_msg_handler.c:57`); `json_escape` can write one byte past its
  buffer; the Content-Length of an answer that is not empty is that of its last three
  characters (`json_msg_handler.c:94`); names are not escaped; the last character of a line is cut, newline or not; a
  grep line over two reads becomes two; an empty list of files leaks; `path` with an
  empty value reloads with the command's own name and trims every path.
- Used paths. A load ends only at a NUL byte, which nothing writes; a colon in a path
  breaks the round trip; two editors lose each other's counts; a kill between
  truncation and rewriting loses the file.
- klib. `kt_forpool` writes a worker's order without the mutex: with a spurious wakeup a
  job may be done twice, and the broadcast of `kt_forpool_destroy` may be lost.
  `kt_pipeline` with one step never ends, and NULL from a middle step ends that worker
  for good. After a failed `realloc` `kstring_t.m` is larger than the buffer:
  `kgetline` ignores that and lets `fgets` write past it (`kstring.c:114`), or the next
  function does; `kvsprintf` loses the buffer and writes through NULL (`kstring.c:18`). `kmemmem` leaks its table when it
  builds it for itself and finds a match. `km_stat_print` swaps two counts
  (`kalloc.c:223`); `kavl_itr_find` may stop at a smaller element (`kavl.h:299` against
  `:373`); an ambiguous long option is returned for ever (`ketopt.h:84` against `:41`);
  an empty line that ends in `\r\n` is read as `\r` (`kseq.h:141` against `:37`); a
  failed read ends a record as the end of the file does (`kseq.h:206` against `:175`).
  Shrinking a `kdq` is right only if its front is in the part that stays.
  `ks_sample` touches `a[n]` and `ks_heapsort` underflows for no elements.

## 7. Not modelled

- What libgit2 and MessagePack compute, and the text of the fields that no property is
  about (log lines, patches, configuration). Windows.
- Magit proper: refresh and its cache, asynchronous git processes, the sequencer,
  work-in-progress refs, sections, diff and log washing, commands. The cache lives for
  one synchronous refresh; the others drive Emacs's buffers and git's own state, whose
  rules are not in this repository.
- Of the fuzzy server: reuse of its static pipe without `uv_close`, and input longer
  than `MAX_VIM_INPUT`.
- Of klib: what the server neither builds nor includes and other programs are needed to
  judge: compression, network and file access (`bgzf`, `knetfile`, `kurl`, `kopen`),
  numerics (`kmath`, `khmm`, `keigen`, `ksw`), parsers (`kson`, `knhx`, `kexpr`), the
  other trees, tables and pools (`kbtree`, `kavl-lite`, `krmq`, `khashl`, `kbarena`,
  `kmempool`), Lua and C++.
- Of the fuzzy server's jobs: `uv_queue_work` and `uv_read_start` that fail.
- `ReadPipeLate`'s freed context and the exceptions of section 6 are carried in the
  models as conditions; no property claims them.

`PROJECT.json` ("components") gives the reason for each part.
