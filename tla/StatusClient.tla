---------------------------- MODULE StatusClient ----------------------------
(***************************************************************************)
(* magit-client.el for one repository root: the registered server process, *)
(* the partial frame kept for the root, each process's pending callbacks,  *)
(* and the filter that takes frames out of what a process has written.     *)
(*                                                                         *)
(* Emacs runs one piece of Lisp at a time.  A filter or a sentinel runs    *)
(* only where Lisp waits: at top level, or inside a callback that waits.   *)
(* A frame is two pieces, <<i, 1>> and <<i, 2>>, that may arrive apart.    *)
(* magit-server-buffers holds nil or a string; both are a sequence here,   *)
(* as magit-server-get-buffer reads nil as "".                             *)
(***************************************************************************)
EXTENDS Integers, Sequences, FiniteSets

CONSTANTS
    MaxProcs,   \* bound: processes ever started
    MaxSends,   \* bound: requests to one process
    Stops,      \* is magit-server-stop called?  Nothing in lisp/ does
    Erring,     \* may a callback signal an error?
    Waiting,    \* may a callback wait, so that filters and sentinels run?
    None

Procs == 1..MaxProcs
Requests == 1..MaxSends

ASSUME ClientAssumption ==
    /\ MaxProcs \in Nat /\ MaxSends \in Nat
    /\ {Stops, Erring, Waiting} \subseteq BOOLEAN
    /\ None \notin Procs

VARIABLES
    current,    \* magit-server-processes: the process registered for the root
    partial,    \* magit-server-buffers: what is kept for the root
    status,     \* of each process: see Statuses
    counter,    \* request-counter of each process
    pending,    \* the ids in pending-callbacks of each process
    stack,      \* activations of magit-server-filter, the innermost last
    asked,      \* requests each server has and has not answered
    pipe,       \* what each server has written and Emacs has not read
    called,     \* history: calls of the callback of each request
    stopped     \* history: magit-server-stop has been called

client == <<current, partial, counter, pending>>
server == <<asked, pipe>>
history == <<called, stopped>>
vars == <<client, status, stack, server, history>>

\* "gone" is a server that has exited and Emacs has not noticed; "exit" one of
\* which process-status says so and whose sentinel is yet to run; "reaped" one
\* whose sentinel has run.
Statuses == {"none", "run", "gone", "exit", "reaped"}
Piece == Requests \X {1, 2}
Activation == [proc : Procs, buffer : Seq(Piece), calling : BOOLEAN]

\* The alists of magit-server.el, its filters, and the processes.
TypeOK ==
    /\ current \in Procs \cup {None}
    /\ partial \in Seq(Piece)
    /\ status \in [Procs -> Statuses]
    /\ counter \in [Procs -> 0..MaxSends]
    /\ pending \in [Procs -> SUBSET Requests]
    /\ stack \in Seq(Activation)
    /\ asked \in [Procs -> SUBSET Requests]
    /\ pipe \in [Procs -> Seq(Piece)]
    /\ called \in [Procs -> [Requests -> Nat]]
    /\ stopped \in BOOLEAN

Init ==
    /\ current = None /\ partial = <<>>
    /\ status = [p \in Procs |-> "none"]
    /\ counter = [p \in Procs |-> 0]
    /\ pending = [p \in Procs |-> {}]
    /\ stack = <<>>
    /\ asked = [p \in Procs |-> {}]
    /\ pipe = [p \in Procs |-> <<>>]
    /\ called = [p \in Procs |-> [i \in Requests |-> 0]]
    /\ stopped = FALSE

-----------------------------------------------------------------------------
(* Lisp.                                                                   *)

Top == stack[Len(stack)]
InCallback == stack # <<>> /\ Top.calling

\* Commands run at top level, and from a callback.
LispRuns == stack = <<>> \/ InCallback

\* Filters and sentinels run where Lisp waits (bound: one filter in another).
LispWaits == \/ stack = <<>>
             \/ Waiting /\ Len(stack) < 2 /\ InCallback

Pop == SubSeq(stack, 1, Len(stack) - 1)

\* Mutant: magit-server-start does not look for a registered process.
StartAnother(p) ==
    /\ LispRuns /\ status[p] = "none"
    /\ status' = [status EXCEPT ![p] = "run"]
    /\ current' = p /\ partial' = <<>>
    /\ UNCHANGED <<counter, pending, stack, server, history>>

\* magit-server-start when no process is registered.
Start(p) ==
    /\ LispRuns /\ current = None /\ status[p] = "none"
    /\ status' = [status EXCEPT ![p] = "run"]
    /\ current' = p /\ partial' = <<>>
    /\ UNCHANGED <<counter, pending, stack, server, history>>

\* magit-server-send-async to the registered process, whatever has become of
\* it: the callback is registered before the string is sent.
NewRequest(p) ==
    /\ LispRuns /\ current = p /\ counter[p] < MaxSends
    /\ counter' = [counter EXCEPT ![p] = @ + 1]
    /\ pending' = [pending EXCEPT ![p] = @ \cup {counter[p] + 1}]

Send(p) ==
    /\ NewRequest(p) /\ status[p] = "run"
    /\ asked' = [asked EXCEPT ![p] = @ \cup {counter[p] + 1}]
    /\ UNCHANGED <<current, partial, status, stack, pipe, history>>

\* process-send-string fails: the pipe is broken and Emacs closes it, or Emacs
\* knew that the process is not running.  If a callback sent it, the error ends
\* the filter.
SendFails(p) ==
    /\ NewRequest(p)
    /\ \/ status[p] \in {"exit", "reaped"} /\ UNCHANGED <<status, pipe>>
       \/ /\ status[p] = "gone"
          /\ status' = [status EXCEPT ![p] = "exit"]
          /\ pipe' = [pipe EXCEPT ![p] = <<>>]
    /\ stack' = Pop
    /\ UNCHANGED <<current, partial, asked, history>>

\* delete-process, which runs the sentinel, unless the process is known to be
\* dead; then both entries of the root are cleared.
Stop ==
    /\ Stops /\ LispRuns
    /\ IF current # None /\ status[current] \in {"run", "gone"}
       THEN /\ status' = [status EXCEPT ![current] = "reaped"]
            /\ pipe' = [pipe EXCEPT ![current] = <<>>]
            /\ asked' = [asked EXCEPT ![current] = {}]
       ELSE UNCHANGED <<status, server>>
    /\ current' = None /\ partial' = <<>> /\ stopped' = TRUE
    /\ UNCHANGED <<counter, pending, stack, called>>

\* Mutant: the entry of the root stays.
SentinelKeeps(p) ==
    /\ LispWaits /\ status[p] = "exit" /\ pipe[p] = <<>>
    /\ status' = [status EXCEPT ![p] = "reaped"]
    /\ partial' = <<>>
    /\ UNCHANGED <<current, counter, pending, stack, server, history>>

\* magit-server-sentinel, after the last output has been read.  It clears the
\* entries of the root, whichever process is registered by now.
Sentinel(p) ==
    /\ LispWaits /\ status[p] = "exit" /\ pipe[p] = <<>>
    /\ status' = [status EXCEPT ![p] = "reaped"]
    /\ current' = None /\ partial' = <<>>
    /\ UNCHANGED <<counter, pending, stack, server, history>>

-----------------------------------------------------------------------------
(* magit-server-filter.                                                    *)

\* Emacs reads a chunk and calls the filter of its process.
Filter(p) ==
    /\ LispWaits /\ status[p] \in {"run", "gone", "exit"}
    /\ \E n \in 1..Len(pipe[p]) :
          /\ stack' = Append(stack,
                [proc |-> p, calling |-> FALSE,
                 buffer |-> partial \o SubSeq(pipe[p], 1, n)])
          /\ pipe' = [pipe EXCEPT ![p] = SubSeq(@, n + 1, Len(@))]
    /\ UNCHANGED <<client, status, asked, history>>

Parsing == stack # <<>> /\ ~Top.calling

\* The buffer starts with a frame; it may yet turn into one; it cannot.
Whole(b) == Len(b) >= 2 /\ b[1][2] = 1 /\ b[2] = <<b[1][1], 2>>
Short(b) == b = <<>> \/ (Len(b) = 1 /\ b[1][2] = 1)

\* Mutant: the buffer is not set to what remains.
DispatchAgain ==
    /\ Parsing /\ Whole(Top.buffer)
    /\ LET p == Top.proc  i == Top.buffer[1][1]
       IN /\ i \in pending[p]
          /\ called' = [called EXCEPT ![p][i] = @ + 1]
          /\ pending' = [pending EXCEPT ![p] = @ \ {i}]
          /\ stack' = Append(Pop, [Top EXCEPT !.calling = TRUE])
    /\ UNCHANGED <<current, partial, counter, status, server, stopped>>

\* A whole frame: its callback is removed and called.  The frame leaves the
\* buffer when the callback returns, but nobody sees it in between.
Dispatch ==
    /\ Parsing /\ Whole(Top.buffer)
    /\ LET p == Top.proc  i == Top.buffer[1][1]
       IN /\ i \in pending[p]
          /\ called' = [called EXCEPT ![p][i] = @ + 1]
          /\ pending' = [pending EXCEPT ![p] = @ \ {i}]
          /\ stack' = Append(Pop, [proc |-> p, calling |-> TRUE,
                       buffer |-> SubSeq(Top.buffer, 3, Len(Top.buffer))])
    /\ UNCHANGED <<current, partial, counter, status, server, stopped>>

\* cl-assert fails, or what is no frame is decoded as one and msgpack or
\* funcall signals: the error ends the filter and nothing is kept.
DispatchFails ==
    /\ Parsing /\ ~Short(Top.buffer)
    /\ ~(Whole(Top.buffer) /\ Top.buffer[1][1] \in pending[Top.proc])
    /\ stack' = Pop
    /\ UNCHANGED <<client, status, server, history>>

CallbackReturns ==
    /\ InCallback
    /\ stack' = Append(Pop, [Top EXCEPT !.calling = FALSE])
    /\ UNCHANGED <<client, status, server, history>>

\* The error ends the filter, and Emacs reports it; nothing is kept.
CallbackSignals ==
    /\ Erring /\ InCallback
    /\ stack' = Pop
    /\ UNCHANGED <<client, status, server, history>>

\* Mutant: what follows the last whole frame is forgotten.
FilterEndsForgets ==
    /\ Parsing /\ ~Whole(Top.buffer)
    /\ partial' = <<>>
    /\ stack' = Pop
    /\ UNCHANGED <<current, counter, pending, status, server, history>>

\* Mutant: "if" for "while", one frame for each chunk.
FilterEndsEarly ==
    /\ Parsing
    /\ partial' = Top.buffer
    /\ stack' = Pop
    /\ UNCHANGED <<current, counter, pending, status, server, history>>

\* No whole frame is left: what there is is kept for the next chunk.  Bytes
\* that are no frame may read as a length that is never reached.
FilterEnds ==
    /\ Parsing /\ ~Whole(Top.buffer)
    /\ partial' = Top.buffer
    /\ stack' = Pop
    /\ UNCHANGED <<current, counter, pending, status, server, history>>

-----------------------------------------------------------------------------
(* The servers, as StatusServer has them, and Emacs's view of them.        *)

Frame(i) == <<<<i, 1>>, <<i, 2>>>>

Answer(p) ==
    /\ status[p] = "run"
    /\ \E i \in asked[p] : /\ asked' = [asked EXCEPT ![p] = @ \ {i}]
                           /\ pipe' = [pipe EXCEPT ![p] = @ \o Frame(i)]
    /\ UNCHANGED <<client, status, stack, history>>

Drop(p) ==
    /\ status[p] = "run"
    /\ \E i \in asked[p] : asked' = [asked EXCEPT ![p] = @ \ {i}]
    /\ UNCHANGED <<client, status, stack, pipe, history>>

\* The server exits, maybe in the middle of a response.
Die(p) ==
    /\ status[p] = "run"
    /\ status' = [status EXCEPT ![p] = "gone"]
    /\ asked' = [asked EXCEPT ![p] = {}]
    /\ \/ UNCHANGED pipe
       \/ \E i \in asked[p] : pipe' = [pipe EXCEPT ![p] = Append(@, <<i, 1>>)]
    /\ UNCHANGED <<client, stack, history>>

\* SIGCHLD.
Notice(p) ==
    /\ status[p] = "gone"
    /\ status' = [status EXCEPT ![p] = "exit"]
    /\ UNCHANGED <<client, stack, server, history>>

FilterStep == \/ Dispatch \/ DispatchFails \/ CallbackReturns
              \/ CallbackSignals \/ FilterEnds
Lisp(p) == Start(p) \/ Send(p) \/ SendFails(p)
Emacs(p) == Filter(p) \/ Sentinel(p) \/ Notice(p)

Next ==
    \/ FilterStep \/ Stop
    \/ \E p \in Procs : Lisp(p) \/ Emacs(p) \/ Answer(p) \/ Drop(p) \/ Die(p)

Spec == Init /\ [][Next]_vars

\* Emacs reads what there is to read, reaps what has exited, and Lisp runs on.
FairSpec == /\ Spec /\ WF_vars(FilterStep)
            /\ \A p \in Procs : WF_vars(Emacs(p))

-----------------------------------------------------------------------------
(* Properties.                                                             *)

\* A server that runs, or whose sentinel has not run, is the one registered for
\* the root: no server is started beside another, and none is forgotten, until
\* magit-server-stop is called.
OneServer ==
    ~stopped => \A p \in Procs : status[p] \in {"run", "gone", "exit"} => current = p

\* "(when request-id (cl-assert callback))": a frame that decodes answers a
\* request that was made of this process and has not been answered.
CallbackKnown ==
    Parsing /\ Whole(Top.buffer) => Top.buffer[1][1] \in pending[Top.proc]

Kept == IF stack = <<>> THEN partial ELSE Top.buffer

\* What the client has kept and what is still to be read are whole frames, each
\* the answer to another open request; only a server that has exited leaves
\* half a frame.  Thus the filter never loses its place in the stream.
Aligned ==
    \A p \in Procs : current = p /\ status[p] \in {"run", "gone"} =>
        LET s == Kept \o pipe[p]
            First == {k \in 1..Len(s) : k % 2 = 1}
        IN /\ status[p] = "run" => Len(s) % 2 = 0
           /\ \A k \in First :
                 /\ s[k][2] = 1 /\ s[k][1] \in pending[p] \ asked[p]
                 /\ k < Len(s) => s[k + 1] = <<s[k][1], 2>>
           /\ \A j, k \in First : s[j][1] = s[k][1] => j = k
=============================================================================
