--------------------------- MODULE MCStatusClient ---------------------------
(* Three ways to use the client: callbacks that return; callbacks that also *)
(* signal errors and wait; and servers that are stopped besides.            *)
EXTENDS StatusClient

VARIABLE use

Uses == {"plain", "hard", "stops"}

Hard == INSTANCE StatusClient WITH
    MaxProcs <- 2, MaxSends <- 2, Stops <- FALSE, Erring <- TRUE, Waiting <- TRUE

Stopping == INSTANCE StatusClient WITH
    MaxProcs <- 3, MaxSends <- 1, Stops <- TRUE, Erring <- TRUE, Waiting <- TRUE

all == <<vars, use>>

MCInit ==
    /\ use \in Uses
    /\ CASE use = "plain" -> Init [] use = "hard" -> Hard!Init [] use = "stops" -> Stopping!Init

PlainStep == use = "plain" /\ Next /\ UNCHANGED use
HardStep == use = "hard" /\ Hard!Next /\ UNCHANGED use
StoppingStep == use = "stops" /\ Stopping!Next /\ UNCHANGED use

\* StatusClient's fairness for each use.
MCSpec ==
    /\ MCInit /\ [][PlainStep \/ HardStep \/ StoppingStep]_all
    /\ WF_all(use = "plain" /\ FilterStep /\ UNCHANGED use)
    /\ WF_all(use = "hard" /\ Hard!FilterStep /\ UNCHANGED use)
    /\ WF_all(use = "stops" /\ Stopping!FilterStep /\ UNCHANGED use)
    /\ \A p \in 1..2 : WF_all(use = "plain" /\ p \in Procs /\ Emacs(p) /\ UNCHANGED use)
    /\ \A p \in 1..2 : WF_all(use = "hard" /\ Hard!Emacs(p) /\ UNCHANGED use)
    /\ \A p \in 1..3 : WF_all(use = "stops" /\ Stopping!Emacs(p) /\ UNCHANGED use)

-----------------------------------------------------------------------------
(* Properties.                                                             *)

\* Types in every use; while callbacks return the filter keeps its place in the
\* stream (magit-server-filter).
Typed ==
    CASE use = "plain" -> TypeOK /\ Aligned
      [] use = "hard" -> Hard!TypeOK
      [] use = "stops" -> Stopping!TypeOK

\* With callbacks that return, each answer that a server has written reaches its
\* callback (magit-server-filter).
AnswersDispatched ==
    \A p \in 1..2 : \A i \in 1..MaxSends :
        (use = "plain" /\ \E k \in 1..Len(pipe[p]) : pipe[p][k] = <<i, 2>>)
            ~> (use = "plain" /\ (called[p][i] = 1 \/ status[p] = "reaped"))

\* In every use a root is not left with a dead server (magit-server-sentinel).
RootRecovers ==
    \A p \in 1..3 :
        (p \in DOMAIN status /\ current = p /\ status[p] \in {"gone", "exit"}) ~> current # p
=============================================================================
