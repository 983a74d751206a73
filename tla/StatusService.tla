---------------------------- MODULE StatusService ----------------------------
(***************************************************************************)
(* What magit-server promises its client, with no threads, queues or       *)
(* frames: a request that is taken stands under a handle until it is       *)
(* replied to, once and under its own id, or given up; replies come in any *)
(* order; a server that is down takes and replies to nothing.              *)
(***************************************************************************)
EXTENDS Sequences

CONSTANTS Handles, None, Ids

VARIABLES
    phase,      \* "new", "up", then "down" for good
    pending,    \* the id under each handle
    replies     \* replies on their way to the client

vars == <<phase, pending, replies>>

\* "up" is for an implementation that does not model how the server starts.
Init == /\ phase \in {"new", "up"}
        /\ pending = [h \in Handles |-> None]
        /\ replies = <<>>

\* The loop starts, or the server never gets that far.
Boot == phase = "new" /\ phase' \in {"up", "down"} /\ UNCHANGED <<pending, replies>>

\* The loop ends: the requests that stand are abandoned.
Halt == phase = "up" /\ phase' = "down" /\ UNCHANGED <<pending, replies>>

Submit(h, i) ==
    /\ phase = "up" /\ pending[h] = None
    /\ pending' = [pending EXCEPT ![h] = i]
    /\ UNCHANGED <<phase, replies>>

Reply(h) ==
    /\ phase = "up" /\ pending[h] # None
    /\ replies' = Append(replies, pending[h])
    /\ pending' = [pending EXCEPT ![h] = None]
    /\ UNCHANGED phase

GiveUp(h) ==
    /\ phase = "up" /\ pending[h] # None
    /\ pending' = [pending EXCEPT ![h] = None]
    /\ UNCHANGED <<phase, replies>>

\* The client reads a reply, whether or not the server still runs.
Deliver ==
    /\ replies # <<>>
    /\ replies' = Tail(replies)
    /\ UNCHANGED <<phase, pending>>

Next ==
    \/ Boot \/ Halt \/ Deliver
    \/ \E h \in Handles : Reply(h) \/ GiveUp(h) \/ \E i \in Ids : Submit(h, i)

Spec == Init /\ [][Next]_vars

\* Each request is resolved while the server is up.
Progress == \A h \in Handles : WF_vars(Reply(h) \/ GiveUp(h))
=============================================================================
