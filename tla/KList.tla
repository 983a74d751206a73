------------------------------- MODULE KList --------------------------------
(***************************************************************************)
(* klib's singly linked list: the last node is a sentinel that the next    *)
(* element is written into, and nodes come from and go to a pool.          *)
(***************************************************************************)
EXTENDS Integers, Sequences, SequencesExt

CONSTANTS
    Values,
    MaxNodes    \* bound: nodes that calloc gives

ListAssumption == MaxNodes \in Nat \ {0}

NULL == 0

VARIABLES
    mp,     \* the pool: nodes in use, the buffer of free ones, nodes given by calloc
    kl,     \* the list: head, tail, size; a head of NULL when there is none
    node,   \* data and next of the nodes
    freed   \* the nodes that free was called with, in order

vars == <<mp, kl, node, freed>>

\* kmp_alloc: the node, and the pool without it.
Allocated(m) ==
    IF m.buf = <<>> THEN [p |-> m.given + 1, mp |-> [m EXCEPT !.cnt = @ + 1, !.given = @ + 1]]
    ELSE [p |-> Last(m.buf), mp |-> [m EXCEPT !.cnt = @ + 1, !.buf = Front(@)]]

kmp_free(m, p) == [m EXCEPT !.cnt = @ - 1, !.buf = Append(@, p)]

Room == mp.buf # <<>> \/ mp.given < MaxNodes

\* kl_init: one node, the sentinel.
New ==
    LET a == Allocated([cnt |-> 0, buf |-> <<>>, given |-> 0])
    IN [mp |-> a.mp, kl |-> [head |-> a.p, tail |-> a.p, size |-> 0]]

Init ==
    /\ mp = New.mp /\ kl = New.kl /\ freed = <<>>
    /\ node = [n \in 1..MaxNodes |-> [data |-> NULL, next |-> NULL]]

\* The node whose data the caller is given: the sentinel.
Slot(l, p) == l.tail

\* kl_pushp, and the caller's assignment to the data.
kl_push(v) ==
    LET a == Allocated(mp) IN
    /\ kl.head # NULL /\ Room
    /\ mp' = a.mp /\ kl' = [kl EXCEPT !.tail = a.p, !.size = @ + 1]
    /\ node' = [node EXCEPT ![a.p].next = NULL, ![kl.tail].next = a.p, ![Slot(kl, a.p)].data = v]
    /\ UNCHANGED freed

\* Mutant: the new head is freed.
Taken_new(l, n) == n[l.head].next

\* The node that kl_shift takes out.
Taken(l, n) == l.head

\* kl_shift; without an element it returns -1.
kl_shift ==
    /\ kl.head # NULL /\ node[kl.head].next # NULL
    /\ mp' = kmp_free(mp, Taken(kl, node))
    /\ kl' = [kl EXCEPT !.head = node[kl.head].next, !.size = @ - 1]
    /\ UNCHANGED <<node, freed>>

\* The nodes from n to the tail.
RECURSIVE Chain(_)
Chain(n) == IF n = kl.tail THEN <<n>> ELSE <<n>> \o Chain(node[n].next)

\* What kl_destroy puts into the pool, before the pool frees all it has.
Returned(s) == s

kl_destroy ==
    /\ kl.head # NULL
    /\ freed' = mp.buf \o Returned(Chain(kl.head))
    /\ kl' = [kl EXCEPT !.head = NULL]
    /\ UNCHANGED <<mp, node>>

Next == (\E v \in Values : kl_push(v)) \/ kl_shift \/ kl_destroy

Spec == Init /\ [][Next]_vars

-----------------------------------------------------------------------------
(* Properties.                                                             *)

\* The nodes of the list, the sentinel too.
List == IF kl.head = NULL THEN <<>> ELSE Chain(kl.head)

\* A node is in the list or in the buffer of the pool, and once: no element is
\* written into a node that is given out again.
NodesOnce ==
    kl.head # NULL =>
        /\ IsInjective(List \o mp.buf) /\ ToSet(List \o mp.buf) = 1..mp.given
        /\ mp.cnt = Len(List) /\ kl.size = Len(List) - 1

\* Destroying the list frees every node once.
FreesAll == kl.head = NULL => IsInjective(freed) /\ ToSet(freed) = 1..mp.given

content == [i \in 1..Len(List) - 1 |-> node[List[i]].data]

Sequence == INSTANCE KQueue

\* First in, first out, until the list is destroyed: the value a caller writes is
\* the last element, whatever the nodes were used for before.
QueueStep == kl'.head = NULL \/ Sequence!Next \/ content' = content
=============================================================================
