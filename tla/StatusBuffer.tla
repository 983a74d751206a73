---------------------------- MODULE StatusBuffer ----------------------------
(***************************************************************************)
(* The status buffers of several repositories drawn from the servers'      *)
(* answers (magit-status-new and its callback) and by magit-refresh.  Both *)
(* run the same section functions; git-info-for-hooks, a global variable,  *)
(* tells them whether to read an answer or to run git.                     *)
(***************************************************************************)
EXTENDS Integers, Sequences, FiniteSets

CONSTANTS
    Roots,
    Sections,   \* how many sections of a status buffer are in the answer
    MaxVersion, \* bound: changes made to a repository
    MaxAsked,   \* bound: requests to a server that it has not answered
    Waiting,    \* may a section function wait, so that another answer arrives?
    None

BufferAssumption ==
    /\ Sections \in Nat \ {0} /\ MaxVersion \in Nat /\ MaxAsked \in Nat
    /\ Waiting \in BOOLEAN /\ None \notin Roots

VARIABLES
    version,    \* of each repository
    asked,      \* open requests of each server: the versions they were made at
    info,       \* git-info-for-hooks
    stack,      \* buffers being drawn, the innermost last
    shown,      \* what each section of a status buffer shows
    left        \* an error has left the answer of another setup in info

vars == <<version, asked, info, stack, shown, left>>

Versions == 0..MaxVersion
Answers == [root : Roots, data : [1..Sections -> Versions]]
Draw == [root : Roots, setup : BOOLEAN, next : 1..(Sections + 1), since : Versions]
Shown == [root : Roots, version : Versions, left : BOOLEAN]

\* What is asked for, read, being drawn and shown.
TypeOK ==
    /\ version \in [Roots -> Versions] /\ asked \in [Roots -> Seq(Versions)]
    /\ info \in Answers \cup {None} /\ stack \in Seq(Draw)
    /\ shown \in [Roots -> [1..Sections -> Shown \cup {None}]]
    /\ left \in BOOLEAN

Init ==
    /\ version = [r \in Roots |-> 0]
    /\ asked = [r \in Roots |-> <<>>]
    /\ info = None /\ stack = <<>> /\ left = FALSE
    /\ shown = [r \in Roots |-> [s \in 1..Sections |-> None]]

Idle == stack = <<>>
LispWaits == Idle \/ (Waiting /\ Len(stack) < 2)
Top == stack[Len(stack)]
Pop == SubSeq(stack, 1, Len(stack) - 1)
Blank == [s \in 1..Sections |-> None]

-----------------------------------------------------------------------------
(* The repositories and their servers.                                     *)

\* Somebody works in the repository.
Change(r) ==
    /\ version[r] < MaxVersion /\ version' = [version EXCEPT ![r] = @ + 1]
    /\ UNCHANGED <<asked, info, stack, shown, left>>

\* magit-status-new sends the request and returns.
magit_status_new(r) ==
    /\ Idle /\ Len(asked[r]) < MaxAsked
    /\ asked' = [asked EXCEPT ![r] = Append(@, version[r])]
    /\ UNCHANGED <<version, info, stack, shown, left>>

\* magit-status-setup-buffer-cb with an answer whose parts the server has read
\* at different times; requests may be answered out of order.
Callback(r, i, data) ==
    /\ LispWaits /\ i \in DOMAIN asked[r]
    /\ info' = [root |-> r, data |-> data] /\ left' = FALSE
    /\ stack' = Append(stack, [root |-> r, setup |-> TRUE, next |-> 1, since |-> asked[r][i]])
    /\ shown' = [shown EXCEPT ![r] = Blank]
    /\ asked' = [asked EXCEPT ![r] = SubSeq(@, 1, i - 1) \o SubSeq(@, i + 1, Len(@))]
    /\ UNCHANGED version

\* What the server may answer to the request it was asked at that version.
Data(r, since) == [1..Sections -> since..version[r]]

\* magit-refresh in a status buffer that has been drawn.
magit_refresh(r) ==
    /\ Idle /\ shown[r][1] # None
    /\ stack' = <<[root |-> r, setup |-> FALSE, next |-> 1, since |-> version[r]]>>
    /\ shown' = [shown EXCEPT ![r] = Blank]
    /\ UNCHANGED <<version, asked, info, left>>

-----------------------------------------------------------------------------
(* Drawing.                                                                *)

\* Mutant: a section of the answer shows what was last drawn from it.
Source_first(r, s) ==
    IF info # None
    THEN [root |-> info.root, version |-> 0, left |-> left]
    ELSE [root |-> r, version |-> version[r], left |-> FALSE]

\* A section function: from the answer if there is one, whosever it is.
Source(r, s) ==
    IF info # None
    THEN [root |-> info.root, version |-> info.data[s], left |-> left]
    ELSE [root |-> r, version |-> version[r], left |-> FALSE]

Insert ==
    /\ ~Idle /\ Top.next <= Sections
    /\ shown' = [shown EXCEPT ![Top.root][Top.next] = Source(Top.root, Top.next)]
    /\ stack' = Append(Pop, [Top EXCEPT !.next = @ + 1])
    /\ UNCHANGED <<version, asked, info, left>>

\* Mutant: git-info-for-hooks keeps its value.
Finish_keeps ==
    /\ ~Idle /\ Top.next > Sections /\ stack' = Pop
    /\ UNCHANGED <<version, asked, shown, info, left>>

\* The buffer is drawn; a setup clears the variable, and so it does for the
\* one it may have interrupted, which goes on with git.
Finish ==
    /\ ~Idle /\ Top.next > Sections /\ stack' = Pop
    /\ IF Top.setup THEN info' = None /\ left' = FALSE ELSE UNCHANGED <<info, left>>
    /\ UNCHANGED <<version, asked, shown>>

\* A section function signals an error: nothing clears the variable.  The error
\* ends the command, or the filter in which the callback was called.
Signals ==
    /\ ~Idle /\ Top.next <= Sections /\ stack' = Pop
    /\ left' = (left \/ info # None)
    /\ UNCHANGED <<version, asked, info, shown>>

Next ==
    \/ Insert \/ Finish \/ Signals
    \/ \E r \in Roots :
          \/ Change(r) \/ magit_status_new(r) \/ magit_refresh(r)
          \/ \E i \in DOMAIN asked[r] : \E data \in Data(r, asked[r][i]) : Callback(r, i, data)

Spec == Init /\ [][Next]_vars

-----------------------------------------------------------------------------
(* Properties.                                                             *)

\* A section shows the repository its buffer is for, unless an error had left
\* another answer in git-info-for-hooks.  With a function that waits, answers
\* for two repositories are drawn one inside the other.
OwnRepository ==
    \A r \in Roots : \A s \in 1..Sections :
        shown[r][s] # None /\ ~shown[r][s].left => shown[r][s].root = r

\* What is being drawn is no older than the command that has it drawn.
DrawsFresh ==
    \A r \in Roots : \A s \in 1..Sections :
        shown'[r][s] # shown[r][s] /\ shown'[r][s] # None /\ ~left =>
            shown'[r][s].version >= Top.since

\* Between commands git-info-for-hooks is nil, so that what reads it there, as
\* magit-save-repository-buffers does, is not taken to be inside a setup.
ClearedAtTop == Idle /\ ~left => info = None

\* "Refresh some buffers belonging to the current repository." (magit-refresh):
\* a refresh shows that repository, as it is or has become since the command.
RefreshShowsCurrent ==
    [][\A s \in 1..Sections :
        ~Idle /\ ~Top.setup /\ Top.next > Sections /\ stack' = Pop =>
            /\ shown[Top.root][s].root = Top.root
            /\ shown[Top.root][s].version >= Top.since]_vars

-----------------------------------------------------------------------------
(* What is true between any two steps, so that the properties stay true.   *)

\* Requests, commands, answers and sections are of versions there have been,
\* of the repository they name.
Past ==
    /\ \A r \in Roots : \A i \in 1..Len(asked[r]) : asked[r][i] <= version[r]
    /\ \A i \in 1..Len(stack) : stack[i].since <= version[stack[i].root]
    /\ info # None => \A s \in 1..Sections : info.data[s] <= version[info.root]
    /\ \A r \in Roots : \A s \in 1..Sections :
          shown[r][s] # None => shown[r][s].version <= version[shown[r][s].root]

\* An answer in git-info-for-hooks that no error left there is the one whose
\* setup is being drawn, and no older than it.
AnswerOfTop ==
    info # None /\ ~left =>
        /\ stack # <<>> /\ Top.setup /\ Top.root = info.root
        /\ \A s \in 1..Sections : info.data[s] >= Top.since

BufferInv == TypeOK /\ Past /\ AnswerOfTop /\ OwnRepository
=============================================================================
