--------------------------- MODULE StatusRecords ---------------------------
(***************************************************************************)
(* The texts inside a status answer, as the task functions of              *)
(* git_handler.c write them and as the section functions in Lisp take      *)
(* them apart: the status entries, the worktrees, the branches and the     *)
(* description of the closest tag.  A text is a sequence of characters or  *)
(* words, whichever its reader looks at; "NUL" separates its lines.        *)
(***************************************************************************)
EXTENDS Integers, SequencesExt

CONSTANTS
    Entries,    \* of a status list: index, worktree, conflicted, path, old
    Worktrees,  \* [path, head, branch, detached, locked, reason, prunable]
    Branches,   \* [name, current, upstream, track, ahead, behind, subject]
    Tags,       \* names, as words between hyphens
    MaxRecords  \* bound: entries, worktrees or branches of a repository

RecordsAssumption == MaxRecords \in Nat

\* Numbers are written out.
Numbers == {"0", "1", "2", "10"}

VARIABLES
    pc,         \* "read", "sent", "drawn"
    kind,       \* which text
    given,      \* the repository's state
    sent,       \* the text
    got         \* what Lisp makes of it

vars == <<pc, kind, given, sent, got>>

Given(k) ==
    CASE k = "status" -> SeqOf(Entries, MaxRecords)
      [] k = "worktrees" -> SeqOf(Worktrees, MaxRecords) \ {<<>>}
      [] k = "branches" -> SeqOf(Branches, MaxRecords)
      [] k = "tag" -> [name : Tags, distance : {"0", "1", "10"}]

Init ==
    /\ pc = "read"
    /\ kind \in {"status", "worktrees", "branches", "tag"}
    /\ given \in Given(kind) /\ sent = <<>> /\ got = <<>>

-----------------------------------------------------------------------------
(* git_handler.c.                                                          *)

Lines(records, lines(_)) == FlattenSeq([i \in DOMAIN records |-> lines(records[i])])

\* ADDED is GIT_STATUS_INDEX_NEW or GIT_STATUS_WT_NEW.
Letter == [NONE |-> " ", ADDED |-> "A", MODIFIED |-> "M", DELETED |-> "D",
           RENAMED |-> "R", TYPECHANGE |-> "T"]

\* Mutant: the worktree's side alone tells that a file is untracked.
XY_side(e) ==
    IF e.conflicted THEN <<"U", "U">>
    ELSE <<Letter[e.index], IF e.wt = "ADDED" THEN "?" ELSE Letter[e.wt]>>

\* The two letters of an entry.
XY(e) ==
    IF e.conflicted THEN <<"U", "U">>
    ELSE <<IF e.wt = "ADDED" /\ e.index = "NONE" THEN "?" ELSE Letter[e.index],
           IF e.wt = "ADDED" THEN "?" ELSE Letter[e.wt]>>

get_status_porcelain_z(entries) ==
    Lines(SelectSeq(entries, LAMBDA e : e.conflicted \/ e.index # "NONE" \/ e.wt # "NONE"),
          LAMBDA e : XY(e) \o <<" ">> \o e.path \o <<"NUL">>
                     \o IF e.old = <<>> THEN <<>> ELSE e.old \o <<"NUL">>)

\* The lines of one worktree.  A HEAD that cannot be read has none.
WorktreeLines(w) ==
    <<"worktree", w.path, "NUL">>
    \o (IF w.head = "" THEN <<>>
        ELSE <<"HEAD", w.head, "NUL">>
             \o IF w.detached THEN <<"detached", "NUL">> ELSE <<"branch", w.branch, "NUL">>)
    \o (IF ~w.locked THEN <<>>
        ELSE IF w.reason = "" THEN <<"locked", "NUL">> ELSE <<"locked", w.reason, "NUL">>)
    \o (IF w.prunable THEN <<"prunable", "NUL">> ELSE <<>>)
    \o <<"NUL">>

list_worktrees_porcelain(worktrees) == Lines(worktrees, WorktreeLines)

Track(b) ==
    CASE b.track = "counts" /\ b.ahead # "0" /\ b.behind # "0" -> <<"ahead", b.ahead, "behind", b.behind>>
      [] b.track = "counts" /\ b.ahead # "0" /\ b.behind = "0" -> <<"ahead", b.ahead>>
      [] b.track = "counts" /\ b.ahead = "0" /\ b.behind # "0" -> <<"behind", b.behind>>
      [] b.track = "gone" -> <<"gone">>
      [] OTHER -> <<>>

Word(w) == IF w = "" THEN <<>> ELSE <<w>>

\* A branch and its upstream have a short and a full name, both the same here.
append_branch_record(b) ==
    <<IF b.current THEN "*" ELSE " ", "NUL", b.name, "NUL", b.name, "NUL">>
    \o Word(b.upstream) \o <<"NUL">> \o Word(b.upstream) \o <<"NUL">>
    \o Track(b) \o <<"NUL", "NUL", "NUL", "NUL">> \o Word(b.subject) \o <<"LF">>

get_branch_list(branches) == Lines(branches, append_branch_record)

\* A tag that was found, and how far back; words between hyphens.
get_tag_desc(tag) ==
    IF tag.distance = "0" THEN tag.name ELSE tag.name \o <<tag.distance, "ghash">>

Produce ==
    /\ pc = "read" /\ pc' = "sent" /\ UNCHANGED <<kind, given, got>>
    /\ sent' = CASE kind = "status" -> get_status_porcelain_z(given)
                 [] kind = "worktrees" -> list_worktrees_porcelain(given)
                 [] kind = "branches" -> get_branch_list(given)
                 [] kind = "tag" -> get_tag_desc(given)

-----------------------------------------------------------------------------
(* The Lisp side.                                                          *)

\* split-string with one separator.
split_string(text, sep) ==
    LET p == FoldLeft(LAMBDA q, c : IF c = sep THEN [done |-> Append(q.done, q.cur), cur |-> <<>>]
                                    ELSE [q EXCEPT !.cur = Append(@, c)],
                      [done |-> <<>>, cur |-> <<>>], text)
    IN Append(p.done, p.cur)

omit_nulls(lines) == SelectSeq(lines, LAMBDA l : l # <<>>)

\* What magit-insert-untracked-files lists.
untracked_files(text) ==
    LET lines == SelectSeq(omit_nulls(split_string(text, "NUL")), LAMBDA l : l[1] = "?")
    IN [i \in DOMAIN lines |-> SubSeq(lines[i], 4, Len(lines[i]))]

NewWorktree(path) ==
    [path |-> path, head |-> "", branch |-> "", detached |-> FALSE, locked |-> <<>>, prunable |-> <<>>]

\* The clauses of magit-list-worktrees; (string-prefix-p line "locked") asks
\* whether the line is a prefix of the word.
OneLine(list, l) ==
    IF l[1] = "worktree" THEN Append(list, NewWorktree(l[2]))
    ELSE [list EXCEPT ![Len(list)] =
            CASE l[1] = "HEAD" -> [@ EXCEPT !.head = l[2]]
              [] l[1] = "branch" -> [@ EXCEPT !.branch = l[2]]
              [] l = <<"detached">> -> [@ EXCEPT !.detached = TRUE]
              [] IsPrefix(l, <<"locked">>) -> [@ EXCEPT !.locked = <<"t">>]
              [] l[1] = "prunable" -> [@ EXCEPT !.prunable = <<"t">>]
              [] OTHER -> @]

magit_list_worktrees(text) == FoldLeft(OneLine, <<>>, omit_nulls(split_string(text, "NUL")))

Count(track, word) ==
    IF \E i \in DOMAIN track : track[i] = word
    THEN track[1 + CHOOSE i \in DOMAIN track : track[i] = word] ELSE "0"

magit_refs__format_local_branch(line) ==
    LET f == split_string(line, "NUL") IN
    [current |-> f[1] = <<"*">>, name |-> f[2], upstream |-> f[4],
     ahead |-> Count(f[6], "ahead"), behind |-> Count(f[6], "behind"),
     subject |-> IF Len(f) < 10 THEN <<"nil">> ELSE f[10]]

format_local_branches(text) ==
    LET lines == omit_nulls(split_string(text, "LF"))
    IN [i \in DOMAIN lines |-> magit_refs__format_local_branch(lines[i])]

\* The regexp of magit-get-current-tag-v2 wants a number and a hash.
magit_get_current_tag_v2(text) ==
    LET n == Len(text) IN
    IF n > 2 /\ text[n - 1] \in Numbers /\ text[n] = "ghash"
    THEN <<SubSeq(text, 1, n - 2), text[n - 1]>> ELSE <<>>

Consume ==
    /\ pc = "sent" /\ pc' = "drawn" /\ UNCHANGED <<kind, given, sent>>
    /\ got' = CASE kind = "status" -> untracked_files(sent)
                [] kind = "worktrees" -> magit_list_worktrees(sent)
                [] kind = "branches" -> format_local_branches(sent)
                [] kind = "tag" -> magit_get_current_tag_v2(sent)

Next == Produce \/ Consume

Spec == Init /\ [][Next]_vars

-----------------------------------------------------------------------------
(* Properties.                                                             *)

Arrived(k) == kind = k /\ pc = "drawn"

\* A file that is in neither the index nor HEAD is listed as untracked, in its
\* place, and nothing else is, unless a file was renamed from a name that
\* begins with a question mark: its line looks like an untracked file's.
UntrackedExactly ==
    Arrived("status") /\ (\A i \in DOMAIN given : given[i].old = <<>> \/ given[i].old[1] # "?") =>
        LET new == SelectSeq(given, LAMBDA e : e.wt = "ADDED" /\ e.index = "NONE" /\ ~e.conflicted)
        IN got = [i \in DOMAIN new |-> new[i].path]

\* Each worktree arrives, in its place, with its own HEAD and its own flags,
\* however many lines the ones before it have.  "locked" is asked of a worktree
\* without a reason; LockedArrives is the claim for every one.
WorktreesArrive ==
    Arrived("worktrees") =>
        /\ Len(got) = Len(given)
        /\ \A i \in DOMAIN given : LET w == given[i]  v == got[i] IN
              /\ v.path = w.path /\ v.head = w.head
              /\ v.detached = (w.detached /\ w.head # "")
              /\ v.branch = (IF w.detached \/ w.head = "" THEN "" ELSE w.branch)
              /\ w.reason = "" => (v.locked # <<>>) = w.locked
              /\ (v.prunable # <<>>) = w.prunable

\* "The last four elements are booleans, with the exception of LOCKED and
\* PRUNABLE, which may also be strings" (magit-list-worktrees): a worktree is
\* locked when it was, with its reason if it has one.
LockedArrives ==
    Arrived("worktrees") =>
        \A i \in DOMAIN given : LET w == given[i] IN
            got[i].locked = IF ~w.locked THEN <<>>
                            ELSE IF w.reason = "" THEN <<"t">> ELSE <<w.reason>>

\* Each branch arrives with its marks, counts and subject, empty or not.
BranchesArrive ==
    Arrived("branches") =>
        /\ Len(got) = Len(given)
        /\ \A i \in DOMAIN given : LET b == given[i]  v == got[i] IN
              /\ v.current = b.current /\ v.name = <<b.name>> /\ v.upstream = Word(b.upstream)
              /\ v.ahead = (IF b.track = "counts" THEN b.ahead ELSE "0")
              /\ v.behind = (IF b.track = "counts" THEN b.behind ELSE "0")
              /\ v.subject = Word(b.subject)

\* A tag behind HEAD arrives with its distance, though its name may look like a
\* description itself; one at HEAD does only in that case.
TagArrives ==
    Arrived("tag") /\ given.distance # "0" => got = <<given.name, given.distance>>
=============================================================================
