------------------------------ MODULE MruFile ------------------------------
(***************************************************************************)
(* The file of most recently used paths (mru.c), which the fuzzy search    *)
(* servers of several editors read, count in and write from scratch: a     *)
(* line is path:count.  The file is a sequence of characters; a count has  *)
(* one digit.                                                              *)
(***************************************************************************)
EXTENDS Integers, FiniteSets, SequencesExt

CONSTANTS
    Editors,
    Paths,      \* what the editors open, as sequences of characters
    Files,      \* what the file may hold at first
    MaxCount    \* bound: of a path, at most 9

MruAssumption == MaxCount \in 0..9

VARIABLES
    file,
    pc,         \* of each editor's server: "idle", "loaded", "opened", "overrun"
    path,       \* what it counts
    loaded,     \* file_info, as it was loaded
    from,       \* what the file held when it was loaded
    alone,      \* nothing has been written since but by itself
    answer,     \* what init_mru sent
    spoiled     \* an editor was killed while writing, two wrote at once, or a
                \* path with a colon has been written

vars == <<file, pc, path, loaded, from, alone, answer, spoiled>>

Digits == <<"0", "1", "2", "3", "4", "5", "6", "7", "8", "9">>
Digit(c) == SelectInSeq(Digits, LAMBDA d : d = c) - 1

\* atoi stops at what is not a digit; one digit is enough here.
atoi(s) == IF s = <<>> \/ Digit(s[1]) < 0 THEN 0 ELSE Digit(s[1])

Init ==
    /\ file \in Files
    /\ pc = [e \in Editors |-> "idle"] /\ path = [e \in Editors |-> <<>>]
    /\ loaded = [e \in Editors |-> <<>>] /\ from = [e \in Editors |-> <<>>]
    /\ alone = [e \in Editors |-> TRUE]
    /\ answer = [e \in Editors |-> <<>>] /\ spoiled = FALSE

-----------------------------------------------------------------------------
(* load_mru_to_file_info.                                                  *)

\* A colon ends the key even when it is part of the path.
Colon(q) == [q EXCEPT !.mode = 1, !.entry = q.key, !.key = <<>>]

Newline(q) ==
    [q EXCEPT !.mode = 0, !.val = <<>>,
              !.list = Append(@, [path |-> q.entry, score |-> atoi(q.val)])]

Character(q, c) ==
    IF q.mode = 0 THEN [q EXCEPT !.key = Append(@, c)] ELSE [q EXCEPT !.val = Append(@, c)]

load(bytes) ==
    FoldLeft(LAMBDA q, c :
                IF q.ended THEN q
                ELSE CASE c = ":" -> Colon(q)
                       [] c = "\n" -> Newline(q)
                       [] c = "NUL" -> [q EXCEPT !.ended = TRUE]
                       [] OTHER -> Character(q, c),
             [mode |-> 0, key |-> <<>>, val |-> <<>>, entry |-> <<>>, list |-> <<>>,
              ended |-> FALSE],
             bytes).list

\* The loop ends at a NUL.  The end of the file reads as a character like any
\* other, again and again, until the key's buffer is overrun.
Ends(bytes) == "NUL" \in ToSet(bytes)

\* What then happens is undefined; the server is taken to be lost.
Overruns(e) ==
    /\ pc[e] = "idle" /\ ~Ends(file) /\ pc' = [pc EXCEPT ![e] = "overrun"]
    /\ UNCHANGED <<file, path, loaded, from, alone, answer, spoiled>>

-----------------------------------------------------------------------------
\* init_mru: what is in the file is answered, unless it is nothing.
InitMru(e) ==
    /\ pc[e] = "idle" /\ Ends(file)
    /\ answer' = [answer EXCEPT ![e] = IF load(file) = <<>> THEN @ ELSE load(file)]
    /\ UNCHANGED <<file, pc, path, loaded, from, alone, spoiled>>

\* write_mru reads the file and closes it.
Read(e) ==
    /\ pc[e] = "idle" /\ Ends(file) /\ pc' = [pc EXCEPT ![e] = "loaded"]
    /\ \E p \in Paths : path' = [path EXCEPT ![e] = p]
    /\ loaded' = [loaded EXCEPT ![e] = load(file)]
    /\ from' = [from EXCEPT ![e] = file]
    /\ alone' = [alone EXCEPT ![e] = \A d \in Editors : pc[d] # "opened"]
    /\ UNCHANGED <<file, answer, spoiled>>

\* Opening it again to write empties it.
Open(e) ==
    /\ pc[e] = "loaded" /\ pc' = [pc EXCEPT ![e] = "opened"] /\ file' = <<>>
    /\ alone' = [d \in Editors |-> alone[d] /\ d = e]
    /\ spoiled' = (spoiled \/ \E d \in Editors \ {e} : pc[d] \in {"loaded", "opened"}
                           \/ ~alone[e] \/ ":" \in ToSet(path[e]))
    /\ UNCHANGED <<path, loaded, from, answer>>

\* Mutant: only the first of equal paths is looked for, and a new one has no count.
Counted_zero(list, p) ==
    IF \E i \in DOMAIN list : list[i].path = p
    THEN [i \in DOMAIN list |-> IF list[i].path = p THEN [list[i] EXCEPT !.score = @ + 1] ELSE list[i]]
    ELSE Append(list, [path |-> p, score |-> 0])

Counted(list, p) ==
    IF \E i \in DOMAIN list : list[i].path = p
    THEN [i \in DOMAIN list |-> IF list[i].path = p THEN [list[i] EXCEPT !.score = @ + 1] ELSE list[i]]
    ELSE Append(list, [path |-> p, score |-> 1])

\* mru_score_cmp; qsort may put equal ones in any order.
Sorted(list) ==
    {[i \in DOMAIN list |-> list[p[i]]] : p \in
        {p \in [DOMAIN list -> DOMAIN list] :
            /\ \A i, j \in DOMAIN list : i # j => p[i] # p[j]
            /\ \A i \in DOMAIN list \ {1} : list[p[i - 1]].score >= list[p[i]].score}}

Line(entry) == entry.path \o <<":", Digits[entry.score + 1], "\n">>

Written(list) == FlattenSeq([i \in DOMAIN list |-> Line(list[i])])

\* The stream is written out when it is closed, from the file's beginning.
Write(e) ==
    /\ pc[e] = "opened" /\ pc' = [pc EXCEPT ![e] = "idle"]
    /\ \A i \in DOMAIN loaded[e] : loaded[e][i].score < MaxCount
    /\ \E list \in Sorted(Counted(loaded[e], path[e])) :
          LET text == Written(list) IN
          file' = text \o SubSeq(file, Len(text) + 1, Len(file))
    /\ alone' = [d \in Editors |-> alone[d] /\ d = e]
    /\ UNCHANGED <<path, loaded, from, answer, spoiled>>

\* The editor ends its server, or it crashes; another may be started.
Kill(e) ==
    /\ pc[e] # "idle" /\ pc' = [pc EXCEPT ![e] = "idle"]
    /\ spoiled' = (spoiled \/ pc[e] = "opened")
    /\ UNCHANGED <<file, path, loaded, from, alone, answer>>

Next ==
    \E e \in Editors :
        Overruns(e) \/ InitMru(e) \/ Read(e) \/ Open(e) \/ Write(e) \/ Kill(e)

Spec == Init /\ [][Next]_vars

-----------------------------------------------------------------------------
(* Properties.                                                             *)

Entries(bytes) == ToSet(load(bytes))

\* How often a text says that p was used; the number of its line.
CountIn(bytes, p) ==
    {n \in 0..9 : \E i \in 0..Len(bytes) :
        LET line == Line([path |-> p, score |-> n]) IN
        /\ i = 0 \/ bytes[i] = "\n"
        /\ i + Len(line) <= Len(bytes) /\ SubSeq(bytes, i + 1, i + Len(line)) = line}

\* The types; what a server has loaded came from a file with a NUL in it, and
\* nothing this program writes has one.
TypeOK ==
    /\ \A e \in Editors : pc[e] \in {"idle", "loaded", "opened", "overrun"}
    /\ \A e \in Editors : pc[e] = "loaded" => "NUL" \in ToSet(from[e])

\* A server that was alone counts the path once more, keeps the count of every
\* other path, and puts the most used first.
CountsUp ==
    \A e \in Editors :
        pc[e] = "opened" /\ pc'[e] = "idle" /\ alone[e] /\ file' # file
        /\ ":" \notin ToSet(path[e]) =>
            /\ \A p \in Paths :
                  CountIn(file', p) =
                      IF p # path[e] THEN CountIn(from[e], p)
                      ELSE IF CountIn(from[e], p) = {} THEN {1}
                      ELSE {n + 1 : n \in CountIn(from[e], p)}
            /\ LET list == load(file') IN
               \A i, j \in DOMAIN list : i < j => list[i].score >= list[j].score

\* A path in the file is lost only while it is being written, when a server is
\* killed in between, when two write, or when a path holds a colon.
NothingLost ==
    spoiled \/ \A p \in Paths :
        \/ \E e \in Editors : pc[e] = "opened"
        \/ \A e \in Editors : CountIn(from[e], p) # {} => CountIn(file, p) # {}

\* What init_mru sends are lines of the file.
AnswerFromFile ==
    \A e \in Editors : answer'[e] # answer[e] =>
       spoiled \/ \A i \in DOMAIN answer'[e] :
           answer'[e][i].score \in CountIn(file, answer'[e][i].path)
=============================================================================
