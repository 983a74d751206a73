----------------------------- MODULE FuzzyLists ----------------------------
(***************************************************************************)
(* How the fuzzy search server makes a list out of what a command prints,  *)
(* a grep prints or a directory of yanks holds, and how it answers with    *)
(* it.  A string is a sequence of characters; the sizes of the C code's    *)
(* buffers are constants.                                                  *)
(***************************************************************************)
EXTENDS Integers, FiniteSets, SequencesExt

CONSTANTS
    Outputs,        \* what a command may print
    Yanks,          \* what a directory of yanks may hold, in readdir's order
    PATH_MAX,       \* size of the line buffer of fgets
    MAX_LINE,       \* longest line of a grep's output
    MAX_YANK,       \* characters shown of a yank
    MAX_RESPONSE_LINES

ListsAssumption ==
    /\ PATH_MAX \in Nat \ {0, 1} /\ MAX_LINE \in Nat /\ MAX_YANK \in Nat
    /\ MAX_RESPONSE_LINES \in Nat

VARIABLES
    cmd,
    input,      \* what the list is made of
    rest,       \* what is left of it
    cuts,       \* a grep's output was read up to here, each time
    list,       \* file_info
    phase,      \* "load", "sort", "answer", "done" or "undefined"
    overrun,    \* lines whose escaped form did not fit its buffer
    answer      \* the answer, as [length |-> header's number, lines |-> names]

vars == <<cmd, input, rest, cuts, list, phase, overrun, answer>>

NL == "\n"

Init ==
    /\ \/ cmd \in {"init_file", "init_path", "grep"} /\ input \in Outputs
       \/ cmd = "init_yank" /\ input \in Yanks
    /\ rest = input /\ cuts = {} /\ list = <<>> /\ phase = "load" /\ overrun = {}
    /\ answer = [length |-> 0, lines |-> <<>>]

\* The pieces of s, each but the last ended by a character of E.
Pieces(s, E) ==
    LET step(q, c) == IF c \in E THEN [done |-> Append(q.done, q.last), last |-> <<>>]
                      ELSE [q EXCEPT !.last = Append(@, c)] IN
    LET q == FoldLeft(step, [done |-> <<>>, last |-> <<>>], s) IN Append(q.done, q.last)

-----------------------------------------------------------------------------
(* search_helper.c.                                                        *)

\* get_file_name: what comes after the last slash.
get_file_name(path) == Last(Pieces(path, {"/"}))

\* fgets: up to a newline, or as much as the buffer holds.
fgets(s) ==
    LET n == IF Len(s) < PATH_MAX THEN Len(s) ELSE PATH_MAX - 1
        ends == {i \in 1..n : s[i] = NL} IN
    SubSeq(s, 1, IF ends = {} THEN n ELSE CHOOSE i \in ends : \A j \in ends : i <= j)

Entry(path, name) == [path |-> path, name |-> name, score |-> 0]

Loads(c) == cmd = c /\ phase = "load"

\* The last character is removed, the newline or another.
LoadLine ==
    /\ cmd \in {"init_file", "init_path"} /\ phase = "load" /\ rest # <<>>
    /\ LET got == fgets(rest)
           path == Front(got) IN
       /\ rest' = SubSeq(rest, Len(got) + 1, Len(rest))
       /\ list' = Append(list, Entry(path, IF cmd = "init_path" THEN path ELSE get_file_name(path)))
    /\ UNCHANGED <<cmd, input, cuts, phase, overrun, answer>>

LoadEnds ==
    /\ cmd \in {"init_file", "init_path"} /\ phase = "load" /\ rest = <<>>
    /\ phase' = "answer"
    /\ UNCHANGED <<cmd, input, rest, cuts, list, overrun, answer>>

-----------------------------------------------------------------------------
(* json_escape: lead bytes of characters that are not ASCII are left out,  *)
(* the bytes that follow them are not.                                     *)

Escaped(c) ==
    CASE c = NL -> <<"\\", "n">>
      [] c = "\r" -> <<"\\", "r">>
      [] c = "\t" -> <<"\\", "t">>
      [] c = "\"" -> <<"\\", "\"">>
      [] c = "\\" -> <<"\\", "\\">>
      [] c = "lead" -> <<>>
      [] OTHER -> <<c>>

json_escape(s) == FlattenSeq([i \in DOMAIN s |-> Escaped(s[i])])

\* The buffer holds two for each character; the end takes one more.
EscapeFits(s) == Len(json_escape(s)) + 1 <= 2 * Len(s)

(* grep.c: each read is cut into lines by itself.                          *)

\* strtok_r returns no empty line.
Short(line) == line # <<>> /\ Len(line) <= MAX_LINE

GrepLines(s) == SelectSeq(Pieces(s, {NL, "\r"}), Short)

ReadPipe ==
    /\ Loads("grep") /\ rest # <<>>
    /\ \E n \in 1..Len(rest) :
          /\ rest' = SubSeq(rest, n + 1, Len(rest))
          /\ cuts' = cuts \cup {Len(input) - Len(rest')}
          /\ LET lines == GrepLines(SubSeq(rest, 1, n)) IN
             /\ list' = list \o [i \in DOMAIN lines |-> Entry(json_escape(lines[i]), <<>>)]
             /\ overrun' = overrun \cup {l \in ToSet(lines) : ~EscapeFits(l)}
    /\ UNCHANGED <<cmd, input, phase, answer>>

GrepExits ==
    /\ Loads("grep") /\ rest = <<>> /\ phase' = "answer"
    /\ UNCHANGED <<cmd, input, rest, cuts, list, overrun, answer>>

-----------------------------------------------------------------------------
(* yank.c.                                                                 *)

\* The first line with its newline: getline's size is the buffer's, longer than
\* the line, so that only what is too long is cut off.
YankLine(name, line) ==
    LET n == IF Len(line) > MAX_YANK THEN MAX_YANK ELSE Len(line) IN
    name \o <<"|", " ">> \o json_escape(SubSeq(line, 1, n))

\* getline leaves the buffer it made as it was when there is no line.
LoadYank ==
    /\ Loads("init_yank") /\ rest # <<>> /\ rest' = Tail(rest)
    /\ \E line \in IF Head(rest).line = <<>> THEN {<<>>, <<"?">>} ELSE {Head(rest).line} :
          LET shown == YankLine(Head(rest).name, line) IN
          list' = Append(list, [Entry(shown, shown) EXCEPT !.score = Head(rest).mtime])
    /\ UNCHANGED <<cmd, input, cuts, phase, overrun, answer>>

\* yank_score_cmp.
Before(a, b) == a.score >= b.score

\* qsort is told of one entry less than there are.
Sorted(n) == n - 1

\* With none it is told of SIZE_MAX entries.
SortNone ==
    /\ Loads("init_yank") /\ rest = <<>> /\ list = <<>> /\ phase' = "undefined"
    /\ UNCHANGED <<cmd, input, rest, cuts, list, overrun, answer>>

Sort ==
    /\ Loads("init_yank") /\ rest = <<>> /\ list # <<>> /\ phase' = "answer"
    /\ \E p \in {p \in [DOMAIN list -> DOMAIN list] :
                    /\ \A i, j \in DOMAIN list : i # j => p[i] # p[j]
                    /\ \A i \in (Sorted(Len(list)) + 1)..Len(list) : p[i] = i
                    /\ \A i \in 2..Sorted(Len(list)) :
                          Before(list[p[i - 1]], list[p[i]])} :
          list' = [i \in DOMAIN list |-> list[p[i]]]
    /\ UNCHANGED <<cmd, input, rest, cuts, overrun, answer>>

-----------------------------------------------------------------------------
(* create_res_json and send_res_from_file_info.                            *)

\* The characters of the answer, at least: 33 around the array and 29 around each
\* name.
BodyLength(lines) ==
    33 + FoldLeft(LAMBDA n, line : n + 29 + Len(line), 0, lines)

\* Mutant: for an empty answer too.
Length_end(lines) == 3

\* For an array that is not empty it is the length of what ends it.
Length(lines) == IF lines = <<>> THEN BodyLength(<<>>) ELSE 3

SendRes ==
    /\ phase = "answer" /\ phase' = "done"
    /\ LET n == IF Len(list) > MAX_RESPONSE_LINES THEN MAX_RESPONSE_LINES ELSE Len(list)
           lines == [i \in 1..n |-> list[i].path] IN
       answer' = [length |-> Length(lines), lines |-> lines]
    /\ UNCHANGED <<cmd, input, rest, cuts, list, overrun>>

Next ==
    \/ LoadLine \/ LoadEnds \/ ReadPipe \/ GrepExits
    \/ LoadYank \/ SortNone \/ Sort \/ SendRes

Spec == Init /\ [][Next]_vars

-----------------------------------------------------------------------------
(* Reference definitions.                                                  *)

\* The lines of s as they are meant: between newlines, and a last one without.
Lines(s) ==
    LET p == Pieces(s, {NL}) IN IF p[Len(p)] = <<>> THEN Front(p) ELSE p

\* What a reader of JSON makes of s; "bad" stands for what is not well formed.
Decoded(s) ==
    LET plain(c) == CASE c = "n" -> NL [] c = "r" -> "\r" [] c = "t" -> "\t" [] OTHER -> c
        step(q, c) ==
            IF q.esc THEN [out |-> Append(q.out, plain(c)), esc |-> FALSE]
            ELSE IF c = "\\" THEN [q EXCEPT !.esc = TRUE]
            ELSE [q EXCEPT !.out = Append(@, IF c \in {NL, "\r", "\t", "\""} THEN "bad" ELSE c)]
        q == FoldLeft(step, [out |-> <<>>, esc |-> FALSE], s) IN
    IF q.esc THEN Append(q.out, "bad") ELSE q.out

Ascii(s) == SelectSeq(s, LAMBDA c : c # "lead")

Paths == [i \in DOMAIN list |-> list[i].path]

Loaded == phase \in {"answer", "done"}

(* Properties.                                                             *)

\* The types; an answer has no more lines than there is room for.
TypeOK ==
    /\ phase \in {"load", "answer", "done", "undefined"}
    /\ cuts \subseteq 1..Len(input)
    /\ Len(answer.lines) <= MAX_RESPONSE_LINES

\* What a command prints is listed line by line if it ends with a newline and
\* no line is too long for the buffer; of each path the name is what follows
\* the last slash.
FilesListed ==
    Loaded /\ cmd \in {"init_file", "init_path"} /\ input # <<>> =>
        /\ Last(input) = NL /\ (\A i \in DOMAIN Lines(input) : Len(Lines(input)[i]) + 2 <= PATH_MAX)
               => Paths = Lines(input)
        /\ cmd = "init_file" => \A i \in DOMAIN list :
               LET p == list[i].path n == list[i].name IN
               /\ "/" \notin ToSet(n)
               /\ p = n \/ \E k \in DOMAIN p : p[k] = "/" /\ n = SubSeq(p, k + 1, Len(p))

\* If no read ends within a line, the lines of a grep that are neither empty nor
\* too long arrive, in order, and read as JSON they are what the grep printed,
\* but for the lead bytes.
GrepArrives ==
    Loaded /\ cmd = "grep" /\ (\A k \in cuts : k = Len(input) \/ input[k] = NL) =>
        LET wanted == SelectSeq(Lines(input), LAMBDA l : l # <<>> /\ Len(l) <= MAX_LINE) IN
        "\r" \notin ToSet(input) =>
            [i \in DOMAIN list |-> Decoded(list[i].path)] = [i \in DOMAIN wanted |-> Ascii(wanted[i])]

\* Only a line in which every character must be escaped overruns its buffer, by
\* the zero at its end.
OverrunOnlyByEscapes ==
    \A l \in overrun : \A i \in DOMAIN l : Len(Escaped(l[i])) = 2

\* Yanks are answered the newest first, but for the one read last, which stays
\* last; what is shown of each reads as JSON.
NewestFirst ==
    Loaded /\ cmd = "init_yank" =>
        /\ \A i, j \in 1..(Len(list) - 1) : i < j => list[i].score >= list[j].score
        /\ list[Len(list)].score = input[Len(input)].mtime
        /\ \A i \in DOMAIN list : "bad" \notin ToSet(Decoded(list[i].path))

\* The header of an answer without names tells its length.
EmptyAnswerFramed ==
    phase = "done" /\ answer.lines = <<>> => answer.length = BodyLength(<<>>)
=============================================================================
