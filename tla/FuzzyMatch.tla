----------------------------- MODULE FuzzyMatch ----------------------------
(***************************************************************************)
(* The search of fuzzy.c: which names of a list a word matches, with which *)
(* score, at which positions, and what is answered.                        *)
(*                                                                         *)
(* Positions count from 0, as in the code; the string s has its character  *)
(* i at s[i + 1].  Scores are size_t: Modulus stands for 2^64.             *)
(***************************************************************************)
EXTENDS Integers, FiniteSets, SequencesExt

CONSTANTS
    Words,          \* the words the editor may send
    Names,          \* the names of files
    MaxFiles,       \* bound: files of a list
    MAX_RESPONSE_LINES

SearchAssumption ==
    /\ MaxFiles \in Nat /\ MAX_RESPONSE_LINES \in Nat
    /\ \A s \in Words \cup Names : s \in Seq(STRING)

Modulus == 2^30
FlagBits == 64
MAX_FUZZY_MATCHES == 256
FUZZY_MATCH_RECURSION_LIMIT == 10

VARIABLES
    word,       \* the word searched for, without its spaces
    files,      \* the list
    at,         \* files searched
    file_res,   \* what matched, in the order of the list
    sent,       \* the answer has been sent
    answer      \* what the editor got

vars == <<word, files, at, file_res, sent, answer>>

-----------------------------------------------------------------------------
tolower(c) ==
    CASE c = "A" -> "a" [] c = "B" -> "b" [] OTHER -> c

SumOver(S, f(_)) == FoldLeft(LAMBDA sum, i : sum + f(i), 0, SetToSeq(S))

Leading(first) == IF -5 * first < -15 THEN -15 ELSE -5 * first

\* Mutant: the letters that match are the penalty.
Unmatched_matched(len, n) == n

Unmatched(len, n) == len - n

\* The bonus for match i by where it is and by its neighbour in str, which is
\* the word, not the name; the buffer behind the word is zero.
Place(str, matches, i) ==
    LET curr == matches[i + 1]
        neighbor == IF curr <= Len(str) THEN str[curr] ELSE "NUL" IN
    IF curr = 0 THEN 15
    ELSE IF neighbor \in {"/", "\\"} THEN 30
    ELSE IF neighbor \in {" ", "_"} THEN 25
    ELSE 0

\* Match i after match i - 1; the difference of two positions is a size_t too.
Gap(matches, i) ==
    LET step == matches[i + 1] - matches[i] IN
    IF i = 0 THEN 0 ELSE IF step = 1 THEN 40 ELSE -2 * step

fuzzy_match_compute_score(str, len, matches, n) ==
    (100 + Leading(matches[1]) - Unmatched(len, n)
        + SumOver(0..(n - 1), LAMBDA i :
              Place(str, matches, i) + IF i = 0 THEN 0 ELSE Gap(matches, i))) % Modulus

-----------------------------------------------------------------------------
(* fuzzy_match_recursive.  It tries the whole word again on the rest of    *)
(* the line after the line's first character, whichever character matched. *)
(* What its calls share: [count |-> recursion_count, marks |-> match_pos]. *)

\* Mutant: only the name's case is ignored.
Same_case(w, p, line, s) == w[p + 1] = tolower(line[s + 1])

Same(w, p, line, s) == tolower(w[p + 1]) = tolower(line[s + 1])

\* What a call knows when it begins.
Begin(matches, shared) ==
    [p |-> 0, s |-> 0, matches |-> matches, full |-> FALSE,
     best |-> [found |-> FALSE, score |-> 0, matches |-> <<>>], shared |-> shared]

\* What a call returns: next_match or 0, the score, and matches.
Result(n, score, matches, shared) ==
    [n |-> n, score |-> score, matches |-> matches, shared |-> shared]

\* The end of a call: the better of its own match and the best recursive one.
\* Without either *out_score stays as it was.
Finish(w, word_, len, c, score) ==
    LET matched == c.p = Len(w)
        n == Len(c.matches)
        own == IF matched THEN fuzzy_match_compute_score(word_, len, c.matches, n) ELSE score IN
    IF c.full THEN Result(0, score, c.matches, c.shared)
    ELSE IF c.best.found /\ (~matched \/ c.best.score > own)
         THEN Result(n, c.best.score, c.best.matches, c.shared)
    ELSE IF matched THEN Result(n, own, c.matches, c.shared)
    ELSE Result(0, score, c.matches, c.shared)

\* The loop over the line, from one character that matches to the next: it is
\* taken, and call, what a recursive call does with its arguments, tries from
\* here on.
Scan(w, a, call, c) ==
    LET hits == {s \in c.s..(Len(a.line) - 1) : Same(w, c.p, a.line, s)}
        s == Min(hits)
        marked == [c EXCEPT !.shared.marks = @ \cup {s}]
        r == call[[line |-> Tail(a.line), idx |-> a.idx + s + 1, score |-> 0,
                   src |-> c.matches, shared |-> marked.shared]]
        better == r.n # 0 /\ (~c.best.found \/ r.score > c.best.score) IN
    IF c.full \/ hits = {} THEN c
    ELSE IF Len(c.matches) >= MAX_FUZZY_MATCHES THEN [marked EXCEPT !.full = TRUE]
    ELSE [c EXCEPT !.s = s + 1, !.p = @ + 1, !.matches = Append(@, a.idx + s),
                   !.shared = r.shared,
                   !.best = IF better
                            THEN [found |-> TRUE, score |-> r.score, matches |-> r.matches]
                            ELSE @]

\* The arguments that differ from call to call.
Calls ==
    [line : Seq(STRING), idx : Nat, score : Nat, src : Seq(Nat),
     shared : [count : Nat, marks : SUBSET Nat]]

\* All calls made for the word's rest w.
fuzzy_match_recursive(w, word_, len) ==
    LET call[a \in Calls] ==
          LET entered == [a.shared EXCEPT !.count = @ + 1]
              end == FoldLeft(LAMBDA c, k : Scan(w, a, call, c), Begin(a.src, entered), w) IN
          IF entered.count >= FUZZY_MATCH_RECURSION_LIMIT
          THEN Result(0, a.score, a.src, entered)
          ELSE Finish(w, word_, len, end, a.score)
    IN call

-----------------------------------------------------------------------------
Suffix(w, i) == SubSeq(w, i, Len(w))

\* fuzzy_match: complete is never set, so that after the word each of its ends
\* is matched too, until one is not or the calls are used up; the last score
\* stays.
fuzzy_match(w, name) ==
    FoldLeft(LAMBDA q, i :
               IF q.stop THEN q
               ELSE LET r == fuzzy_match_recursive(Suffix(w, i), w, Len(name))[
                               [line |-> name, idx |-> 0, score |-> q.score, src |-> <<>>,
                                shared |-> q.shared]] IN
                    [score |-> r.score, shared |-> r.shared, stop |-> r.n = 0,
                     matches |-> IF i = 1 THEN SubSeq(r.matches, 1, r.n) ELSE q.matches],
             [score |-> 0, shared |-> [count |-> 0, marks |-> {}], stop |-> FALSE,
              matches |-> <<>>],
             [i \in 1..Len(w) |-> i])

\* strtoul of match_pos: the marks as bits, the name's last character the
\* lowest; a number too long for it has all of them.
binstr_to_int(marks, len) ==
    LET bits == {len - 1 - m : m \in marks} IN
    IF bits \subseteq 0..(FlagBits - 1) THEN bits ELSE 0..(FlagBits - 1)

sanitize_word(w) == SelectSeq(w, LAMBDA c : c # " ")

-----------------------------------------------------------------------------
(* start_fuzzy_response, without its cancellation.                         *)

Init ==
    /\ \E w \in Words : word = sanitize_word(w)
    /\ files \in UNION {[1..n -> Names] : n \in 0..MaxFiles}
    /\ at = 0 /\ file_res = <<>> /\ sent = FALSE /\ answer = <<>>

Listed(q) == q.score > 0

SearchFile ==
    /\ ~sent /\ at < Len(files) /\ at' = at + 1
    /\ LET q == fuzzy_match(word, files[at']) IN
       file_res' = IF ~Listed(q) THEN file_res
                   ELSE Append(file_res,
                               [file |-> at', score |-> q.score, matches |-> q.matches,
                                flag |-> binstr_to_int(q.shared.marks, Len(files[at']))])
    /\ UNCHANGED <<word, files, sent, answer>>

\* result_compare.
Before(a, b) == a.score >= b.score

\* qsort may put equal ones in any order; the first lines are sent.
Respond ==
    /\ ~sent /\ at = Len(files) /\ sent' = TRUE
    /\ \E p \in {p \in [DOMAIN file_res -> DOMAIN file_res] :
                    /\ \A i, j \in DOMAIN file_res : i # j => p[i] # p[j]
                    /\ \A i \in DOMAIN file_res \ {1} :
                          Before(file_res[p[i - 1]], file_res[p[i]])} :
          LET n == IF Len(file_res) > MAX_RESPONSE_LINES THEN MAX_RESPONSE_LINES
                   ELSE Len(file_res) IN
          answer' = [i \in 1..n |-> file_res[p[i]]]
    /\ UNCHANGED <<word, files, at, file_res>>

Next == SearchFile \/ Respond

Spec == Init /\ [][Next]_vars

-----------------------------------------------------------------------------
(* Reference definitions.                                                  *)

\* The sets of positions of s that spell w, in order.
Spellings(w, s) ==
    LET letters == {tolower(w[i]) : i \in DOMAIN w} IN
    {P \in SUBSET {k \in 0..(Len(s) - 1) : tolower(s[k + 1]) \in letters} :
        /\ Cardinality(P) = Len(w)
        /\ LET in_order == SetToSortSeq(P, <) IN
           \A i \in DOMAIN w : tolower(s[in_order[i] + 1]) = tolower(w[i])}

\* Letters of a name whose penalties, 15 for the leading ones and at most 3 for
\* each, leave something of the 100 that a match begins with.
ShortName == 28

Results == {file_res[i] : i \in DOMAIN file_res}

(* Properties.                                                             *)

\* The types; a score is a size_t and the marks fit an unsigned long.
TypeOK ==
    /\ at \in 0..Len(files)
    /\ \A r \in Results :
          r.file \in 1..at /\ r.score \in 1..(Modulus - 1) /\ r.flag \subseteq 0..(FlagBits - 1)

\* A name is found only if the word is a subsequence of it in either case, and
\* if it is, however many tries the limit on recursion allows; a longer name may
\* be left with a score of 0, and then start_fuzzy_response does not list it.
FoundIffSubsequence ==
    LET found == {r.file : r \in Results}
        spelled == {i \in 1..at : Len(word) > 0 /\ Spellings(word, files[i]) # {}} IN
    /\ found \subseteq spelled
    /\ \A i \in spelled : Len(files[i]) <= ShortName => i \in found

\* Among the marks that the editor gets are ones that spell the word.
MarksSpell ==
    \A r \in Results :
       LET s == files[r.file]
           marks == {Len(s) - 1 - b : b \in r.flag} IN
       Len(s) <= FlagBits => \E P \in Spellings(word, s) : P \subseteq marks

\* What is answered was found, and what was found and is not answered scores
\* no better.
BestAnswered ==
    sent =>
        /\ \A i \in DOMAIN answer : answer[i] \in Results
        /\ Len(answer) < Len(file_res) => Len(answer) = MAX_RESPONSE_LINES
        /\ \A r \in Results : \A i \in DOMAIN answer :
              (\A j \in DOMAIN answer : answer[j] # r) => answer[i].score >= r.score

\* "penalty for every letter that doesn't match": of two names of which one is
\* the other with more letters, none of them in the word, it is the shorter that
\* scores better, unless the penalties of the longer one are more than it has:
\* its score is a size_t, goes round below zero and is then the best of all.
UnmatchedCosts ==
    \A r, q \in Results :
       LET s == files[r.file] t == files[q.file] IN
       /\ Len(s) < Len(t) /\ SubSeq(t, 1, Len(s)) = s
       /\ \A i \in (Len(s) + 1)..Len(t) : \A j \in DOMAIN word : tolower(t[i]) # tolower(word[j])
       => r.score > q.score \/ q.score >= Modulus \div 2

\* A score goes round only for a name that is longer than ShortName.
ShortScoresAreSums ==
    \A r \in Results : Len(files[r.file]) <= ShortName => r.score < Modulus \div 2
=============================================================================
