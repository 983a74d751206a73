------------------------------ MODULE KSearch ------------------------------
(***************************************************************************)
(* klib's Boyer-Moore search and its two ways to split a string, with the  *)
(* C code's 0-based arrays as functions.  A case is a string and a         *)
(* pattern, or a string and separators; a run takes all small cases.       *)
(***************************************************************************)
EXTENDS Integers, Sequences, FiniteSetsExt, SequencesExt, Folds

CONSTANTS
    Chars,          \* characters of the strings
    Spaces,         \* those that isspace is true of
    MaxStr, MaxPat, \* bounds: lengths of strings and of patterns
    SepSets         \* separators of kstrtok

SearchAssumption == MaxStr \in Nat /\ MaxPat \in Nat /\ Spaces \subseteq Chars

NUL == "\\0"

\* A C string: its characters at 0..n-1, and a NUL.
CString(s) == [i \in 0..Len(s) |-> IF i = Len(s) THEN NUL ELSE s[i + 1]]

Strings(n) == UNION {[1..k -> Chars] : k \in 0..n}

-----------------------------------------------------------------------------
(* Boyer-Moore.                                                            *)

\* preBmBc: how far the last place of a character is from the end.
bmBc(pat, m) ==
    [c \in Chars |->
        LET places == {i \in 0..m-2 : pat[i] = c} IN
        IF places = {} THEN m ELSE m - Max(places) - 1]

\* suffixes: for each i the length of the longest suffix of the pattern that
\* ends there, from those to the right of it.  f and g are where the last
\* comparison began and ended.
suffixes(pat, m) ==
    LET step(i, q) ==
          LET known == i > q.g /\ q.suff[i + m - 1 - q.f] < i - q.g
              from == IF i < q.g THEN i ELSE q.g
              g == Max({-1} \cup {h \in 0..from : pat[h] # pat[h + m - 1 - i]}) IN
          IF known THEN [q EXCEPT !.suff[i] = q.suff[i + m - 1 - q.f]]
          ELSE [suff |-> [q.suff EXCEPT ![i] = i - g], f |-> i, g |-> g]
        start == [suff |-> [i \in 0..m-1 |-> IF i = m - 1 THEN m ELSE 0], f |-> 0, g |-> m - 1]
    IN FoldLeft(LAMBDA q, k : step(m - 1 - k, q), start, [k \in 1..m-1 |-> k]).suff

\* Mutant: prefixes that are suffixes are not looked at.
bmGs_only(pat, m) ==
    LET suff == suffixes(pat, m) IN
    FoldLeft(LAMBDA q, k : [q EXCEPT ![m - 1 - suff[k - 1]] = m - k],
             [j \in 0..m-1 |-> m], [k \in 1..m-1 |-> k])

\* preBmGs: for each place of a mismatch the shift that brings an equal suffix,
\* or a prefix that is a suffix, below the part that matched.
bmGs(pat, m) ==
    LET suff == suffixes(pat, m)
        borders == {i \in 0..m-1 : suff[i] = i + 1}
        first == [j \in 0..m-1 |->
            LET shifts == {m - 1 - i : i \in borders} IN
            Min({s \in shifts : j < s} \cup {m})]
    IN FoldLeft(LAMBDA q, k : [q EXCEPT ![m - 1 - suff[k - 1]] = m - k],
                first, [k \in 1..m-1 |-> k])

\* The larger of the two shifts; a bad character alone may shift to the left.
Shift(bc, gs, i) == IF bc < gs[i] THEN gs[i] ELSE bc

\* Where two strings differ last, from i on downwards; -1 if they do not.
Mismatch(str, pat, m, j) == Max({-1} \cup {i \in 0..m-1 : pat[i] # str[i + j]})

\* kmemmem: the place of the pattern, or -1.
kmemmem(str, n, pat, m) ==
    LET gs == bmGs(pat, m) bc == bmBc(pat, m)
        f[left \in -m..n - m + 1] ==  \* left: places that are left to try
            LET j == n - m + 1 - left
                i == Mismatch(str, pat, m, j) IN
            IF left <= 0 THEN -1
            ELSE IF i < 0 THEN j
            ELSE f[left - Min({Shift(bc[str[i + j]] - m + 1 + i, gs, i), left})]
    IN IF n < m THEN -1 ELSE f[n - m + 1]

-----------------------------------------------------------------------------
(* Splitting.                                                              *)

\* aux->finished: the token ended with the string.
Finished(str, p) == str[p] = NUL

\* kstrtok, called until it returns NULL: the tokens as <<start, end>>.
\* separators are characters; with several of them it goes by a table.
kstrtok(str, n, separators) ==
    LET End(start) == Min({p \in start..n : str[p] \in separators \/ str[p] = NUL})
        f[start \in 0..n+1] ==
            LET p == End(start) IN
            IF start > n THEN <<>>
            ELSE IF Finished(str, p) THEN <<<<start, p>>>>
            ELSE <<<<start, p>>>> \o f[p + 1]
    IN f[0]

\* last_start = i: after a delimiter or at the beginning of the string.
Begins(c, last, delimiter) ==
    IF delimiter = NUL THEN last \in Spaces \cup {NUL} ELSE last \in {delimiter, NUL}

\* The end of a field: isgraph of the last character, or it is no delimiter.
Ends(last, delimiter) ==
    IF delimiter = NUL THEN last \notin Spaces \cup {NUL} ELSE last \notin {delimiter, NUL}

\* ksplit_core: the places where fields start, and the string with a NUL
\* where they end.  A delimiter of 0 stands for all spaces.
ksplit_core(str, n, delimiter) ==
    LET step(q, k) ==
          LET i == k - 1 c == q.s[i]
              stop == c = NUL \/ IF delimiter = NUL THEN c \in Spaces ELSE c = delimiter
              r == IF stop
                     THEN IF Ends(q.last, delimiter)
                            THEN [q EXCEPT !.offsets = Append(@, q.start), !.s[i] = NUL] ELSE q
                     ELSE IF Begins(c, q.last, delimiter) THEN [q EXCEPT !.start = i] ELSE q
          IN [r EXCEPT !.last = r.s[i]]
    IN FoldLeft(step, [s |-> str, offsets |-> <<>>, start |-> 0, last |-> NUL],
                [k \in 1..n+1 |-> k])

-----------------------------------------------------------------------------
VARIABLES case, done

vars == <<case, done>>

Init ==
    /\ done = FALSE
    /\ \E s \in Strings(MaxStr) :
          \/ \E p \in Strings(MaxPat) \ {<<>>} : case = [f |-> "kmemmem", s |-> s, p |-> p]
          \/ \E p \in SepSets : case = [f |-> "kstrtok", s |-> s, p |-> p]
          \/ \E p \in Chars \cup {NUL} : case = [f |-> "ksplit", s |-> s, p |-> <<p>>]

Next == ~done /\ done' = TRUE /\ UNCHANGED case

Spec == Init /\ [][Next]_vars

-----------------------------------------------------------------------------
(* Properties.                                                             *)

Str == CString(case.s)
N == Len(case.s)

\* kmemmem finds the first place of the pattern, exactly if there is one: no
\* shift skips a place, or goes back.
FindsFirst ==
    case.f = "kmemmem" =>
        LET m == Len(case.p)
            places == {j \in 0..N-m : \A i \in 1..m : case.s[i + j] = case.p[i]} IN
        kmemmem(Str, N, CString(case.p), m) = Min(places \cup {N + 1}) \/
        (places = {} /\ kmemmem(Str, N, CString(case.p), m) = -1)

\* kstrtok's tokens are all that is between separators, empty ones too: with the
\* separators between them they are the string.
TokensCover ==
    case.f = "kstrtok" =>
        LET t == kstrtok(Str, N, case.p) IN
        /\ Len(t) = Cardinality({i \in 1..N : case.s[i] \in case.p}) + 1
        /\ \A k \in DOMAIN t :
              /\ t[k][1] = IF k = 1 THEN 0 ELSE t[k - 1][2] + 1
              /\ \A i \in t[k][1]..t[k][2]-1 : Str[i] \notin case.p
              /\ IF k = Len(t) THEN t[k][2] = N ELSE Str[t[k][2]] \in case.p

\* ksplit_core's fields are the longest runs of other characters, each ended by
\* a NUL in the string, which is otherwise as it was.
FieldsAreRuns ==
    case.f = "ksplit" =>
        LET q == ksplit_core(Str, N, case.p[1])
            cut == IF case.p[1] = NUL THEN Spaces ELSE {case.p[1]}
            starts == {i \in 0..N-1 : Str[i] \notin cut /\ (i = 0 \/ Str[i - 1] \in cut)}
            ends == {i \in 1..N : (i = N \/ Str[i] \in cut) /\ Str[i - 1] \notin cut} IN
        /\ q.offsets = SetToSortSeq(starts, <)
        /\ q.s = [i \in 0..N |-> IF i \in ends THEN NUL ELSE Str[i]]
=============================================================================
