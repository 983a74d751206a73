------------------------------ MODULE KString ------------------------------
(***************************************************************************)
(* klib's kstring_t, the string in which the server builds its answers:    *)
(* a buffer that grows to powers of two, written by the kput* functions,   *)
(* kvsprintf and kgetline, with the length and the size kept beside it.    *)
(* mem is what realloc has really allocated; m is what kstring believes.   *)
(* When realloc fails, kputsn and the like return EOF; kvsprintf and       *)
(* kgetline do not look, and go on with the m that has no memory.          *)
(***************************************************************************)
EXTENDS Integers, Sequences, SequencesExt, FiniteSetsExt

CONSTANTS
    Texts,      \* what is put into strings: sequences of characters
    Numbers,    \* what is put as a number
    Lines,      \* what kgetline's fgets has to read
    MaxLen,     \* bound: length of a string to which more is put
    Room,       \* kgetline makes the buffer larger when less than this is left
    Width,      \* bits of an int
    Fails       \* whether realloc may fail

KStringAssumption ==
    /\ MaxLen \in Nat /\ Room \in Nat \ {0, 1} /\ Width \in Nat \ {0} /\ Fails \in BOOLEAN
    /\ Numbers \subseteq -(2^(Width - 1))..(2^Width - 1)

NUL == "\\0"
Garbage == "garbage"
EOF == -1

VARIABLES
    l, m,       \* s->l and s->m
    mem,        \* the allocated buffer; <<>> for NULL
    text,       \* what the string should be
    closed,     \* the last function is one that ends the string with a NUL
    beyond,     \* something was written past the end of the buffer
    failed      \* a function has returned EOF

vars == <<l, m, mem, text, closed, beyond, failed>>

Init ==
    /\ l = 0 /\ m = 0 /\ mem = <<>> /\ text = <<>> /\ closed = FALSE
    /\ beyond = FALSE /\ failed = FALSE

-----------------------------------------------------------------------------
(* The buffer.                                                             *)

\* kroundup32: the least power of two that is x or more; 0 stays.
kroundup32(x) == IF x = 0 THEN 0 ELSE Min({2^k : k \in 0..8} \ 0..(x - 1))

realloc(size) == [i \in 1..size |-> IF i <= Len(mem) THEN mem[i] ELSE Garbage]

\* The buffer b with the characters of p from place at (0-based), if they fit.
Written(b, at, p) == [i \in DOMAIN b |-> IF i \in at+1..at+Len(p) THEN p[i - at] ELSE b[i]]

\* Writing p at place at into what realloc has given.
Write(b, at, p) ==
    /\ mem' = Written(b, at, p)
    /\ beyond' = (beyond \/ (Len(p) > 0 /\ at + Len(p) > Len(b)))

\* Room for size bytes: m is set before it is known whether there is memory.
\* Then is what is then done with the buffer.
Grown(grow, size, Then(_)) ==
    \/ ~grow /\ Then(mem) /\ UNCHANGED <<m, failed>>
    \/ /\ grow /\ m' = kroundup32(size)
       /\ Then(realloc(m')) /\ UNCHANGED failed
    \/ /\ grow /\ m' = kroundup32(size) /\ Fails /\ failed' = TRUE
       /\ UNCHANGED <<l, mem, text, closed, beyond>>

\* More is put only into strings below the bound.
Ready == l < MaxLen

-----------------------------------------------------------------------------
(* The functions.                                                          *)

ks_resize(size) ==
    Grown(m < size, size, LAMBDA b : mem' = b /\ UNCHANGED <<l, text, closed, beyond>>)

\* Mutant: the test without the NUL.
Full_tight(n) == l + n > m

\* s->l + l + 1 >= s->m: there is always a byte to spare.
Full(n) == l + n + 1 >= m

\* What the string should be, with p put at its end.
Appended(p) == text \o p

Digit == <<"0", "1", "2", "3", "4", "5", "6", "7", "8", "9">>

\* A number as it should be spelled.
Spelled(c) ==
    LET x == IF c < 0 THEN -c ELSE c
        n == Min({k \in 1..4 : 10^k > x}) IN
    (IF c < 0 THEN <<"-">> ELSE <<>>)
        \o [k \in 1..n |-> Digit[((x \div 10^(n - k)) % 10) + 1]]

\* The characters p at the end of the string, and a NUL: that is kputsn, kputs,
\* kputc and the numbers, which should put the text q.
Put(p, q) ==
    /\ Ready
    /\ Grown(Full(Len(p)), l + Len(p) + 2, LAMBDA b :
          /\ Write(b, l, Append(p, NUL))
          /\ l' = l + Len(p) /\ text' = Appended(q) /\ closed' = TRUE)

kputsn(p) == Put(p, p)
kputc(c) == kputsn(<<c>>)

\* kputsn_ and kputc_ write no NUL and leave no byte for one.
kputsn_(p) ==
    /\ Ready
    /\ Grown(l + Len(p) > m, l + Len(p), LAMBDA b :
          /\ Write(b, l, p)
          /\ l' = l + Len(p) /\ text' = Appended(p) /\ closed' = (closed /\ p = <<>>))

kputc_(c) == kputsn_(<<c>>)

\* The digits of x, the last first, as the loops write them to buf.
Digits(x) ==
    LET f[y \in 0..x] == IF y = 0 THEN <<>> ELSE <<Digit[(y % 10) + 1]>> \o f[y \div 10] IN f[x]

\* kputw: the unsigned x is right for the least int too.
Decimal(c) ==
    LET x == (IF c < 0 THEN -c ELSE c) % 2^Width IN
    Reverse((IF x = 0 THEN <<"0">> ELSE Digits(x)) \o (IF c < 0 THEN <<"-">> ELSE <<>>))

kputw(c) == c < 2^(Width - 1) /\ Put(Decimal(c), Spelled(c))

\* The same for a long.
kputl(c) == kputw(c)

\* kputuw: 0 is a kputc.
kputuw(c) == c >= 0 /\ IF c = 0 THEN kputc("0") ELSE Put(Reverse(Digits(c)), Spelled(c))

\* What vsnprintf writes when it has size bytes: all that fits, and a NUL.
vsnprintf(b, at, p, size) ==
    IF size = 0 THEN b
    ELSE Written(b, at, Append(SubSeq(p, 1, Min({Len(p), size - 1})), NUL))

\* l + 1 > s->m - s->l.
Fits(n) == n + 1 <= m - l

\* kvsprintf, ksprintf: formatted into what is left, and again when that was
\* too little.  The first try fills what is left, whether it is there or not; a
\* failing realloc is assigned unseen: the old buffer is lost, and the second try
\* writes through NULL.
ksprintf(p) ==
    LET size == kroundup32(l + Len(p) + 2) IN
    /\ Ready
    /\ \/ /\ Fits(Len(p)) /\ mem' = vsnprintf(mem, l, p, m - l)
          /\ beyond' = (l + Len(p) + 1 > Len(mem)) /\ UNCHANGED m
       \/ ~Fits(Len(p)) /\ m > Len(mem) /\ beyond' = TRUE /\ UNCHANGED <<m, mem>>
       \/ /\ ~Fits(Len(p)) /\ m <= Len(mem)
          /\ m' = size /\ mem' = vsnprintf(realloc(size), l, p, size - l)
          /\ beyond' = (l + Len(p) + 1 > size)
       \/ /\ ~Fits(Len(p)) /\ m <= Len(mem) /\ Fails
          /\ m' = size /\ mem' = <<>> /\ beyond' = TRUE
    /\ l' = l + Len(p) /\ text' = Appended(p) /\ closed' = TRUE
    /\ UNCHANGED failed

\* ks_release gives the buffer away.
ks_release ==
    /\ l' = 0 /\ m' = 0 /\ mem' = <<>> /\ text' = <<>> /\ closed' = FALSE
    /\ UNCHANGED <<beyond, failed>>

-----------------------------------------------------------------------------
(* kgetline.                                                               *)

\* fgets reads at most n-1 characters, up to a newline.
Piece(s, n) ==
    LET ends == {i \in DOMAIN s : s[i] = "\n"} \cup {Len(s)} IN SubSeq(s, 1, Min(ends \cup {n - 1}))

\* The loop: g has the string read, the size m and the memory there is, and what
\* is left of the input.  ks_resize makes the buffer Room larger whenever less
\* than that is left; in the rounds bad realloc fails, which is ignored.  What
\* comes after a write past the memory is not told.
Got(input, bad) ==
    LET Size(g) == IF g.m - (l + Len(g.line)) < Room THEN kroundup32(g.m + Room) ELSE g.m
        Resized(g, k) ==
            [g EXCEPT !.m = Size(g),
                      !.have = IF Size(g) = g.m \/ k \in bad THEN @ ELSE Size(g)]
        f[k \in 0..(Len(input) + 1)] ==
            IF k = 0 THEN [line |-> <<>>, m |-> m, have |-> Len(mem), rest |-> input,
                           over |-> FALSE]
            ELSE LET g == f[k - 1]
                     r == Resized(g, k)
                     p == Piece(g.rest, r.m - l - Len(g.line))
                     end == l + Len(g.line) + Len(p) + 1 IN
                 IF g.over \/ (g.line # <<>> /\ Last(g.line) = "\n") THEN g
                 ELSE IF g.rest = <<>> THEN r
                 ELSE [r EXCEPT !.line = @ \o p, !.over = end > r.have,
                                !.rest = SubSeq(@, Len(p) + 1, Len(@))]
    IN f[Len(input) + 1]

\* The terminator is taken off.
Chopped(line) ==
    IF line = <<>> \/ Last(line) # "\n" THEN line
    ELSE LET f == Front(line) IN IF f # <<>> /\ Last(f) = "\r" THEN Front(f) ELSE f

\* What of the input is the line.
Line(input) ==
    LET end == Min({i \in DOMAIN input : input[i] = "\n"} \cup {Len(input) + 1})
        line == SubSeq(input, 1, end - 1) IN
    IF end <= Len(input) /\ line # <<>> /\ Last(line) = "\r" THEN Front(line) ELSE line

\* A line is appended; at the end of the input nothing is.
kgetline(input) ==
    /\ Ready /\ input # <<>>
    /\ \E bad \in IF Fails THEN SUBSET (1..(Len(input) + 1)) ELSE {{}} :
          LET g == Got(input, bad) IN
          /\ m' = g.m /\ mem' = Written(realloc(g.have), l, Append(Chopped(g.line), NUL))
          /\ beyond' = g.over
          /\ l' = l + Len(Chopped(g.line))
    /\ text' = Appended(Line(input)) /\ closed' = TRUE
    /\ UNCHANGED failed

-----------------------------------------------------------------------------
Next ==
    \/ \E p \in Texts : kputsn(p) \/ kputsn_(p) \/ ksprintf(p)
    \/ \E c \in {"a"} : kputc(c) \/ kputc_(c)
    \/ \E c \in Numbers : kputw(c) \/ kputl(c) \/ kputuw(c)
    \/ \E size \in 0..MaxLen : ks_resize(size)
    \/ \E input \in Lines : kgetline(input)
    \/ ks_release

\* A caller that looks at the results, and stops at the first EOF; nothing is said
\* of what follows a write past the end.
Goes == ~failed /\ ~beyond

Spec == Init /\ [][Goes /\ Next]_vars

-----------------------------------------------------------------------------
(* Properties.                                                             *)

\* Types; kstring believes in no less memory than there is, and in that exactly
\* while realloc does not fail.
TypeOK ==
    /\ l \in Nat /\ l <= m
    /\ ~beyond => l <= Len(mem) /\ Len(mem) <= m
    /\ ~Fails => m = Len(mem)

\* Nothing is written past the end of the buffer, if the callers stop at the first
\* EOF, unless m has outgrown it: after a realloc that failed in kvsprintf
\* (kstring.c:18) or kgetline (kstring.c:114), which do not say so.
InBounds == beyond => m > Len(mem) /\ ~failed

\* Without such a failure nothing is written past the end at all.
NeverBeyond == ~beyond

\* The string is what was put into it, one after the other.
Content == ~beyond => SubSeq(mem, 1, l) = text

\* A function that ends the string with a NUL leaves one at its end; kputc_ and
\* kputsn_ do not and may leave no byte for one.
Terminated == closed /\ ~beyond => l < Len(mem) /\ mem[l + 1] = NUL
=============================================================================
