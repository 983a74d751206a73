------------------------------- MODULE KetOpt -------------------------------
(***************************************************************************)
(* klib's command-line parser: one option per call, short options in       *)
(* clusters, long options by a prefix of their name, and options moved in  *)
(* front of the other arguments while they are parsed.                     *)
(***************************************************************************)
EXTENDS Integers, Sequences, SequencesExt

CONSTANTS
    Words,      \* the words of command lines
    MaxWords,   \* bound: words of a command line
    Known,      \* the short options in ostr
    TakesArg    \* those followed by ":"

VARIABLES
    argv,       \* the words behind argv[0]
    permute,    \* the caller's choice
    s,          \* ketopt_t
    said,       \* what the calls returned: option and argument, until -1
    given       \* argv as it was before the first call

vars == <<argv, permute, s, said, given>>

NoArg == <<>>

Init ==
    /\ argv \in SeqOf(Words, MaxWords) /\ permute \in BOOLEAN /\ given = argv
    /\ s = [i |-> 1, pos |-> 0, n_args |-> 0, ind |-> 1, done |-> FALSE] /\ said = <<>>

IsOption(w) == w.kind # "word"

\* ketopt_permute: argv[j] moves over n words to the left.
Permuted(a, j, n) ==
    [k \in DOMAIN a |-> IF k = j - n THEN a[j] ELSE IF k \in j - n + 1..j THEN a[k - 1] ELSE a[k]]

\* The words from i0 to before i move over n_args words, one after the other.
Moved(a, i0, i, n) ==
    LET f[j \in i0 - 1..i - 1] == IF j < i0 THEN a ELSE Permuted(f[j - 1], j, n)
    IN IF n > 0 THEN f[i - 1] ELSE a

\* The words that are no options, from i on.
Skipped(a, i) ==
    CHOOSE n \in 0..Len(a) + 1 - i :
        /\ \A k \in i..i + n - 1 : ~IsOption(a[k])
        /\ i + n > Len(a) \/ IsOption(a[i + n])

\* More than one name fits: ketopt returns at once.
Ambiguous(w) == w.exact > 1 \/ (w.exact = 0 /\ w.partial > 1)

\* A long option that needs an argument and has no "=" takes the next word.
LongTakes(w) == w.exact + w.partial > 0 /\ w.has_arg = 1 /\ w.value = NoArg

\* A long option: how many words it takes, and what is returned.
ParseLong(a, i) ==
    LET w == a[i] IN
    CASE w.exact + w.partial = 0 -> [takes |-> 1, pos |-> -1, opt |-> "?", arg |-> NoArg]
      [] LongTakes(w) /\ i < Len(a) -> [takes |-> 2, pos |-> -1, opt |-> w.name, arg |-> <<a[i + 1]>>]
      [] LongTakes(w) /\ i = Len(a) -> [takes |-> 1, pos |-> -1, opt |-> ":", arg |-> NoArg]
      [] OTHER -> [takes |-> 1, pos |-> -1, opt |-> w.name, arg |-> w.value]

\* Mutant: an argument in the same word does not end the cluster.
Ends_goes(pos) == pos

\* An option with an argument is the last one of its word.
Ends(pos) == -1

\* The short option at pos of its word.
ParseShort(a, i, pos) ==
    LET o == a[i].opts[pos]
        last == pos = Len(a[i].opts)
    IN CASE o \notin Known -> [takes |-> 1, pos |-> pos + 1, opt |-> "?", arg |-> NoArg]
         [] o \in TakesArg /\ last /\ i < Len(a) ->
              [takes |-> 2, pos |-> -1, opt |-> o, arg |-> <<a[i + 1]>>]
         [] o \in TakesArg /\ last /\ i = Len(a) -> [takes |-> 1, pos |-> -1, opt |-> ":", arg |-> NoArg]
         [] o \in TakesArg /\ ~last ->
              [takes |-> 1, pos |-> Ends(pos + 1), opt |-> o,
               arg |-> SubSeq(a[i].opts, pos + 1, Len(a[i].opts))]
         [] OTHER -> [takes |-> 1, pos |-> pos + 1, opt |-> o, arg |-> NoArg]

\* One call of ketopt.  The "?" of an ambiguous option, which every further call
\* returns too, is recorded once.
ketopt ==
    LET n == s.n_args + (IF permute THEN Skipped(argv, s.i) ELSE 0)
        i == s.i + n - s.n_args
        atEnd == i > Len(argv) \/ ~IsOption(argv[i])
        r == IF argv[i].kind = "long" THEN ParseLong(argv, i)
             ELSE ParseShort(argv, i, IF s.pos = 0 THEN 1 ELSE s.pos)
        next == i + r.takes
        whole == r.pos < 0 \/ r.pos > Len(argv[i].opts)
    IN /\ ~s.done
       /\ UNCHANGED <<permute, given>>
       /\ IF atEnd
            THEN /\ s' = [s EXCEPT !.i = i, !.n_args = n, !.ind = i - n, !.done = TRUE]
                 /\ UNCHANGED <<argv, said>>
          ELSE IF argv[i].kind = "dashes"
            THEN /\ argv' = Moved(argv, i, i + 1, n)
                 /\ s' = [s EXCEPT !.i = i + 1, !.n_args = n, !.ind = i + 1 - n, !.done = TRUE]
                 /\ UNCHANGED said
          ELSE IF argv[i].kind = "long" /\ Ambiguous(argv[i])
            THEN /\ s' = [s EXCEPT !.i = i, !.n_args = n, !.pos = -1]
                 /\ said' = IF s.pos = -1 THEN said ELSE Append(said, [opt |-> "?", arg |-> NoArg])
                 /\ UNCHANGED argv
          ELSE /\ said' = Append(said, [opt |-> r.opt, arg |-> r.arg])
               /\ IF whole
                    THEN /\ argv' = Moved(argv, i, next, n)
                         /\ s' = [s EXCEPT !.i = next, !.n_args = n, !.pos = 0, !.ind = next - n]
                  ELSE /\ s' = [s EXCEPT !.i = i, !.n_args = n, !.pos = r.pos, !.ind = i - n]
                       /\ UNCHANGED argv

Next == ketopt

Spec == Init /\ [][Next]_vars /\ WF_vars(Next)

-----------------------------------------------------------------------------
(* Properties.                                                             *)

\* The reference: from word i on, what the options are and which words stay.
RECURSIVE Meant(_, _)
Meant(a, i) ==
    LET cluster[p \in 1..Len(a[i].opts) + 1] ==
            IF p > Len(a[i].opts) THEN [takes |-> 1, said |-> <<>>]
            ELSE LET r == ParseShort(a, i, p)
                     more == cluster[IF a[i].opts[p] \in TakesArg THEN Len(a[i].opts) + 1 ELSE p + 1]
                 IN [takes |-> IF r.takes > more.takes THEN r.takes ELSE more.takes,
                     said |-> <<[opt |-> r.opt, arg |-> r.arg]>> \o more.said]
        one == IF a[i].kind = "short" THEN cluster[1]
               ELSE LET r == ParseLong(a, i)
                    IN [takes |-> r.takes, said |-> <<[opt |-> r.opt, arg |-> r.arg]>>]
        more == Meant(a, i + one.takes)
    IN IF i > Len(a) THEN [said |-> <<>>, rest |-> <<>>]
       ELSE IF a[i].kind = "dashes" THEN [said |-> <<>>, rest |-> SubSeq(a, i + 1, Len(a))]
       ELSE IF a[i].kind = "word"
         THEN IF permute THEN LET m == Meant(a, i + 1) IN [m EXCEPT !.rest = <<a[i]>> \o @]
              ELSE [said |-> <<>>, rest |-> SubSeq(a, i, Len(a))]
       ELSE [said |-> one.said \o more.said, rest |-> more.rest]

\* When -1 is returned the calls named every option with its own argument, and
\* the other words are behind ind in their order: words that are moved while a
\* cluster or an argument is read never change what is read later.
ParsesAll ==
    s.done => LET m == Meant(given, 1)
              IN said = m.said /\ SubSeq(argv, s.ind, Len(argv)) = m.rest

\* No word is lost or doubled, whatever was moved so far.
OnlyMoves ==
    \A w \in {given[k] : k \in DOMAIN given} :
        Len(SelectSeq(argv, LAMBDA x : x = w)) = Len(SelectSeq(given, LAMBDA x : x = w))
=============================================================================
