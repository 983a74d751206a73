-------------------------------- MODULE KSeq --------------------------------
(***************************************************************************)
(* klib's FASTA and FASTQ reader on a stream that is read into a buffer,   *)
(* with reads of any length and a read that fails.                         *)
(***************************************************************************)
EXTENDS Integers, Sequences, SequencesExt, FiniteSetsExt

CONSTANT Files      \* texts, each with the records it was written from

Eof == "EOF"        \* -1 of ks_getc and ks_getuntil
Err == "ERROR"      \* -3
Nothing == "0"

VARIABLES
    file,       \* the file and whether a read at its end fails
    ks,         \* kstream_t: the rest of the buffer, the reads to come, is_eof, ks_err
    last_char,  \* the first character of a header was read by the call before
    got         \* what the calls of kseq_read returned

vars == <<file, ks, last_char, got>>

\* All ways to read a text in up to three pieces.
Cuts(text) ==
    {[k \in 1..Cardinality(ends) |->
        LET e == SetToSortSeq(ends, <) IN SubSeq(text, IF k = 1 THEN 1 ELSE e[k - 1] + 1, e[k])] :
     ends \in {{i, j, Len(text)} : i, j \in 1..Len(text)}}

Stream(chunks) == [buf |-> <<>>, chunks |-> chunks, is_eof |-> FALSE, err |-> FALSE]

Init ==
    /\ \E f \in Files, fails \in BOOLEAN : file = [text |-> f.text, records |-> f.records, fails |-> fails]
    /\ \E chunks \in Cuts(file.text) : ks = Stream(chunks)
    /\ last_char = FALSE /\ got = <<>>

-----------------------------------------------------------------------------
(* The stream.                                                             *)

\* The buffer is empty: the next read, which gives bytes, or none, or fails.
Read(k) ==
    IF k.chunks # <<>> THEN [k EXCEPT !.buf = Head(k.chunks), !.chunks = Tail(k.chunks)]
    ELSE [k EXCEPT !.is_eof = TRUE, !.err = file.fails]

Filled(k) == IF k.buf = <<>> /\ ~k.is_eof /\ ~k.err THEN Read(k) ELSE k

ks_getc(k) ==
    LET f == Filled(k)
    IN IF f.err THEN [c |-> Err, k |-> f] ELSE IF f.buf = <<>> THEN [c |-> Eof, k |-> f]
       ELSE [c |-> Head(f.buf), k |-> [f EXCEPT !.buf = Tail(f.buf)]]

isspace(c) == c \in {" ", "\n", "\r", "\t"}

Separates(delimiter, c) ==
    CASE delimiter = "SPACE" -> isspace(c)
      [] delimiter = "TAB" -> isspace(c) /\ c # " "
      [] delimiter = "LINE" -> c = "\n"
      [] OTHER -> c = delimiter

\* The "\r" of "\r\n" is cut off.
Chomped(str, delimiter) ==
    IF delimiter = "LINE" /\ Len(str) > 1 /\ Last(str) = "\r" THEN Front(str) ELSE str

\* Mutant: the string of the buffer before is lost.
Joined_lost(str, s, first) == IF first THEN str \o s ELSE s

Joined(str, s, first) == str \o s

\* ks_getuntil2 in the buffer f: up to the delimiter, which is read too, or the
\* end of the file.
RECURSIVE Until(_, _, _, _)
Until(f, delimiter, str, gotany) ==
    LET seps == {i \in DOMAIN f.buf : Separates(delimiter, f.buf[i])}
        Upto(n) == Joined(str, SubSeq(f.buf, 1, n), ~gotany)
        Found(i) == [ret |-> "OK", k |-> [f EXCEPT !.buf = SubSeq(@, i + 1, Len(@))],
                     str |-> Chomped(Upto(i - 1), delimiter), dret |-> f.buf[i]]
    IN IF f.err THEN [ret |-> Err, k |-> f, str |-> str, dret |-> Nothing]
       ELSE IF f.buf = <<>>
         THEN [ret |-> IF gotany THEN "OK" ELSE Eof, k |-> f, dret |-> Nothing,
               str |-> IF gotany THEN Chomped(str, delimiter) ELSE str]
       ELSE IF seps # {} THEN Found(Min(seps))
       ELSE Until(Filled([f EXCEPT !.buf = <<>>]), delimiter, Upto(Len(f.buf)), TRUE)

ks_getuntil2(k, delimiter, str) == Until(Filled(k), delimiter, str, FALSE)

ks_getuntil(k, delimiter) == ks_getuntil2(k, delimiter, <<>>)

-----------------------------------------------------------------------------
(* kseq_read.                                                              *)

\* Characters are skipped up to one of stops, or to the end.
RECURSIVE Skip(_, _)
Skip(r, stops) == IF r.c \in stops \cup {Eof, Err} THEN r ELSE Skip(ks_getc(r.k), stops)

\* The lines of a sequence, up to the next header or a "+"; empty lines are none.
RECURSIVE Lines(_, _)
Lines(r, seq) ==
    LET Behind(line) == Lines(ks_getc(line.k), line.str)
    IN IF r.c \in {">", "@", "+", Eof, Err} THEN [c |-> r.c, k |-> r.k, seq |-> seq]
       ELSE IF r.c = "\n" THEN Lines(ks_getc(r.k), seq)
       ELSE Behind(ks_getuntil2(r.k, "LINE", Append(seq, r.c)))

\* The lines of the quality, until they are as long as the sequence: that is why
\* they may begin with "@".
RECURSIVE Quality(_, _)
Quality(r, n) ==
    IF r.ret = "OK" /\ Len(r.str) < n THEN Quality(ks_getuntil2(r.k, "LINE", r.str), n) ELSE r

Record(name, comment, seq, qual) == [name |-> name, comment |-> comment, seq |-> seq, qual |-> qual]

NoRecord == Record(<<>>, <<>>, <<>>, <<>>)

\* What a call returns, with the stream and last_char after it.
Return(ret, record, k, last) == [ret |-> ret, record |-> record, k |-> k, last |-> last]

\* The call when it has read the quality of a record, the line of the "+", ...
WithQuality(r, qual) ==
    IF Len(qual.str) # Len(r.seq) THEN Return("TRUNCATED", NoRecord, qual.k, FALSE)
    ELSE Return("OK", [r EXCEPT !.qual = qual.str], qual.k, FALSE)

WithPlus(r, plus) ==
    IF plus.c = Eof THEN Return("TRUNCATED", NoRecord, plus.k, TRUE)
    ELSE WithQuality(r, Quality(ks_getuntil2(plus.k, "LINE", <<>>), Len(r.seq)))

WithSequence(r, seq) ==
    IF seq.c # "+" THEN Return("OK", [r EXCEPT !.seq = seq.seq], seq.k, TRUE)
    ELSE WithPlus([r EXCEPT !.seq = seq.seq], Skip(ks_getc(seq.k), {"\n"}))

WithComment(name, comment) ==
    WithSequence(Record(name, comment.str, <<>>, <<>>), Lines(ks_getc(comment.k), <<>>))

WithName(name) ==
    IF name.ret # "OK" THEN Return(name.ret, NoRecord, name.k, TRUE)
    ELSE IF name.dret = "\n" THEN WithComment(name.str, [k |-> name.k, str |-> <<>>])
    ELSE WithComment(name.str, ks_getuntil(name.k, "LINE"))

\* ... the first character of its header.
WithHeader(header) ==
    IF header.c \in {Eof, Err} THEN Return(header.c, NoRecord, header.k, FALSE)
    ELSE WithName(ks_getuntil(header.k, "SPACE"))

kseq_read(k, last) ==
    IF last THEN WithName(ks_getuntil(k, "SPACE")) ELSE WithHeader(Skip(ks_getc(k), {">", "@"}))

\* The caller keeps what it is given.
Take(r) ==
    /\ got' = Append(got, [ret |-> r.ret, record |-> r.record, failed |-> r.k.err])
    /\ ks' = r.k /\ last_char' = r.last

\* The caller reads while the return value is not negative.
Next ==
    /\ \A i \in DOMAIN got : got[i].ret = "OK"
    /\ Take(kseq_read(ks, last_char))
    /\ UNCHANGED file

Spec == Init /\ [][Next]_vars

-----------------------------------------------------------------------------
(* Properties.                                                             *)

Rest(k) == k.buf \o FlattenSeq(k.chunks)

SameCall(r, q) ==
    r.ret = q.ret /\ r.record = q.record /\ r.last = q.last /\ Rest(r.k) = Rest(q.k)

\* Where the reads cut the file does not matter: the next call returns what it
\* would if the rest of the file came in one read, and leaves the same.
CutsDoNotMatter ==
    SameCall(kseq_read([ks EXCEPT !.buf = Rest(ks), !.chunks = <<>>], last_char),
             kseq_read(ks, last_char))

\* A file of records is read as these records, whatever its line ends and however
\* the sequences and qualities are cut into lines; then the end is told.
ReadsWritten ==
    file.records # <<>> /\ ~file.fails =>
        \A i \in DOMAIN got :
            IF i <= Len(file.records) THEN got[i].ret = "OK" /\ got[i].record = file.records[i]
            ELSE got[i].ret = Eof
=============================================================================
