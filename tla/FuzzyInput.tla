---------------------------- MODULE FuzzyInput -----------------------------
(***************************************************************************)
(* read_stdin of the fuzzy search server: how the bytes that reach it from *)
(* the editor become messages.  A message is a header with the length of   *)
(* its body, an empty line and the body; a read delivers any part of what  *)
(* has been written.                                                       *)
(*                                                                         *)
(* The header's text is shortened to two bytes and its number to one; what *)
(* a body says is left out, its bytes are told apart.                      *)
(***************************************************************************)
EXTENDS Integers, SequencesExt

CONSTANTS
    MaxMsgs,    \* bound: messages of the editor
    Lengths,    \* the lengths of their bodies
    MaxParts,   \* bound: reads that a message takes
    Joined      \* a read may hold bytes of more than one message

InputAssumption ==
    MaxMsgs \in Nat /\ MaxParts \in Nat /\ Lengths \subseteq Nat \ {0} /\ Joined \in BOOLEAN

Byte(k, m, n) == [kind |-> k, msg |-> m, n |-> n]

NUL == Byte("NUL", 0, 0)

VARIABLES
    bodies,     \* the lengths of the messages written so far
    pipe,       \* bytes not yet read
    line, json_line, content_len, start,    \* the static variables
    handled,    \* what handle_json_msg was called with
    parts,      \* reads since the last that ended with a message
    unwhole     \* messages of which a read held a part, or which it held with others

parser == <<line, json_line, content_len, start>>
vars == <<bodies, pipe, parser, handled, parts, unwhole>>

Init ==
    /\ bodies = <<>> /\ pipe = <<>>
    /\ line = <<>> /\ json_line = <<>> /\ content_len = 0 /\ start = FALSE
    /\ handled = <<>> /\ parts = 0 /\ unwhole = {}

-----------------------------------------------------------------------------
\* Byte i of message m, whose body has n bytes.
ByteOf(m, n, i) ==
    CASE i = 1 -> Byte("Content-", m, 0)
      [] i = 2 -> Byte("Length: ", m, 0)
      [] i = 3 -> Byte("digit", m, n)
      [] i \in {4, 6} -> Byte("CR", m, 0)
      [] i \in {5, 7} -> Byte("LF", m, 0)
      [] OTHER -> Byte("body", m, i - 7)

Message(m, n) == [i \in 1..(7 + n) |-> ByteOf(m, n, i)]

Body(m) == [i \in 1..bodies[m] |-> Byte("body", m, i)]

\* Unless reads join messages it is all the same when the next is written.
Write ==
    /\ Len(bodies) < MaxMsgs /\ (Joined \/ pipe = <<>>)
    /\ \E n \in Lengths :
          /\ bodies' = Append(bodies, n)
          /\ pipe' = pipe \o Message(Len(bodies'), n)
    /\ UNCHANGED <<parser, handled, parts, unwhole>>

-----------------------------------------------------------------------------
\* A C string ends at its first NUL.
Text(s) ==
    LET ends == {i \in DOMAIN s : s[i] = NUL} IN
    IF ends = {} THEN s ELSE SubSeq(s, 1, (CHOOSE i \in ends : \A j \in ends : i <= j) - 1)

\* strstr for the header; where it ends in the text.
HeaderEnds(s) ==
    {i \in 2..Len(s) : s[i - 1].kind = "Content-" /\ s[i].kind = "Length: "}

\* atoi of what follows the header.
atoi(s, i) == IF i < Len(s) /\ s[i + 1].kind = "digit" THEN s[i + 1].n ELSE 0

\* Mutant: a line that is neither is not cleared.
EndOfLineKeeps(p) ==
    LET s == Text(p.line)
        at == HeaderEnds(s) IN
    [p EXCEPT
        !.line = IF at # {} \/ Len(s) = 2 THEN <<>> ELSE @,
        !.content_len = IF at = {} THEN @ ELSE atoi(s, CHOOSE i \in at : \A j \in at : i <= j),
        !.start = @ \/ (at = {} /\ Len(s) = 2)]

\* The end of a line: it is the header, or the empty line, or neither.
EndOfLine(p) ==
    LET s == Text(p.line)
        at == HeaderEnds(s) IN
    [p EXCEPT
        !.line = <<>>,
        !.content_len = IF at = {} THEN @ ELSE atoi(s, CHOOSE i \in at : \A j \in at : i <= j),
        !.start = @ \/ (at = {} /\ Len(s) = 2)]

\* json_counter is compared before it counts the byte just stored.
Complete(p) == Len(p.json_line) - 1 = p.content_len

\* handle_json_msg is called, and the rest of the buffer is left.
handle(p) ==
    [p EXCEPT !.out = Append(@, Text(p.json_line)), !.line = <<>>, !.json_line = <<>>,
              !.content_len = 0, !.start = FALSE, !.stop = TRUE]

\* One round of the loop of read_stdin, for byte i of buf.
Feed(p, buf, i) ==
    LET q == [p EXCEPT !.line = Append(@, buf[i])]
        r == [q EXCEPT !.json_line = Append(@, buf[i])] IN
    IF p.stop THEN p
    ELSE IF buf[i].kind = "LF" /\ i > 1 /\ buf[i - 1].kind = "CR" THEN EndOfLine(q)
    ELSE IF ~p.start THEN q
    ELSE IF Complete(r) THEN handle(r)
    ELSE r

\* The loop runs to nread, inclusive: the byte after those read is zero.
Buffer(bs) == Append(bs, NUL)

read_stdin(bs) ==
    LET buf == Buffer(bs) IN
    FoldLeft(LAMBDA p, i : Feed(p, buf, i),
             [line |-> line, json_line |-> json_line, content_len |-> content_len,
              start |-> start, out |-> <<>>, stop |-> FALSE],
             [i \in 1..Len(buf) |-> i])

-----------------------------------------------------------------------------
\* The messages that bs holds bytes of.
Of(bs) == {bs[i].msg : i \in DOMAIN bs}

Whole(bs) == \E m \in Of(bs) : bs = Message(m, bodies[m])

Read ==
    \E n \in 1..Len(pipe) :
       LET bs == SubSeq(pipe, 1, n)
           p == read_stdin(bs) IN
       /\ Joined \/ \A m, k \in Of(bs) : m = k
       /\ parts' = IF n = Len(pipe) \/ pipe[n].msg # pipe[n + 1].msg THEN 0 ELSE parts + 1
       /\ parts' < MaxParts
       /\ pipe' = SubSeq(pipe, n + 1, Len(pipe))
       /\ line' = p.line /\ json_line' = p.json_line
       /\ content_len' = p.content_len /\ start' = p.start
       /\ handled' = handled \o p.out
       /\ unwhole' = unwhole \cup IF Whole(bs) THEN {} ELSE Of(bs)
       /\ UNCHANGED bodies

Next == Write \/ Read

Spec == Init /\ [][Next]_vars

-----------------------------------------------------------------------------
(* Properties.                                                             *)

\* The variables of the reader and how much of the input is enumerated.
TypeOK ==
    /\ Len(bodies) <= MaxMsgs
    /\ content_len \in Lengths \cup {0} /\ start \in BOOLEAN
    /\ Len(handled) <= 2 * MaxMsgs

\* Message m has been read to its last byte.
HasRead(m) == m \in DOMAIN bodies /\ \A i \in DOMAIN pipe : pipe[i].msg > m

\* As long as each read delivers one message, each is handled, whole and in
\* order.
WholeArrive ==
    unwhole = {} => handled = [m \in {k \in DOMAIN bodies : HasRead(k)} |-> Body(m)]

\* The length is never passed, so that the comparison for equality comes true.
NeverPast == Len(json_line) <= content_len

\* After a message that came in parts the length and the line before may be
\* stale: as many messages as the longest length takes to be filled, each with
\* its header and a NUL, may be lost, and no more.
Swallowed ==
    LET longest == CHOOSE n \in Lengths : \A k \in Lengths : k <= n
        shortest == CHOOSE n \in Lengths : \A k \in Lengths : n <= k IN
    1 + ((longest + 5) \div (shortest + 6))

\* A message that comes whole, after as many that do, is handled.
Recovers ==
    \A m \in (Swallowed + 1)..MaxMsgs :
        HasRead(m) /\ (m - Swallowed)..m \cap unwhole = {}
            => \E i \in DOMAIN handled : handled[i] = Body(m)

\* A read that begins with a whole message after complete ones handles that one,
\* with at most the first byte of the next, and nothing else it holds.
FreshTakesOne ==
    LET m == pipe[1].msg IN
    /\ line = <<>> /\ json_line = <<>> /\ content_len = 0 /\ ~start
    /\ pipe' # pipe /\ pipe # <<>> /\ pipe[1].kind = "Content-"
    /\ Len(pipe) - Len(pipe') >= Len(Message(m, bodies[m]))
    => \E rest \in {<<>>, <<Byte("Content-", m + 1, 0)>>} :
           handled' = Append(handled, Body(m) \o rest)
=============================================================================
