------------------------------ MODULE Framing -------------------------------
(***************************************************************************)
(* consume_bytes: how the bytes of stdin, cut into chunks by the pipe and  *)
(* by read(), become payloads for msgpack_handler_recv.  A frame is a      *)
(* big-endian length of four bytes and that many bytes.                    *)
(*                                                                         *)
(* One action is one way through one of the two if-blocks of the loop.     *)
(* The payload block of the iteration that completed a length, when it has *)
(* no byte left to copy, changes nothing; otherwise it is what the next    *)
(* iteration would do.  Bytes of a buffer past what was received are never *)
(* read, so a buffer is the sequence of what was received.                 *)
(***************************************************************************)
EXTENDS Integers, Sequences

CONSTANTS
    Base,               \* values of a byte, 256 in the build
    MAX_MESSAGE_SIZE,   \* capacity of g_payload_buf
    ReadSize,           \* capacity of g_read_buffer
    MaxBytes            \* bound: bytes ever read

LENGTH_SIZE == 4

ASSUME SizesAssumption == /\ Base \in Nat \ {0, 1}
                          /\ MAX_MESSAGE_SIZE \in Nat \ {0}
                          /\ ReadSize \in Nat \ {0}
                          /\ MaxBytes \in Nat

Byte == 0..(Base - 1)

VARIABLES
    state,          \* g_state
    lengthBuf,      \* g_length_buf, up to g_length_received
    payloadLength,  \* g_payload_length
    payloadBuf,     \* g_payload_buf, up to g_payload_received
    chunk,          \* what consume_bytes has not looked at: data from offset
    closed,         \* uv_close was called
    received,       \* history: every byte libuv has read
    delivered       \* history: payloads given to msgpack_handler_recv

parser == <<state, lengthBuf, payloadLength, payloadBuf>>
vars == <<parser, chunk, closed, received, delivered>>

\* g_state, the two buffers and their lengths; once closed a stream stays so
\* (uv_close).
TypeOK ==
    /\ state \in {"READ_LENGTH", "READ_PAYLOAD"}
    /\ lengthBuf \in Seq(Byte)
    /\ payloadLength \in Nat
    /\ payloadBuf \in Seq(Byte)
    /\ chunk \in Seq(Byte)
    /\ closed \in {"no", "eof", "error"}
    /\ received \in Seq(Byte)
    /\ delivered \in Seq(Seq(Byte))

Init ==
    /\ state = "READ_LENGTH" /\ lengthBuf = <<>>
    /\ payloadLength = 0 /\ payloadBuf = <<>>
    /\ chunk = <<>> /\ closed = "no" /\ received = <<>> /\ delivered = <<>>

\* ntohl of the four bytes.
Word(b) == ((b[1] * Base + b[2]) * Base + b[3]) * Base + b[4]

FirstBytes(s, n) == SubSeq(s, 1, n)
AfterBytes(s, n) == SubSeq(s, n + 1, Len(s))

-----------------------------------------------------------------------------
\* read_stdin with at least one byte.
ReadChunk ==
    /\ closed = "no" /\ chunk = <<>>
    /\ \E n \in 1..ReadSize :
          /\ Len(received) + n <= MaxBytes
          /\ \E data \in [1..n -> Byte] :
                chunk' = data /\ received' = received \o data
    /\ UNCHANGED <<parser, closed, delivered>>

\* read_stdin with nread < 0: what was received of a frame is abandoned.
Eof ==
    /\ closed = "no" /\ chunk = <<>>
    /\ closed' = "eof"
    /\ UNCHANGED <<parser, chunk, received, delivered>>

LengthNeed == LENGTH_SIZE - Len(lengthBuf)

\* The chunk ends inside a length.
LengthPart ==
    /\ state = "READ_LENGTH" /\ chunk # <<>> /\ Len(chunk) < LengthNeed
    /\ lengthBuf' = lengthBuf \o chunk
    /\ chunk' = <<>>
    /\ UNCHANGED <<state, payloadLength, payloadBuf, closed, received, delivered>>

\* Mutant: a message that would overflow the buffer by one is let through.
GoodLengthOffByOne(n) == n # 0 /\ n <= MAX_MESSAGE_SIZE + 1

GoodLength(n) == n # 0 /\ n <= MAX_MESSAGE_SIZE

\* A length is complete and good.
LengthWhole ==
    /\ state = "READ_LENGTH" /\ chunk # <<>> /\ Len(chunk) >= LengthNeed
    /\ lengthBuf' = lengthBuf \o FirstBytes(chunk, LengthNeed)
    /\ GoodLength(Word(lengthBuf'))
    /\ payloadLength' = Word(lengthBuf')
    /\ payloadBuf' = <<>>
    /\ state' = "READ_PAYLOAD"
    /\ chunk' = AfterBytes(chunk, LengthNeed)
    /\ UNCHANGED <<closed, received, delivered>>

\* Mutant: the stream is closed and the loop goes on.
LengthBadGoesOn ==
    /\ state = "READ_LENGTH" /\ chunk # <<>> /\ Len(chunk) >= LengthNeed
    /\ ~GoodLength(Word(lengthBuf \o FirstBytes(chunk, LengthNeed)))
    /\ lengthBuf' = <<>> /\ closed' = "error"
    /\ chunk' = AfterBytes(chunk, LengthNeed)
    /\ UNCHANGED <<state, payloadLength, payloadBuf, received, delivered>>

\* A length is complete and bad: protocol_error, and the rest of the chunk is
\* not looked at.
LengthBad ==
    /\ state = "READ_LENGTH" /\ chunk # <<>> /\ Len(chunk) >= LengthNeed
    /\ lengthBuf' = lengthBuf \o FirstBytes(chunk, LengthNeed)
    /\ ~GoodLength(Word(lengthBuf'))
    /\ payloadLength' = Word(lengthBuf')
    /\ closed' = "error"
    /\ chunk' = <<>>
    /\ UNCHANGED <<state, payloadBuf, received, delivered>>

PayloadNeed == payloadLength - Len(payloadBuf)

\* The chunk ends inside a payload.
PayloadPart ==
    /\ state = "READ_PAYLOAD" /\ chunk # <<>> /\ Len(chunk) < PayloadNeed
    /\ payloadBuf' = payloadBuf \o chunk
    /\ chunk' = <<>>
    /\ UNCHANGED <<state, lengthBuf, payloadLength, closed, received, delivered>>

\* Mutant: reset_parser forgets g_length_received.
PayloadWholeNoReset ==
    /\ state = "READ_PAYLOAD" /\ chunk # <<>> /\ Len(chunk) >= PayloadNeed
    /\ delivered' = Append(delivered,
                           payloadBuf \o FirstBytes(chunk, PayloadNeed))
    /\ chunk' = AfterBytes(chunk, PayloadNeed)
    /\ state' = "READ_LENGTH"
    /\ payloadLength' = 0 /\ payloadBuf' = <<>>
    /\ UNCHANGED <<lengthBuf, closed, received>>

\* Mutant: the frame that ends with the chunk waits for the next one.
PayloadWholeLate ==
    /\ state = "READ_PAYLOAD" /\ chunk # <<>> /\ Len(chunk) > PayloadNeed
    /\ delivered' = Append(delivered,
                           payloadBuf \o FirstBytes(chunk, PayloadNeed))
    /\ chunk' = AfterBytes(chunk, PayloadNeed)
    /\ state' = "READ_LENGTH" /\ lengthBuf' = <<>>
    /\ payloadLength' = 0 /\ payloadBuf' = <<>>
    /\ UNCHANGED <<closed, received>>

\* A payload is complete: msgpack_handler_recv, then reset_parser.
PayloadWhole ==
    /\ state = "READ_PAYLOAD" /\ chunk # <<>> /\ Len(chunk) >= PayloadNeed
    /\ delivered' = Append(delivered,
                           payloadBuf \o FirstBytes(chunk, PayloadNeed))
    /\ chunk' = AfterBytes(chunk, PayloadNeed)
    /\ state' = "READ_LENGTH" /\ lengthBuf' = <<>>
    /\ payloadLength' = 0 /\ payloadBuf' = <<>>
    /\ UNCHANGED <<closed, received>>

Iterate == LengthPart \/ LengthWhole \/ LengthBad \/ PayloadPart \/ PayloadWhole

Next == ReadChunk \/ Eof \/ Iterate

Spec == Init /\ [][Next]_vars

\* consume_bytes runs until it returns.
FairSpec == Spec /\ WF_vars(Iterate)

-----------------------------------------------------------------------------
(* Properties.                                                             *)

\* memcpy never writes past g_length_buf or g_payload_buf, nor are "need" and
\* "g_payload_length - g_payload_received" ever negative (they are size_t):
\* the length that is being filled was checked against MAX_MESSAGE_SIZE, and
\* each iteration has room for at least one byte.
InBounds ==
    /\ Len(lengthBuf) <= LENGTH_SIZE
    /\ Len(payloadBuf) <= MAX_MESSAGE_SIZE
    /\ state = "READ_LENGTH" =>
          /\ payloadBuf = <<>>
          /\ closed # "error" => Len(lengthBuf) < LENGTH_SIZE
    /\ state = "READ_PAYLOAD" =>
          /\ payloadLength \in 1..MAX_MESSAGE_SIZE
          /\ Len(payloadBuf) < payloadLength

RefLength(s, i) == Word(SubSeq(s, i, i + LENGTH_SIZE - 1))

\* What stream s says from byte i on, if Parse has what it says further on.
RefStep(s, Parse, i) ==
    LET first == i + LENGTH_SIZE
        last == first + RefLength(s, i) - 1 IN
    IF first - 1 > Len(s) THEN [frames |-> <<>>, bad |-> FALSE]
    ELSE IF RefLength(s, i) \notin 1..MAX_MESSAGE_SIZE THEN [frames |-> <<>>, bad |-> TRUE]
    ELSE IF last > Len(s) THEN [frames |-> <<>>, bad |-> FALSE]
    ELSE [frames |-> <<SubSeq(s, first, last)>> \o Parse[last + 1].frames,
          bad |-> Parse[last + 1].bad]

RefFrom(s) == LET Parse[i \in 1..(Len(s) + 1)] == RefStep(s, Parse, i) IN Parse

\* What a whole stream says: its frames, up to the first bad length.
RefParse(s) == RefFrom(s)[1]

\* However the stream was cut into chunks, once a chunk is used up the payloads
\* delivered are the whole frames read so far, none lost, repeated, cut or held
\* back, and the stream is given up exactly at its first bad length.
ParsesStream ==
    chunk = <<>> => /\ delivered = RefParse(received).frames
                    /\ (closed = "error") = RefParse(received).bad

\* Once closed the parser delivers nothing more.
SilentOnceClosed == [][closed # "no" => delivered' = delivered]_vars

\* consume_bytes returns, whatever the bytes.
ConsumeReturns == chunk # <<>> ~> chunk = <<>>
=============================================================================
