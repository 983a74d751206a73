---------------------------- MODULE FramingProofs ----------------------------
(***************************************************************************)
(* The parser stays inside its buffers, delivers what the stream says      *)
(* however it is cut, and is silent once closed, for any size of byte,     *)
(* buffer and read.                                                        *)
(***************************************************************************)
EXTENDS Framing, SequenceTheorems, WellFoundedInduction, TLAPS

\* ntohl of four bytes is a natural number.
LEMMA WordIsNat ==
    ASSUME NEW b \in Seq(Byte), Len(b) = LENGTH_SIZE
    PROVE  Word(b) \in Nat
<1>1. b[1] \in Nat /\ b[2] \in Nat /\ b[3] \in Nat /\ b[4] \in Nat
  <2>1. \A i \in 1..4 : b[i] \in Byte
    <3>1. Len(b) = 4
      BY DEF LENGTH_SIZE
    <3>2. \A i \in 1..Len(b) : b[i] \in Byte
      OBVIOUS
    <3> QED BY <3>1, <3>2
  <2>2. \A i \in 1..4 : b[i] \in Nat
    BY <2>1, SizesAssumption DEF Byte
  <2>3. 1 \in 1..4 /\ 2 \in 1..4 /\ 3 \in 1..4 /\ 4 \in 1..4
    OBVIOUS
  <2> QED BY <2>2, <2>3
<1>2. ASSUME NEW x \in Nat, NEW y \in Nat PROVE x * Base + y \in Nat
  <2>1. Base \in Nat
    BY SizesAssumption
  <2>2. x * Base \in Int /\ x * Base >= 0
    BY <2>1
  <2> QED BY <2>2
<1>3. b[1] * Base + b[2] \in Nat
  BY <1>1, <1>2
<1>4. (b[1] * Base + b[2]) * Base + b[3] \in Nat
  BY <1>1, <1>2, <1>3
<1> QED BY <1>1, <1>2, <1>4 DEF Word

\* Cutting a sequence in two keeps its elements and their number.
LEMMA Cut ==
    ASSUME NEW S, NEW s \in Seq(S), NEW n \in 0..Len(s)
    PROVE  /\ FirstBytes(s, n) \in Seq(S) /\ Len(FirstBytes(s, n)) = n
           /\ AfterBytes(s, n) \in Seq(S)
BY DEF FirstBytes, AfterBytes

\* Appending to a buffer adds the lengths, as g_length_received and
\* g_payload_received do.
LEMMA Joined ==
    ASSUME NEW S, NEW s \in Seq(S), NEW t \in Seq(S)
    PROVE  s \o t \in Seq(S) /\ Len(s \o t) = Len(s) + Len(t)
OBVIOUS

\* InBounds needs the types, and the types need InBounds: the four bytes that
\* Word reads are there.
IInv == TypeOK /\ InBounds

\* The parser starts with empty buffers.
THEOREM InitIInv == Init => IInv
BY SizesAssumption DEF Init, IInv, TypeOK, InBounds, LENGTH_SIZE

\* Each way through consume_bytes keeps the types and the bounds.
THEOREM NextIInv == IInv /\ [Next]_vars => IInv'
<1> SUFFICES ASSUME IInv, [Next]_vars PROVE IInv'
  OBVIOUS
<1> USE DEF IInv
<1>1. CASE ReadChunk
  <2>1. PICK n \in 1..ReadSize : \E data \in [1..n -> Byte] :
              chunk' = data /\ received' = received \o data
    BY <1>1 DEF ReadChunk
  <2>2. PICK data \in [1..n -> Byte] : chunk' = data /\ received' = received \o data
    BY <2>1
  <2>3. n \in Nat
    BY SizesAssumption
  <2>4. data \in Seq(Byte)
    BY <2>3
  <2>5. received' \in Seq(Byte)
    BY <2>2, <2>4 DEF TypeOK
  <2> QED BY <1>1, <2>2, <2>4, <2>5 DEF ReadChunk, TypeOK, InBounds, parser
<1>2. CASE Eof
  BY <1>2 DEF Eof, TypeOK, InBounds, parser
<1>3. CASE LengthPart
  <2>1. lengthBuf' \in Seq(Byte) /\ Len(lengthBuf') = Len(lengthBuf) + Len(chunk)
    BY <1>3, Joined DEF LengthPart, TypeOK
  <2>2. Len(lengthBuf') < LENGTH_SIZE
    BY <1>3, <2>1 DEF LengthPart, LengthNeed, TypeOK, LENGTH_SIZE
  <2> QED BY <1>3, <2>1, <2>2 DEF LengthPart, TypeOK, InBounds, LENGTH_SIZE
<1>4. ASSUME state = "READ_LENGTH", Len(chunk) >= LengthNeed,
             lengthBuf' = lengthBuf \o FirstBytes(chunk, LengthNeed)
      PROVE  /\ lengthBuf' \in Seq(Byte) /\ Len(lengthBuf') = LENGTH_SIZE
             /\ Word(lengthBuf') \in Nat
             /\ AfterBytes(chunk, LengthNeed) \in Seq(Byte)
  <2>1. LengthNeed \in 0..Len(chunk) /\ lengthBuf \in Seq(Byte) /\ chunk \in Seq(Byte)
    BY <1>4 DEF LengthNeed, TypeOK, InBounds, LENGTH_SIZE
  <2>2. /\ FirstBytes(chunk, LengthNeed) \in Seq(Byte)
        /\ Len(FirstBytes(chunk, LengthNeed)) = LengthNeed
        /\ AfterBytes(chunk, LengthNeed) \in Seq(Byte)
    BY <2>1, Cut
  <2>3. lengthBuf' \in Seq(Byte) /\ Len(lengthBuf') = LENGTH_SIZE
    BY <1>4, <2>1, <2>2, Joined DEF LengthNeed, LENGTH_SIZE
  <2> QED BY <2>2, <2>3, WordIsNat
<1>5. CASE LengthWhole
  <2>1. /\ lengthBuf' \in Seq(Byte) /\ Len(lengthBuf') = LENGTH_SIZE
        /\ payloadLength' \in Nat /\ chunk' \in Seq(Byte)
    BY <1>4, <1>5 DEF LengthWhole
  <2>2. payloadLength' \in 1..MAX_MESSAGE_SIZE
    BY <1>5, <2>1, SizesAssumption DEF LengthWhole, GoodLength
  <2> QED BY <1>5, <2>1, <2>2, SizesAssumption
          DEF LengthWhole, TypeOK, InBounds, LENGTH_SIZE
<1>6. CASE LengthBad
  <2>1. /\ lengthBuf' \in Seq(Byte) /\ Len(lengthBuf') = LENGTH_SIZE
        /\ payloadLength' \in Nat
    BY <1>4, <1>6 DEF LengthBad
  <2> QED BY <1>6, <2>1 DEF LengthBad, TypeOK, InBounds, LENGTH_SIZE
<1>7. CASE PayloadPart
  <2>1. payloadBuf' \in Seq(Byte) /\ Len(payloadBuf') = Len(payloadBuf) + Len(chunk)
    BY <1>7, Joined DEF PayloadPart, TypeOK
  <2>2. Len(payloadBuf') < payloadLength
    BY <1>7, <2>1 DEF PayloadPart, PayloadNeed, TypeOK
  <2>3. Len(payloadBuf') <= MAX_MESSAGE_SIZE
    BY <1>7, <2>1, <2>2, SizesAssumption DEF PayloadPart, TypeOK, InBounds
  <2> QED BY <1>7, <2>1, <2>2, <2>3 DEF PayloadPart, TypeOK, InBounds
<1>8. CASE PayloadWhole
  <2>1. PayloadNeed \in 0..Len(chunk) /\ payloadBuf \in Seq(Byte) /\ chunk \in Seq(Byte)
    BY <1>8 DEF PayloadWhole, PayloadNeed, TypeOK, InBounds
  <2>2. /\ FirstBytes(chunk, PayloadNeed) \in Seq(Byte)
        /\ AfterBytes(chunk, PayloadNeed) \in Seq(Byte)
    BY <2>1, Cut
  <2>3. payloadBuf \o FirstBytes(chunk, PayloadNeed) \in Seq(Byte)
    BY <2>1, <2>2, Joined
  <2>4. delivered' \in Seq(Seq(Byte))
    BY <1>8, <2>3 DEF PayloadWhole, TypeOK
  <2> QED BY <1>8, <2>2, <2>4, SizesAssumption
          DEF PayloadWhole, TypeOK, InBounds, LENGTH_SIZE
<1>9. CASE UNCHANGED vars
  BY <1>9 DEF vars, parser, TypeOK, InBounds
<1> QED BY <1>1, <1>2, <1>3, <1>5, <1>6, <1>7, <1>8, <1>9 DEF Next, Iterate

\* No byte is ever written outside g_length_buf and g_payload_buf, whatever
\* the stream and however it is cut.
THEOREM Bounds == Spec => [](TypeOK /\ InBounds)
<1>1. IInv => TypeOK /\ InBounds
  BY DEF IInv
<1> QED BY <1>1, InitIInv, NextIInv, PTL DEF Spec

\* A closed stream has no bytes waiting.
ClosedIsDone == closed # "no" => chunk = <<>>

\* Nothing is delivered after protocol_error or the end of the stream.
THEOREM Silent == Spec => SilentOnceClosed
<1>1. Init => ClosedIsDone
  BY DEF Init, ClosedIsDone
<1>2. ClosedIsDone /\ [Next]_vars => ClosedIsDone'
  BY DEF ClosedIsDone, Next, Iterate, ReadChunk, Eof, LengthPart, LengthWhole,
         LengthBad, PayloadPart, PayloadWhole, vars, parser
<1>3. ClosedIsDone /\ [Next]_vars => [closed # "no" => delivered' = delivered]_vars
  BY DEF ClosedIsDone, Next, Iterate, ReadChunk, Eof, LengthPart, LengthWhole,
         LengthBad, PayloadPart, PayloadWhole, vars, parser
<1> QED BY <1>1, <1>2, <1>3, PTL DEF Spec, SilentOnceClosed

-----------------------------------------------------------------------------
(***************************************************************************)
(* The payloads delivered are the frames of the stream, end to end: what   *)
(* RefParse computes, stated without recursion.                            *)
(***************************************************************************)
\* Bytes b are those of stream s behind its first p.
Behind(s, p, b) ==
    /\ p + Len(b) <= Len(s)
    /\ \A j \in 1..Len(b) : b[j] = s[p + j]

\* Payload d is that of the frame behind the first p bytes of stream s.
FrameIn(s, p, d) ==
    \E w \in Seq(Byte) : /\ Len(w) = LENGTH_SIZE /\ Behind(s, p, w)
                         /\ GoodLength(Word(w)) /\ Len(d) = Word(w)
                         /\ Behind(s, p + LENGTH_SIZE, d)

\* The buffers and the chunk are the stream behind its first p bytes.
RestIn(s, p) ==
    /\ Behind(s, p, lengthBuf)
    /\ Behind(s, p + Len(lengthBuf), payloadBuf)
    /\ Behind(s, p + Len(lengthBuf) + Len(payloadBuf), chunk)
    /\ closed # "error" =>
          p + Len(lengthBuf) + Len(payloadBuf) + Len(chunk) = Len(s)

\* A length is judged when its four bytes are there.
LengthKnown ==
    /\ state = "READ_PAYLOAD" =>
          Len(lengthBuf) = LENGTH_SIZE /\ payloadLength = Word(lengthBuf)
    /\ closed = "error" =>
          Len(lengthBuf) = LENGTH_SIZE /\ ~GoodLength(Word(lengthBuf))
    /\ closed # "no" => chunk = <<>>

\* Frame k comes behind the first at[k] bytes, and the rest behind the last frame.
Places(at) ==
    /\ at \in [1..(Len(delivered) + 1) -> Nat] /\ at[1] = 0
    /\ \A k \in 1..Len(delivered) : /\ FrameIn(received, at[k], delivered[k])
                                    /\ at[k + 1] = at[k] + LENGTH_SIZE + Len(delivered[k])
    /\ RestIn(received, at[Len(delivered) + 1])

Framed == LengthKnown /\ \E at : Places(at)

\* What lies in a stream stays in it when more is read.
LEMMA BehindLonger ==
    ASSUME NEW s \in Seq(Byte), NEW t \in Seq(Byte), NEW b \in Seq(Byte), NEW p \in Nat,
           Behind(s, p, b)
    PROVE  Behind(s \o t, p, b)
<1>1. Len(s \o t) = Len(s) + Len(t) /\ p + Len(b) <= Len(s)
  BY DEF Behind
<1>2. ASSUME NEW j \in 1..Len(b) PROVE b[j] = (s \o t)[p + j]
  <2>1. p + j \in 1..Len(s) /\ b[j] = s[p + j]
    BY <1>2 DEF Behind
  <2>2. (s \o t)[p + j] = s[p + j]
    BY <2>1
  <2> QED BY <2>1, <2>2
<1> QED BY <1>1, <1>2 DEF Behind

\* What is read comes behind what there was.
LEMMA BehindRead ==
    ASSUME NEW s \in Seq(Byte), NEW t \in Seq(Byte)
    PROVE  Behind(s \o t, Len(s), t)
BY DEF Behind

\* No bytes are anywhere in a stream.
LEMMA BehindNone ==
    ASSUME NEW s \in Seq(Byte), NEW p \in Nat, p <= Len(s)
    PROVE  Behind(s, p, <<>>)
BY DEF Behind

\* The bytes of two buffers put together.
LEMMA Appended ==
    ASSUME NEW b \in Seq(Byte), NEW c \in Seq(Byte)
    PROVE  /\ Len(b \o c) = Len(b) + Len(c)
           /\ \A j \in 1..(Len(b) + Len(c)) :
                 (b \o c)[j] = IF j <= Len(b) THEN b[j] ELSE c[j - Len(b)]
OBVIOUS

\* Bytes f move from the chunk to the buffer before it, and bytes r are left.
LEMMA BehindMoved ==
    ASSUME NEW s \in Seq(Byte), NEW p \in Nat, NEW b \in Seq(Byte), NEW f \in Seq(Byte),
           NEW r \in Seq(Byte), Behind(s, p, b), Behind(s, p + Len(b), f \o r)
    PROVE  Behind(s, p, b \o f) /\ Behind(s, p + Len(b) + Len(f), r)
<1>1. /\ Len(b) \in Nat /\ Len(f) \in Nat /\ Len(r) \in Nat /\ Len(s) \in Nat
      /\ Len(b \o f) = Len(b) + Len(f) /\ Len(f \o r) = Len(f) + Len(r)
  BY Appended
<1>2. p + Len(b) + Len(f) + Len(r) <= Len(s)
  BY <1>1 DEF Behind
<1>3. ASSUME NEW j \in 1..(Len(b) + Len(f)) PROVE (b \o f)[j] = s[p + j]
  <2>1. CASE j <= Len(b)
    <3>1. j \in 1..Len(b) /\ (b \o f)[j] = b[j]
      BY <1>1, <2>1, Appended
    <3> QED BY <3>1 DEF Behind
  <2>2. CASE j > Len(b)
    <3> DEFINE i == j - Len(b)
    <3>1. i \in 1..Len(f) /\ i \in 1..(Len(f) + Len(r)) /\ i <= Len(f)
      BY <1>1, <2>2
    <3>2. (b \o f)[j] = f[i] /\ (f \o r)[i] = f[i]
      BY <1>1, <2>2, <3>1, Appended
    <3>3. (f \o r)[i] = s[p + Len(b) + i]
      BY <1>1, <3>1 DEF Behind
    <3>4. p + Len(b) + i = p + j
      BY <1>1
    <3> QED BY <3>2, <3>3, <3>4
  <2> QED BY <1>1, <2>1, <2>2
<1>4. ASSUME NEW j \in 1..Len(r) PROVE r[j] = s[p + Len(b) + Len(f) + j]
  <2> DEFINE i == Len(f) + j
  <2>1. i \in 1..(Len(f) + Len(r)) /\ ~(i <= Len(f)) /\ i - Len(f) = j
    BY <1>1
  <2>2. (f \o r)[i] = r[j]
    BY <2>1, Appended
  <2>3. (f \o r)[i] = s[p + Len(b) + i]
    BY <1>1, <2>1 DEF Behind
  <2>4. p + Len(b) + i = p + Len(b) + Len(f) + j
    BY <1>1
  <2> QED BY <2>2, <2>3, <2>4
<1>5. Behind(s, p, b \o f)
  BY <1>1, <1>2, <1>3 DEF Behind
<1>6. Behind(s, p + Len(b) + Len(f), r)
  BY <1>1, <1>2, <1>4 DEF Behind
<1> QED BY <1>5, <1>6

\* A chunk is its first n bytes and those after them.
LEMMA Split ==
    ASSUME NEW c \in Seq(Byte), NEW n \in 0..Len(c)
    PROVE  /\ c = FirstBytes(c, n) \o AfterBytes(c, n)
           /\ FirstBytes(c, n) \in Seq(Byte) /\ Len(FirstBytes(c, n)) = n
           /\ AfterBytes(c, n) \in Seq(Byte) /\ Len(AfterBytes(c, n)) = Len(c) - n
<1>1. /\ 1 \in 1..(Len(c) + 1) /\ n \in (1 - 1)..Len(c) /\ Len(c) \in n..Len(c)
  OBVIOUS
<1>2. SubSeq(c, 1, n) \o SubSeq(c, n + 1, Len(c)) = SubSeq(c, 1, Len(c))
  BY <1>1, ConcatAdjacentSubSeq, Zenon
<1>3. SubSeq(c, 1, Len(c)) = c
  BY SubSeqFull
<1>4. c = FirstBytes(c, n) \o AfterBytes(c, n)
  BY <1>2, <1>3 DEF FirstBytes, AfterBytes
<1>5. Len(AfterBytes(c, n)) = Len(c) - n
  BY DEF AfterBytes
<1> QED BY <1>4, <1>5, Cut

\* A frame that was delivered stays one, for its bytes do.
LEMMA FrameLonger ==
    ASSUME NEW s \in Seq(Byte), NEW t \in Seq(Byte), NEW p \in Nat, NEW d \in Seq(Byte),
           FrameIn(s, p, d)
    PROVE  FrameIn(s \o t, p, d)
<1>1. PICK w \in Seq(Byte) : /\ Len(w) = LENGTH_SIZE /\ Behind(s, p, w)
                             /\ GoodLength(Word(w)) /\ Len(d) = Word(w)
                             /\ Behind(s, p + LENGTH_SIZE, d)
  BY DEF FrameIn
<1>2. p + LENGTH_SIZE \in Nat
  BY DEF LENGTH_SIZE
<1>3. Behind(s \o t, p, w) /\ Behind(s \o t, p + LENGTH_SIZE, d)
  BY <1>1, <1>2, BehindLonger
<1> QED BY <1>1, <1>3 DEF FrameIn

\* read_stdin: the bytes are put behind the stream, and nothing was left over.
LEMMA ReadFramed == ASSUME IInv, Framed, ReadChunk PROVE Framed'
<1>1. PICK at : Places(at)
  BY DEF Framed
<1>2. PICK n \in 1..ReadSize : \E data \in [1..n -> Byte] :
              chunk' = data /\ received' = received \o data
  BY DEF ReadChunk
<1>3. PICK data \in [1..n -> Byte] : chunk' = data /\ received' = received \o data
  BY <1>2
<1>4. n \in Nat /\ data \in Seq(Byte)
  BY SizesAssumption
<1>5. /\ received \in Seq(Byte) /\ lengthBuf \in Seq(Byte) /\ payloadBuf \in Seq(Byte)
      /\ Len(delivered) \in Nat /\ \A k \in 1..Len(delivered) : delivered[k] \in Seq(Byte)
  BY DEF IInv, TypeOK
<1>6. /\ closed = "no" /\ closed' = "no" /\ chunk = <<>>
      /\ UNCHANGED <<state, lengthBuf, payloadLength, payloadBuf, delivered>>
  BY DEF ReadChunk, parser
<1>7. LengthKnown'
  BY <1>6 DEF Framed, LengthKnown
<1>8. ASSUME NEW k \in 1..Len(delivered) PROVE FrameIn(received', at[k], delivered[k])
  <2>1. FrameIn(received, at[k], delivered[k])
    BY <1>1 DEF Places
  <2>2. at[k] \in Nat
    <3>1. k \in 1..(Len(delivered) + 1)
      BY <1>5
    <3> QED BY <1>1, <3>1 DEF Places
  <2>3. delivered[k] \in Seq(Byte)
    BY <1>5
  <2> QED BY <1>3, <1>4, <1>5, <2>1, <2>2, <2>3, FrameLonger
<1>9. RestIn(received, at[Len(delivered) + 1])'
  <2> DEFINE p == at[Len(delivered) + 1]
  <2>1. RestIn(received, p) /\ p \in Nat
    BY <1>1, <1>5 DEF Places
  <2>2. Len(lengthBuf) \in Nat /\ Len(payloadBuf) \in Nat /\ Len(received) \in Nat
    BY <1>5
  <2> HIDE DEF p
  <2>3. p + Len(lengthBuf) + Len(payloadBuf) = Len(received)
    BY <1>6, <2>1, <2>2 DEF RestIn
  <2>4. p + Len(lengthBuf) \in Nat
    BY <2>1, <2>2
  <2>5. Behind(received', p, lengthBuf) /\ Behind(received', p + Len(lengthBuf), payloadBuf)
    BY <1>3, <1>4, <1>5, <2>1, <2>4, BehindLonger DEF RestIn
  <2>6. Behind(received', p + Len(lengthBuf) + Len(payloadBuf), chunk')
    BY <1>3, <1>4, <1>5, <2>3, BehindRead
  <2>7. Len(received') = Len(received) + Len(chunk')
    BY <1>3, <1>4, <1>5, Appended
  <2> QED BY <1>6, <2>3, <2>5, <2>6, <2>7 DEF RestIn, p
<1>10. Places(at)'
  BY <1>1, <1>6, <1>8, <1>9 DEF Places
<1> QED BY <1>7, <1>10 DEF Framed

\* The delivered frames do not depend on the buffers.
LEMMA FramesStay ==
    ASSUME NEW at, Places(at), UNCHANGED <<received, delivered>>,
           NEW p, p = at[Len(delivered) + 1], RestIn(received, p)'
    PROVE  Places(at)'
BY DEF Places

\* Bytes that go into g_length_buf: f is their part of the chunk and r what is
\* left of it.
LEMMA LengthFilled ==
    ASSUME IInv, NEW p \in Nat, RestIn(received, p), state = "READ_LENGTH",
           closed = "no", NEW f \in Seq(Byte), NEW r \in Seq(Byte), chunk = f \o r
    PROVE  /\ Behind(received, p, lengthBuf \o f)
           /\ Behind(received, p + Len(lengthBuf \o f), r)
           /\ p + Len(lengthBuf \o f) + Len(r) = Len(received)
           /\ p + Len(lengthBuf \o f) \in Nat
<1>1. /\ received \in Seq(Byte) /\ lengthBuf \in Seq(Byte) /\ payloadBuf = <<>>
      /\ Len(lengthBuf) \in Nat /\ Len(f) \in Nat /\ Len(r) \in Nat /\ Len(payloadBuf) = 0
  BY DEF IInv, TypeOK, InBounds
<1>2. Len(lengthBuf \o f) = Len(lengthBuf) + Len(f) /\ Len(chunk) = Len(f) + Len(r)
  BY <1>1, Appended
<1>3. Behind(received, p, lengthBuf) /\ Behind(received, p + Len(lengthBuf), f \o r)
  <2>1. p + Len(lengthBuf) + Len(payloadBuf) = p + Len(lengthBuf)
    BY <1>1
  <2> QED BY <2>1 DEF RestIn
<1>4. p + Len(lengthBuf) + Len(chunk) = Len(received)
  BY <1>1, <1>2 DEF RestIn
<1>5. p + Len(lengthBuf \o f) = p + Len(lengthBuf) + Len(f)
  BY <1>1, <1>2
<1> QED BY <1>1, <1>2, <1>3, <1>4, <1>5, BehindMoved

\* The same for g_payload_buf.
LEMMA PayloadFilled ==
    ASSUME IInv, NEW p \in Nat, RestIn(received, p), closed = "no",
           NEW f \in Seq(Byte), NEW r \in Seq(Byte), chunk = f \o r
    PROVE  /\ Behind(received, p + Len(lengthBuf), payloadBuf \o f)
           /\ Behind(received, p + Len(lengthBuf) + Len(payloadBuf \o f), r)
           /\ p + Len(lengthBuf) + Len(payloadBuf \o f) + Len(r) = Len(received)
<1>1. /\ received \in Seq(Byte) /\ lengthBuf \in Seq(Byte) /\ payloadBuf \in Seq(Byte)
      /\ Len(lengthBuf) \in Nat /\ Len(payloadBuf) \in Nat /\ Len(f) \in Nat /\ Len(r) \in Nat
  BY DEF IInv, TypeOK
<1>2. Len(payloadBuf \o f) = Len(payloadBuf) + Len(f) /\ Len(chunk) = Len(f) + Len(r)
  BY <1>1, Appended
<1>3. /\ Behind(received, p + Len(lengthBuf), payloadBuf)
      /\ Behind(received, p + Len(lengthBuf) + Len(payloadBuf), f \o r)
  BY DEF RestIn
<1>4. p + Len(lengthBuf) \in Nat
  BY <1>1
<1>5. /\ Behind(received, p + Len(lengthBuf), payloadBuf \o f)
      /\ Behind(received, p + Len(lengthBuf) + Len(payloadBuf) + Len(f), r)
  BY <1>1, <1>3, <1>4, BehindMoved
<1>6. p + Len(lengthBuf) + Len(payloadBuf) + Len(chunk) = Len(received)
  BY DEF RestIn
<1>7. p + Len(lengthBuf) + Len(payloadBuf \o f) = p + Len(lengthBuf) + Len(payloadBuf) + Len(f)
  BY <1>1, <1>2
<1> QED BY <1>1, <1>2, <1>5, <1>6, <1>7

\* A buffer is filled from the chunk and nothing is delivered.
LEMMA FillFramed ==
    ASSUME IInv, Framed, LengthPart \/ LengthWhole \/ LengthBad \/ PayloadPart
    PROVE  Framed'
<1>1. PICK at : Places(at)
  BY DEF Framed
<1>2. /\ Len(delivered) \in Nat /\ chunk \in Seq(Byte) /\ chunk # <<>>
      /\ UNCHANGED <<received, delivered>>
  BY DEF IInv, TypeOK, LengthPart, LengthWhole, LengthBad, PayloadPart
<1>3. PICK p \in Nat : p = at[Len(delivered) + 1] /\ RestIn(received, p)
  BY <1>1, <1>2 DEF Places
<1>4. closed = "no"
  BY <1>2 DEF Framed, LengthKnown
<1>5. CASE LengthPart
  <2>1. chunk = chunk \o <<>> /\ <<>> \in Seq(Byte)
    BY <1>2
  <2>2. /\ state = "READ_LENGTH" /\ state' = "READ_LENGTH" /\ closed' = "no"
        /\ lengthBuf' = lengthBuf \o chunk /\ chunk' = <<>> /\ payloadBuf' = payloadBuf
    BY <1>4, <1>5 DEF LengthPart
  <2>3. /\ Behind(received, p, lengthBuf')
        /\ Behind(received, p + Len(lengthBuf'), <<>>)
        /\ p + Len(lengthBuf') + Len(<<>>) = Len(received)
        /\ p + Len(lengthBuf') \in Nat
    BY <1>2, <1>3, <1>4, <2>1, <2>2, LengthFilled
  <2>4. payloadBuf' = <<>>
    BY <2>2 DEF IInv, InBounds
  <2>5. RestIn(received, p)'
    BY <1>2, <2>2, <2>3, <2>4 DEF RestIn
  <2>6. LengthKnown'
    BY <2>2 DEF LengthKnown
  <2> QED BY <1>1, <1>2, <1>3, <2>5, <2>6, FramesStay DEF Framed
<1>6. ASSUME state = "READ_LENGTH", Len(chunk) >= LengthNeed
      PROVE  LET f == FirstBytes(chunk, LengthNeed)  r == AfterBytes(chunk, LengthNeed) IN
             /\ Behind(received, p, lengthBuf \o f)
             /\ Behind(received, p + Len(lengthBuf \o f), r)
             /\ p + Len(lengthBuf \o f) + Len(r) = Len(received)
             /\ Len(lengthBuf \o f) = LENGTH_SIZE
  <2> DEFINE f == FirstBytes(chunk, LengthNeed)  r == AfterBytes(chunk, LengthNeed)
  <2>1. LengthNeed \in 0..Len(chunk) /\ lengthBuf \in Seq(Byte)
    BY <1>4, <1>6 DEF LengthNeed, IInv, TypeOK, InBounds, LENGTH_SIZE
  <2>2. chunk = f \o r /\ f \in Seq(Byte) /\ r \in Seq(Byte) /\ Len(f) = LengthNeed
    BY <1>2, <2>1, Split
  <2> HIDE DEF f, r
  <2>3. /\ Behind(received, p, lengthBuf \o f)
        /\ Behind(received, p + Len(lengthBuf \o f), r)
        /\ p + Len(lengthBuf \o f) + Len(r) = Len(received)
    BY <1>3, <1>4, <1>6, <2>2, LengthFilled
  <2>4. Len(lengthBuf \o f) = LENGTH_SIZE
    <3>1. Len(lengthBuf \o f) = Len(lengthBuf) + Len(f)
      BY <2>1, <2>2, Appended
    <3> QED BY <2>1, <2>2, <3>1 DEF LengthNeed, LENGTH_SIZE
  <2> QED BY <2>3, <2>4 DEF f, r
<1>7. CASE LengthWhole
  <2>1. /\ state = "READ_LENGTH" /\ Len(chunk) >= LengthNeed
        /\ lengthBuf' = lengthBuf \o FirstBytes(chunk, LengthNeed)
        /\ chunk' = AfterBytes(chunk, LengthNeed) /\ payloadBuf' = <<>>
        /\ payloadLength' = Word(lengthBuf') /\ closed' = "no"
    BY <1>4, <1>7 DEF LengthWhole
  <2>2. /\ Behind(received, p, lengthBuf') /\ Behind(received, p + Len(lengthBuf'), chunk')
        /\ p + Len(lengthBuf') + Len(chunk') = Len(received)
        /\ Len(lengthBuf') = LENGTH_SIZE
    BY <1>6, <2>1
  <2>3. Behind(received, p + Len(lengthBuf'), payloadBuf')
    <3>1. received \in Seq(Byte)
      BY DEF IInv, TypeOK
    <3>2. p + Len(lengthBuf') \in Nat
      BY <1>3, <2>2 DEF LENGTH_SIZE
    <3>3. p + Len(lengthBuf') <= Len(received)
      BY <2>2 DEF Behind
    <3> QED BY <2>1, <3>1, <3>2, <3>3, BehindNone
  <2>4. Len(payloadBuf') = 0 /\ p + Len(lengthBuf') + 0 = p + Len(lengthBuf')
    BY <1>3, <2>1, <2>2 DEF LENGTH_SIZE
  <2>5. RestIn(received, p)'
    BY <1>2, <2>1, <2>2, <2>3, <2>4 DEF RestIn
  <2>6. LengthKnown'
    BY <2>1, <2>2 DEF LengthKnown
  <2> QED BY <1>1, <1>2, <1>3, <2>5, <2>6, FramesStay DEF Framed
<1>8. CASE LengthBad
  <2>1. /\ state = "READ_LENGTH" /\ state' = "READ_LENGTH" /\ Len(chunk) >= LengthNeed
        /\ lengthBuf' = lengthBuf \o FirstBytes(chunk, LengthNeed)
        /\ chunk' = <<>> /\ payloadBuf' = <<>> /\ closed' = "error"
        /\ ~GoodLength(Word(lengthBuf'))
    BY <1>8 DEF LengthBad, IInv, InBounds
  <2>2. Behind(received, p, lengthBuf') /\ Len(lengthBuf') = LENGTH_SIZE
    BY <1>6, <2>1
  <2>3. Behind(received, p + Len(lengthBuf'), <<>>)
    <3>1. received \in Seq(Byte)
      BY DEF IInv, TypeOK
    <3>2. p + Len(lengthBuf') \in Nat
      BY <1>3, <2>2 DEF LENGTH_SIZE
    <3>3. p + Len(lengthBuf') <= Len(received)
      BY <2>2 DEF Behind
    <3> QED BY <3>1, <3>2, <3>3, BehindNone
  <2>4. Len(payloadBuf') = 0 /\ p + Len(lengthBuf') + 0 = p + Len(lengthBuf')
    BY <1>3, <2>1, <2>2 DEF LENGTH_SIZE
  <2>5. RestIn(received, p)'
    BY <1>2, <2>1, <2>2, <2>3, <2>4 DEF RestIn
  <2>6. LengthKnown'
    BY <2>1, <2>2 DEF LengthKnown
  <2> QED BY <1>1, <1>2, <1>3, <2>5, <2>6, FramesStay DEF Framed
<1>9. CASE PayloadPart
  <2>1. chunk = chunk \o <<>> /\ <<>> \in Seq(Byte)
    BY <1>2
  <2>2. /\ payloadBuf' = payloadBuf \o chunk /\ chunk' = <<>> /\ closed' = "no"
        /\ UNCHANGED <<state, lengthBuf, payloadLength>>
    BY <1>4, <1>9 DEF PayloadPart
  <2>3. /\ Behind(received, p + Len(lengthBuf), payloadBuf')
        /\ Behind(received, p + Len(lengthBuf) + Len(payloadBuf'), <<>>)
        /\ p + Len(lengthBuf) + Len(payloadBuf') + Len(<<>>) = Len(received)
    BY <1>2, <1>3, <1>4, <2>1, <2>2, PayloadFilled
  <2>4. Behind(received, p, lengthBuf)
    BY <1>3 DEF RestIn
  <2>5. RestIn(received, p)'
    BY <1>2, <2>2, <2>3, <2>4 DEF RestIn
  <2>6. LengthKnown'
    BY <2>2 DEF Framed, LengthKnown
  <2> QED BY <1>1, <1>2, <1>3, <2>5, <2>6, FramesStay DEF Framed
<1> QED BY <1>5, <1>7, <1>8, <1>9

\* The frame d that ends is put behind the n frames before it, and the next one
\* begins behind it, at q, where nothing is in the buffers yet.
LEMMA OneMoreFrame ==
    ASSUME NEW at, Places(at), NEW n \in Nat, n = Len(delivered),
           delivered \in Seq(Seq(Byte)), NEW d \in Seq(Byte), NEW p \in Nat,
           p = at[n + 1], FrameIn(received, p, d), NEW q \in Nat,
           q = p + LENGTH_SIZE + Len(d), received' = received,
           delivered' = Append(delivered, d), RestIn(received, q)'
    PROVE  \E to : Places(to)'
<1>1. PICK to : to = [k \in 1..(n + 2) |-> IF k = n + 2 THEN q ELSE at[k]]
  OBVIOUS
<1>2. /\ Len(delivered') = n + 1 /\ delivered'[n + 1] = d
      /\ \A k \in 1..n : delivered'[k] = delivered[k]
  OBVIOUS
<1>3. /\ at \in [1..(n + 1) -> Nat] /\ at[1] = 0
      /\ \A k \in 1..n : FrameIn(received, at[k], delivered[k])
      /\ \A k \in 1..n : at[k + 1] = at[k] + LENGTH_SIZE + Len(delivered[k])
  BY DEF Places
<1>4. /\ to \in [1..(n + 2) -> Nat] /\ to[n + 2] = q
      /\ \A k \in 1..(n + 1) : to[k] = at[k]
  BY <1>1, <1>3
<1>5. to[1] = 0
  BY <1>3, <1>4
<1>6. ASSUME NEW k \in 1..(n + 1)
      PROVE  /\ FrameIn(received, to[k], delivered'[k])
             /\ to[k + 1] = to[k] + LENGTH_SIZE + Len(delivered'[k])
  <2>1. CASE k \in 1..n
    <3>1. k \in 1..(n + 1) /\ k + 1 \in 1..(n + 1)
      BY <2>1
    <3>2. to[k] = at[k] /\ to[k + 1] = at[k + 1]
      BY ONLY <1>4, <3>1
    <3>3. delivered'[k] = delivered[k]
      BY <1>2, <2>1, Zenon
    <3> QED BY <1>3, <2>1, <3>2, <3>3
  <2>2. CASE k = n + 1
    <3>1. to[k] = at[n + 1]
      BY <1>4, <2>2, Zenon
    <3>2. delivered'[k] = d
      BY <1>2, <2>2, Zenon
    <3>3. k + 1 = n + 2
      BY <2>2
    <3> QED BY <1>4, <3>1, <3>2, <3>3
  <2> QED BY <2>1, <2>2
<1>7. Len(delivered') + 1 = n + 2
  BY <1>2
<1>8. RestIn(received, to[Len(delivered) + 1])'
  BY <1>4, <1>7
<1>9. Places(to)'
  BY <1>2, <1>4, <1>5, <1>6, <1>7, <1>8 DEF Places
<1> QED BY <1>9

\* msgpack_handler_recv is given the frame, and reset_parser begins the next.
LEMMA PayloadFramed == ASSUME IInv, Framed, PayloadWhole PROVE Framed'
<1>1. PICK at : Places(at)
  BY DEF Framed
<1>2. /\ chunk \in Seq(Byte) /\ chunk # <<>> /\ delivered \in Seq(Seq(Byte))
      /\ received \in Seq(Byte) /\ lengthBuf \in Seq(Byte) /\ payloadBuf \in Seq(Byte)
      /\ state = "READ_PAYLOAD" /\ Len(chunk) >= PayloadNeed
  BY DEF IInv, TypeOK, PayloadWhole
<1>3. PICK n \in Nat : n = Len(delivered)
  BY <1>2
<1>4. PICK p \in Nat : p = at[n + 1] /\ RestIn(received, p)
  BY <1>1, <1>3 DEF Places
<1>5. /\ closed = "no" /\ Len(lengthBuf) = LENGTH_SIZE /\ payloadLength = Word(lengthBuf)
      /\ payloadLength \in 1..MAX_MESSAGE_SIZE /\ Len(payloadBuf) < payloadLength
  BY <1>2 DEF Framed, LengthKnown, IInv, InBounds
<1>6. PayloadNeed \in 0..Len(chunk)
  BY <1>2, <1>5, SizesAssumption DEF PayloadNeed
<1>7. PICK f \in Seq(Byte) : f = FirstBytes(chunk, PayloadNeed) /\ Len(f) = PayloadNeed
  BY <1>2, <1>6, Split
<1>8. PICK r \in Seq(Byte) : r = AfterBytes(chunk, PayloadNeed) /\ chunk = f \o r
  BY <1>2, <1>6, <1>7, Split
<1>9. PICK d \in Seq(Byte) : d = payloadBuf \o f /\ Len(d) = payloadLength
  <2>1. payloadBuf \o f \in Seq(Byte) /\ Len(payloadBuf \o f) = Len(payloadBuf) + Len(f)
    BY <1>2, <1>7, Appended
  <2>2. Len(payloadBuf) \in Nat /\ Len(f) = payloadLength - Len(payloadBuf)
    BY <1>2, <1>7 DEF PayloadNeed
  <2>3. Len(payloadBuf \o f) = payloadLength
    BY <1>5, <2>1, <2>2, SizesAssumption
  <2> QED BY <2>1, <2>3, Zenon
<1>10. /\ delivered' = Append(delivered, d) /\ chunk' = r /\ state' = "READ_LENGTH"
       /\ lengthBuf' = <<>> /\ payloadBuf' = <<>> /\ closed' = "no" /\ received' = received
  BY <1>5, <1>7, <1>8, <1>9 DEF PayloadWhole
<1>11. /\ Behind(received, p + LENGTH_SIZE, d)
       /\ Behind(received, p + LENGTH_SIZE + Len(d), r)
       /\ p + LENGTH_SIZE + Len(d) + Len(r) = Len(received)
  BY <1>4, <1>5, <1>7, <1>8, <1>9, PayloadFilled
<1>12. FrameIn(received, p, d)
  <2>1. Behind(received, p, lengthBuf)
    BY <1>4 DEF RestIn
  <2>2. GoodLength(Word(lengthBuf))
    BY <1>5, SizesAssumption DEF GoodLength
  <2> QED BY <1>2, <1>5, <1>9, <1>11, <2>1, <2>2 DEF FrameIn
<1>13. PICK q \in Nat : q = p + LENGTH_SIZE + Len(d)
  BY <1>5, <1>9, SizesAssumption DEF LENGTH_SIZE
<1>14. RestIn(received, q)'
  <2>1. Behind(received, q, r) /\ q + Len(r) = Len(received) /\ q <= Len(received)
    BY <1>8, <1>11, <1>13 DEF Behind
  <2>2. Behind(received, q, <<>>)
    BY <1>2, <1>13, <2>1, BehindNone
  <2>3. Len(lengthBuf') = 0 /\ Len(payloadBuf') = 0 /\ q + 0 = q
    BY <1>10, <1>13
  <2>4. Behind(received', q, lengthBuf') /\ Behind(received', q + Len(lengthBuf'), payloadBuf')
    BY <1>10, <2>2, <2>3
  <2>5. q + Len(lengthBuf') + Len(payloadBuf') = q
    BY <1>13, <2>3
  <2> QED BY <1>10, <2>1, <2>4, <2>5 DEF RestIn
<1>15. \E to : Places(to)'
  BY <1>1, <1>2, <1>3, <1>4, <1>9, <1>10, <1>12, <1>13, <1>14, OneMoreFrame
<1>16. LengthKnown'
  BY <1>10 DEF LengthKnown
<1> QED BY <1>15, <1>16 DEF Framed

\* However the stream is cut, the payloads that msgpack_handler_recv was given are
\* the frames of the stream from its first byte on, end to end, and what the parser
\* has of the next one are the bytes behind them; it gives up at a bad length only.
THEOREM Parses == Spec => []Framed
<1>1. Init => Framed
  <2> SUFFICES ASSUME Init PROVE Framed
    OBVIOUS
  <2> DEFINE at == [k \in 1..1 |-> 0]
  <2>1. LengthKnown
    BY DEF Init, LengthKnown
  <2>2. Places(at)
    BY DEF Init, Places, RestIn, Behind
  <2> QED BY <2>1, <2>2 DEF Framed
<1>2. IInv /\ Framed /\ [Next]_vars => Framed'
  <2> SUFFICES ASSUME IInv, Framed, [Next]_vars PROVE Framed'
    OBVIOUS
  <2>1. CASE Eof
    <3>1. PICK at : Places(at)
      BY DEF Framed
    <3>2. Places(at)' /\ LengthKnown'
      BY <2>1, <3>1 DEF Eof, parser, Framed, LengthKnown, Places, RestIn
    <3> QED BY <3>2 DEF Framed
  <2>2. CASE UNCHANGED vars
    <3>1. PICK at : Places(at)
      BY DEF Framed
    <3>2. Places(at)' /\ LengthKnown'
      BY <2>2, <3>1 DEF vars, parser, Framed, LengthKnown, Places, RestIn
    <3> QED BY <3>2 DEF Framed
  <2> QED BY <2>1, <2>2, ReadFramed, FillFramed, PayloadFramed DEF Next, Iterate
<1> QED BY <1>1, <1>2, InitIInv, NextIInv, PTL DEF Spec
-----------------------------------------------------------------------------
(***************************************************************************)
(* The frames of the stream are what RefParse computes.  RefFrom recurs on *)
(* the place in the stream, so it is an induction over numbers: the least  *)
(* number that is not in a set is what the library gives (WFMin), and it   *)
(* is enough.                                                              *)
(***************************************************************************)
Less == OpToRel(<, Nat)

\* Numbers do not decrease forever.
LEMMA LessWF == IsWellFoundedOn(Less, Nat)
BY NatLessThanWellFounded DEF Less

\* What the relation says.
LEMMA LessIs == \A x, y \in Nat : <<y, x>> \in Less <=> y < x
BY DEF Less, OpToRel

\* A set of numbers with 0 and the successor of each of its members is Nat.
LEMMA Induction ==
    ASSUME NEW T, 0 \in T, \A k \in Nat : k \in T => k + 1 \in T
    PROVE  \A k \in Nat : k \in T
<1> DEFINE U == Nat \ T
<1> SUFFICES ASSUME U # {} PROVE FALSE
  OBVIOUS
<1>1. U \subseteq Nat
  OBVIOUS
<1> HIDE DEF U
<1>2. PICK x \in U : \A y \in U : ~(<<y, x>> \in Less)
  BY <1>1, LessWF, WFMin
<1>3. x \in Nat /\ x \notin T
  BY DEF U
<1>4. x # 0
  BY <1>3
<1>5. x - 1 \in Nat /\ x - 1 < x /\ (x - 1) + 1 = x
  BY <1>3, <1>4
<1>6. x - 1 \notin T
  BY <1>3, <1>5
<1>7. x - 1 \in U
  BY <1>5, <1>6 DEF U
<1>8. <<x - 1, x>> \in Less
  BY <1>3, <1>5, LessIs
<1> QED BY <1>2, <1>7, <1>8

\* Too few bytes for a length.
LEMMA RefShort ==
    ASSUME NEW s \in Seq(Byte), NEW f, NEW i \in Nat, i + LENGTH_SIZE - 1 > Len(s)
    PROVE  RefStep(s, f, i) = [frames |-> <<>>, bad |-> FALSE]
BY DEF RefStep, LENGTH_SIZE

\* A length that is not good.
LEMMA RefBad ==
    ASSUME NEW s \in Seq(Byte), NEW f, NEW i \in Nat, ~(i + LENGTH_SIZE - 1 > Len(s)),
           RefLength(s, i) \notin 1..MAX_MESSAGE_SIZE
    PROVE  RefStep(s, f, i) = [frames |-> <<>>, bad |-> TRUE]
BY DEF RefStep, LENGTH_SIZE

\* Too few bytes for a payload.
LEMMA RefCut ==
    ASSUME NEW s \in Seq(Byte), NEW f, NEW i \in Nat, ~(i + LENGTH_SIZE - 1 > Len(s)),
           RefLength(s, i) \in 1..MAX_MESSAGE_SIZE,
           i + LENGTH_SIZE + RefLength(s, i) - 1 > Len(s)
    PROVE  RefStep(s, f, i) = [frames |-> <<>>, bad |-> FALSE]
BY DEF RefStep, LENGTH_SIZE

\* A frame, and what comes behind it.
LEMMA RefWhole ==
    ASSUME NEW s \in Seq(Byte), NEW f, NEW i \in Nat, ~(i + LENGTH_SIZE - 1 > Len(s)),
           RefLength(s, i) \in 1..MAX_MESSAGE_SIZE,
           NEW last \in Int, last = i + LENGTH_SIZE + RefLength(s, i) - 1, ~(last > Len(s))
    PROVE  RefStep(s, f, i) = [frames |-> <<SubSeq(s, i + LENGTH_SIZE, last)>>
                                          \o f[last + 1].frames,
                               bad    |-> f[last + 1].bad]
BY DEF RefStep, LENGTH_SIZE

\* What is said from byte i on depends on what is said behind byte i only.
LEMMA RefStepAgrees ==
    ASSUME NEW s \in Seq(Byte), NEW f, NEW g, NEW i \in Nat,
           \A j \in (i + 1)..(Len(s) + 1) : f[j] = g[j]
    PROVE  RefStep(s, f, i) = RefStep(s, g, i)
<1>1. CASE i + LENGTH_SIZE - 1 > Len(s)
  BY <1>1 DEF RefStep, LENGTH_SIZE
<1>2. CASE ~(i + LENGTH_SIZE - 1 > Len(s)) /\ RefLength(s, i) \notin 1..MAX_MESSAGE_SIZE
  BY <1>2 DEF RefStep
<1>3. CASE /\ ~(i + LENGTH_SIZE - 1 > Len(s)) /\ RefLength(s, i) \in 1..MAX_MESSAGE_SIZE
           /\ i + LENGTH_SIZE + RefLength(s, i) - 1 > Len(s)
  BY <1>3 DEF RefStep
<1>4. CASE /\ ~(i + LENGTH_SIZE - 1 > Len(s)) /\ RefLength(s, i) \in 1..MAX_MESSAGE_SIZE
           /\ ~(i + LENGTH_SIZE + RefLength(s, i) - 1 > Len(s))
  <2>1. PICK last \in Int : last = i + LENGTH_SIZE + RefLength(s, i) - 1
    BY <1>4, SizesAssumption DEF LENGTH_SIZE
  <2>2. last + 1 \in (i + 1)..(Len(s) + 1)
    BY <1>4, <2>1, SizesAssumption DEF LENGTH_SIZE
  <2>3. /\ RefStep(s, f, i) = [frames |-> <<SubSeq(s, i + LENGTH_SIZE, last)>>
                                          \o f[last + 1].frames,
                               bad    |-> f[last + 1].bad]
        /\ RefStep(s, g, i) = [frames |-> <<SubSeq(s, i + LENGTH_SIZE, last)>>
                                          \o g[last + 1].frames,
                               bad    |-> g[last + 1].bad]
    BY <1>4, <2>1, RefWhole
  <2> QED BY <2>2, <2>3
<1> QED BY <1>1, <1>2, <1>3, <1>4

\* There is a function that recurs as RefFrom does, built from the end of the stream.
LEMMA RefExists ==
    ASSUME NEW s \in Seq(Byte)
    PROVE  \E g : g = [i \in 1..(Len(s) + 1) |-> RefStep(s, g, i)]
<1> DEFINE n == Len(s) + 1
           Down(k) == \E g : /\ g = [i \in 1..n |-> g[i]]
                             /\ \A i \in 1..n : i > n - k => g[i] = RefStep(s, g, i)
           T == {k \in Nat : Down(k)}
<1>1. n \in Nat /\ n = Len(s) + 1
  OBVIOUS
<1> HIDE DEF n
<1>2. 0 \in T
  <2> DEFINE g == [i \in 1..n |-> 0]
  <2>1. g = [i \in 1..n |-> g[i]]
    OBVIOUS
  <2>2. \A i \in 1..n : ~(i > n - 0)
    BY <1>1
  <2> HIDE DEF g
  <2>3. Down(0)
    BY <2>1, <2>2
  <2> QED BY <2>3
<1>3. ASSUME NEW k \in Nat, k \in T PROVE k + 1 \in T
  <2>1. PICK g : /\ g = [i \in 1..n |-> g[i]]
                 /\ \A i \in 1..n : i > n - k => g[i] = RefStep(s, g, i)
    BY <1>3
  <2> DEFINE m == n - k
             h == [i \in 1..n |-> IF i = m THEN RefStep(s, g, i) ELSE g[i]]
  <2>2. h = [i \in 1..n |-> h[i]]
    OBVIOUS
  <2>3. m \in Int /\ m = n - k /\ n - (k + 1) = m - 1
    BY <1>1
  <2>4. \A i \in 1..n : h[i] = IF i = m THEN RefStep(s, g, i) ELSE g[i]
    OBVIOUS
  <2> HIDE DEF h, m
  <2>5. ASSUME NEW i \in 1..n, i > m - 1 PROVE h[i] = RefStep(s, h, i)
    <3>1. i \in Nat /\ i >= m
      BY <1>1, <2>3, <2>5
    <3>2. ASSUME NEW j \in (i + 1)..(Len(s) + 1) PROVE g[j] = h[j]
      <4>1. j \in 1..n /\ j # m
        BY <1>1, <2>3, <3>1
      <4> QED BY <2>4, <4>1
    <3>3. RefStep(s, g, i) = RefStep(s, h, i)
      BY <3>1, <3>2, RefStepAgrees
    <3>4. h[i] = RefStep(s, g, i)
      <4>1. CASE i = m
        BY <2>4, <4>1
      <4>2. CASE i # m
        <5>1. i > n - k
          BY <2>3, <3>1, <4>2
        <5> QED BY <2>1, <2>4, <4>2, <5>1
      <4> QED BY <4>1, <4>2
    <3> QED BY <3>3, <3>4
  <2>6. \A i \in 1..n : i > n - (k + 1) => h[i] = RefStep(s, h, i)
    BY <2>3, <2>5
  <2>7. Down(k + 1)
    BY <2>2, <2>6
  <2>8. k + 1 \in Nat
    OBVIOUS
  <2> HIDE DEF Down
  <2> QED BY <2>7, <2>8
<1>4. n \in T
  <2> HIDE DEF T
  <2> QED BY <1>1, <1>2, <1>3, Induction
<1>5. PICK g : /\ g = [i \in 1..n |-> g[i]]
               /\ \A i \in 1..n : i > n - n => g[i] = RefStep(s, g, i)
  BY <1>4
<1>6. \A i \in 1..n : g[i] = RefStep(s, g, i)
  BY <1>1, <1>5
<1>7. g = [i \in 1..n |-> RefStep(s, g, i)]
  BY <1>5, <1>6
<1> QED BY <1>7 DEF n

\* RefFrom satisfies its own definition.
LEMMA RefFromIs ==
    ASSUME NEW s \in Seq(Byte), NEW i \in 1..(Len(s) + 1)
    PROVE  RefFrom(s)[i] = RefStep(s, RefFrom(s), i)
<1> DEFINE F == CHOOSE f : f = [j \in 1..(Len(s) + 1) |-> RefStep(s, f, j)]
<1>1. F = [j \in 1..(Len(s) + 1) |-> RefStep(s, F, j)]
  BY RefExists
<1>2. RefFrom(s) = F
  BY DEF RefFrom
<1> HIDE DEF F
<1>3. F[i] = RefStep(s, F, i)
  BY <1>1
<1> QED BY <1>2, <1>3

\* Bytes that are behind the first p are a part of the stream.
LEMMA BehindIs ==
    ASSUME NEW s \in Seq(Byte), NEW p \in Nat, NEW b \in Seq(Byte), Behind(s, p, b)
    PROVE  SubSeq(s, p + 1, p + Len(b)) = b
<1>1. p + Len(b) <= Len(s) /\ Len(b) \in Nat
  BY DEF Behind
<1>2. SubSeq(s, p + 1, p + Len(b)) \in Seq(Byte) /\ Len(SubSeq(s, p + 1, p + Len(b))) = Len(b)
  BY <1>1
<1>3. ASSUME NEW j \in 1..Len(b) PROVE SubSeq(s, p + 1, p + Len(b))[j] = b[j]
  <2>1. b[j] = s[p + j]
    BY DEF Behind
  <2>2. SubSeq(s, p + 1, p + Len(b))[j] = s[p + 1 + j - 1]
    BY <1>1
  <2>3. p + 1 + j - 1 = p + j
    BY <1>1
  <2> QED BY <2>1, <2>2, <2>3
<1> QED BY <1>2, <1>3, SeqEqual

\* Where a frame was delivered RefFrom finds it, and goes on behind it.
LEMMA RefFrame ==
    ASSUME NEW s \in Seq(Byte), NEW p \in Nat, NEW d \in Seq(Byte), FrameIn(s, p, d),
           NEW q \in Int, q = p + LENGTH_SIZE + Len(d)
    PROVE  /\ RefFrom(s)[p + 1].frames = <<d>> \o RefFrom(s)[q + 1].frames
           /\ RefFrom(s)[p + 1].bad = RefFrom(s)[q + 1].bad
<1>1. PICK w \in Seq(Byte) : /\ Len(w) = LENGTH_SIZE /\ Behind(s, p, w)
                             /\ GoodLength(Word(w)) /\ Len(d) = Word(w)
                             /\ Behind(s, p + LENGTH_SIZE, d)
  BY DEF FrameIn
<1>2. LENGTH_SIZE = 4 /\ Len(d) \in Nat /\ Len(s) \in Nat
  BY DEF LENGTH_SIZE
<1>3. q <= Len(s)
  BY <1>1 DEF Behind
<1>4. SubSeq(s, p + 1, p + LENGTH_SIZE) = w
  BY <1>1, BehindIs
<1>5. SubSeq(s, p + LENGTH_SIZE + 1, q) = d
  <2>1. p + LENGTH_SIZE \in Nat
    BY <1>2
  <2> QED BY <1>1, <2>1, BehindIs
<1>6. RefLength(s, p + 1) = Len(d)
  <2>1. p + 1 + LENGTH_SIZE - 1 = p + LENGTH_SIZE
    BY <1>2
  <2> QED BY <1>1, <1>4, <2>1 DEF RefLength
<1>7. Len(d) \in 1..MAX_MESSAGE_SIZE
  BY <1>1, <1>2, SizesAssumption DEF GoodLength
<1>8. PICK i \in Nat : i = p + 1
  OBVIOUS
<1>9. /\ i \in 1..(Len(s) + 1) /\ ~(i + LENGTH_SIZE - 1 > Len(s))
      /\ q = i + LENGTH_SIZE + Len(d) - 1 /\ ~(q > Len(s))
      /\ i + LENGTH_SIZE = p + LENGTH_SIZE + 1
  BY <1>2, <1>3, <1>8
<1>10. RefFrom(s)[i] = RefStep(s, RefFrom(s), i)
  BY <1>9, RefFromIs
<1>11. RefStep(s, RefFrom(s), i) = [frames |-> <<SubSeq(s, i + LENGTH_SIZE, q)>>
                                               \o RefFrom(s)[q + 1].frames,
                                    bad    |-> RefFrom(s)[q + 1].bad]
  <2>1. RefLength(s, i) = Len(d)
    BY <1>6, <1>8
  <2>2. RefLength(s, i) \in 1..MAX_MESSAGE_SIZE /\ q = i + LENGTH_SIZE + RefLength(s, i) - 1
    BY <1>7, <1>9, <2>1
  <2> QED BY <1>9, <2>2, RefWhole
<1>12. SubSeq(s, i + LENGTH_SIZE, q) = d
  BY <1>5, <1>9
<1>13. RefFrom(s)[i] = [frames |-> <<d>> \o RefFrom(s)[q + 1].frames,
                        bad    |-> RefFrom(s)[q + 1].bad]
  BY <1>10, <1>11, <1>12, Zenon
<1>14. /\ RefFrom(s)[i].frames = <<d>> \o RefFrom(s)[q + 1].frames
       /\ RefFrom(s)[i].bad = RefFrom(s)[q + 1].bad
  BY <1>13, SMTT(30)
<1> QED BY <1>8, <1>14

\* When the chunk is used up RefFrom finds no frame behind the delivered ones, and
\* a bad length there exactly when the stream was given up.
LEMMA RefRest ==
    ASSUME IInv, LengthKnown, chunk = <<>>, NEW p \in Nat, RestIn(received, p)
    PROVE  /\ RefFrom(received)[p + 1].frames = <<>>
           /\ RefFrom(received)[p + 1].bad = (closed = "error")
<1>1. /\ received \in Seq(Byte) /\ lengthBuf \in Seq(Byte) /\ payloadBuf \in Seq(Byte)
      /\ LENGTH_SIZE = 4 /\ Len(received) \in Nat /\ Len(lengthBuf) \in Nat
      /\ Len(payloadBuf) \in Nat /\ Len(chunk) = 0
  BY DEF IInv, TypeOK, LENGTH_SIZE
<1>2. /\ Behind(received, p, lengthBuf)
      /\ closed # "error" => p + Len(lengthBuf) + Len(payloadBuf) = Len(received)
  BY <1>1 DEF RestIn
<1>3. p + Len(lengthBuf) <= Len(received) /\ p + 1 \in 1..(Len(received) + 1)
  BY <1>1, <1>2 DEF Behind
<1>4. PICK i \in Nat : i = p + 1
  OBVIOUS
<1> DEFINE r == RefStep(received, RefFrom(received), i)
<1>5. RefFrom(received)[p + 1] = r
  BY <1>1, <1>3, <1>4, RefFromIs
<1> SUFFICES r.frames = <<>> /\ r.bad = (closed = "error")
  BY <1>5
<1> HIDE DEF r
<1>6. CASE Len(lengthBuf) # LENGTH_SIZE
  <2>1. closed # "error" /\ state = "READ_LENGTH" /\ Len(payloadBuf) = 0
    BY <1>6 DEF LengthKnown, IInv, TypeOK, InBounds
  <2>2. Len(lengthBuf) < LENGTH_SIZE
    BY <1>1, <2>1 DEF IInv, InBounds
  <2>3. i + LENGTH_SIZE - 1 > Len(received)
    BY <1>1, <1>2, <1>4, <2>1, <2>2
  <2>4. r = [frames |-> <<>>, bad |-> FALSE]
    BY <1>1, <1>3, <2>3, RefShort DEF r
  <2> QED BY <2>1, <2>4
<1>7. ASSUME Len(lengthBuf) = LENGTH_SIZE
      PROVE  /\ ~(i + LENGTH_SIZE - 1 > Len(received))
             /\ RefLength(received, i) = Word(lengthBuf)
  <2>1. SubSeq(received, p + 1, p + Len(lengthBuf)) = lengthBuf
    BY <1>1, <1>2, BehindIs
  <2>2. /\ i + LENGTH_SIZE - 1 = p + Len(lengthBuf) /\ ~(p + Len(lengthBuf) > Len(received))
    BY <1>1, <1>3, <1>7, <1>4
  <2> QED BY <1>4, <2>1, <2>2 DEF RefLength
<1>8. CASE closed = "error"
  <2>1. Len(lengthBuf) = LENGTH_SIZE /\ ~GoodLength(Word(lengthBuf))
    BY <1>8 DEF LengthKnown
  <2>2. Word(lengthBuf) \notin 1..MAX_MESSAGE_SIZE
    BY <2>1, SizesAssumption DEF GoodLength
  <2>3. r = [frames |-> <<>>, bad |-> TRUE]
    BY <1>1, <1>3, <1>7, <2>1, <2>2, RefBad DEF r
  <2> QED BY <1>8, <2>3
<1>9. CASE closed # "error" /\ Len(lengthBuf) = LENGTH_SIZE
  <2>1. state = "READ_PAYLOAD"
    BY <1>1, <1>9 DEF IInv, TypeOK, InBounds
  <2>2. /\ payloadLength = Word(lengthBuf) /\ payloadLength \in 1..MAX_MESSAGE_SIZE
        /\ Len(payloadBuf) < payloadLength
    BY <2>1 DEF LengthKnown, IInv, InBounds
  <2>3. i + LENGTH_SIZE + payloadLength - 1 > Len(received)
    BY <1>1, <1>2, <1>9, <1>4, <2>2, SizesAssumption
  <2>4. r = [frames |-> <<>>, bad |-> FALSE]
    BY <1>1, <1>3, <1>7, <1>9, <2>2, <2>3, RefCut DEF r
  <2> QED BY <1>9, <2>4
<1> QED BY <1>6, <1>8, <1>9

\* The last frames of a row, with one more before them.
LEMMA LastOnes ==
    ASSUME NEW S, NEW s \in Seq(S), NEW m \in 1..Len(s)
    PROVE  <<s[m]>> \o SubSeq(s, m + 1, Len(s)) = SubSeq(s, m, Len(s))
<1>1. /\ m \in 1..(Len(s) + 1) /\ m \in (m - 1)..Len(s) /\ Len(s) \in m..Len(s)
  OBVIOUS
<1>2. SubSeq(s, m, m) \o SubSeq(s, m + 1, Len(s)) = SubSeq(s, m, Len(s))
  BY <1>1, ConcatAdjacentSubSeq, Zenon
<1>3. SubSeq(s, m, m) = <<s[m]>>
  <2> DEFINE a == SubSeq(s, m, m)  b == <<s[m]>>
  <2>1. a \in Seq(S) /\ Len(a) = 1 /\ a[1] = s[m]
    OBVIOUS
  <2>2. b \in Seq(S) /\ Len(b) = 1 /\ b[1] = s[m]
    OBVIOUS
  <2> HIDE DEF a, b
  <2>3. \A j \in 1..Len(a) : a[j] = b[j]
    BY <2>1, <2>2
  <2>4. a = b
    BY <2>1, <2>2, <2>3, SeqEqual
  <2> QED BY <2>4 DEF a, b
<1> QED BY <1>2, <1>3

\* What RefFrom finds behind the first frames is the frames that follow them.
LEMMA RefDelivered ==
    ASSUME IInv, LengthKnown, chunk = <<>>, NEW at, Places(at)
    PROVE  /\ RefFrom(received)[1].frames = delivered
           /\ RefFrom(received)[1].bad = (closed = "error")
<1> DEFINE n == Len(delivered)
           R == RefFrom(received)
           Found(k) == /\ R[at[n + 1 - k] + 1].frames = SubSeq(delivered, n + 1 - k, n)
                       /\ R[at[n + 1 - k] + 1].bad = (closed = "error")
           T == {k \in Nat : k <= n => Found(k)}
<1>1. /\ n \in Nat /\ n = Len(delivered) /\ delivered \in Seq(Seq(Byte))
      /\ received \in Seq(Byte)
  BY DEF IInv, TypeOK
<1>2. /\ at \in [1..(n + 1) -> Nat] /\ at[1] = 0
      /\ \A k \in 1..n : FrameIn(received, at[k], delivered[k])
      /\ \A k \in 1..n : at[k + 1] = at[k] + LENGTH_SIZE + Len(delivered[k])
      /\ RestIn(received, at[n + 1])
  BY DEF Places
<1> HIDE DEF n
<1>3. 0 \in T
  <2>1. at[n + 1] \in Nat /\ n + 1 - 0 = n + 1
    BY <1>1, <1>2
  <2>2. R[at[n + 1] + 1].frames = <<>> /\ R[at[n + 1] + 1].bad = (closed = "error")
    BY <1>2, <2>1, RefRest
  <2>3. SubSeq(delivered, n + 1, n) = <<>>
    BY <1>1
  <2>4. Found(0)
    BY <2>1, <2>2, <2>3
  <2> QED BY <2>4
<1>4. ASSUME NEW k \in Nat, k \in T PROVE k + 1 \in T
  <2> SUFFICES ASSUME k + 1 <= n PROVE Found(k + 1)
    OBVIOUS
  <2> DEFINE m == n - k
  <2>1. /\ m \in 1..n /\ m \in 1..(n + 1) /\ n + 1 - k = m + 1 /\ n + 1 - (k + 1) = m
        /\ k <= n
    BY <1>1
  <2>2. /\ R[at[m + 1] + 1].frames = SubSeq(delivered, m + 1, n)
        /\ R[at[m + 1] + 1].bad = (closed = "error")
    BY <1>4, <2>1
  <2> HIDE DEF m
  <2>3. /\ FrameIn(received, at[m], delivered[m])
        /\ at[m + 1] = at[m] + LENGTH_SIZE + Len(delivered[m])
    BY <1>2, <2>1
  <2>8. at[m] \in Nat
    BY <1>2, <2>1
  <2>9. delivered[m] \in Seq(Byte)
    BY <1>1, <2>1
  <2>4. /\ R[at[m] + 1].frames = <<delivered[m]>> \o R[at[m + 1] + 1].frames
        /\ R[at[m] + 1].bad = R[at[m + 1] + 1].bad
    <3>1. PICK p \in Nat, d \in Seq(Byte) : p = at[m] /\ d = delivered[m]
      BY <2>8, <2>9
    <3>2. PICK q \in Int : q = at[m + 1]
      BY <2>3, <2>8, <2>9 DEF LENGTH_SIZE
    <3>3. FrameIn(received, p, d) /\ q = p + LENGTH_SIZE + Len(d)
      BY <2>3, <3>1, <3>2
    <3> HIDE DEF R
    <3>4. R[p + 1].frames = <<d>> \o R[q + 1].frames /\ R[p + 1].bad = R[q + 1].bad
      BY <1>1, <3>3, RefFrame DEF R
    <3> QED BY <3>1, <3>2, <3>4
  <2>5. <<delivered[m]>> \o SubSeq(delivered, m + 1, n) = SubSeq(delivered, m, n)
    BY <1>1, <2>1, LastOnes
  <2>6. R[at[m] + 1].frames = SubSeq(delivered, m, n)
    BY <2>2, <2>4, <2>5
  <2>7. R[at[m] + 1].bad = (closed = "error")
    BY <2>2, <2>4
  <2> QED BY <2>1, <2>6, <2>7
<1>5. n \in T
  <2> HIDE DEF T
  <2> QED BY <1>1, <1>3, <1>4, Induction
<1>6. Found(n)
  BY <1>1, <1>5
<1>7. n + 1 - n = 1 /\ at[1] + 1 = 1
  BY <1>1, <1>2
<1>8. SubSeq(delivered, 1, n) = delivered
  BY <1>1, SubSeqFull
<1> QED BY <1>6, <1>7, <1>8

\* However a stream is cut into chunks, msgpack_handler_recv is given what RefParse
\* says of the whole of it, and the stream is given up where RefParse finds a bad
\* length.
THEOREM Agrees == Spec => []ParsesStream
<1>1. IInv /\ Framed => ParsesStream
  <2> SUFFICES ASSUME IInv, Framed, chunk = <<>>
               PROVE  /\ delivered = RefParse(received).frames
                      /\ (closed = "error") = RefParse(received).bad
    BY DEF ParsesStream
  <2>1. PICK at : Places(at)
    BY DEF Framed
  <2>2. /\ RefFrom(received)[1].frames = delivered
        /\ RefFrom(received)[1].bad = (closed = "error")
    BY <2>1, RefDelivered DEF Framed
  <2> QED BY <2>2 DEF RefParse
<1> QED BY <1>1, Bounds, Parses, PTL DEF IInv
=============================================================================
