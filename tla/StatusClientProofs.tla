------------------------- MODULE StatusClientProofs -------------------------
(***************************************************************************)
(* Proofs about StatusClient, for any number of processes and requests and *)
(* whatever callbacks do.                                                  *)
(***************************************************************************)
EXTENDS StatusClient, SequenceTheorems, TLAPS

TypeRoot ==
    current \in Procs \cup {None} /\ status \in [Procs -> Statuses] /\ stopped \in BOOLEAN

IInv == TypeRoot /\ OneServer

\* Nothing runs at first.
LEMMA InitIInv == Init => IInv
BY DEF Init, IInv, TypeRoot, OneServer, Statuses

\* The entry of the root is cleared by the one process it stands for, and only
\* an empty entry lets a process start.
LEMMA NextIInv == IInv /\ [Next]_vars => IInv'
<1> SUFFICES ASSUME IInv, [Next]_vars PROVE IInv'
  OBVIOUS
<1> USE ClientAssumption DEF IInv, TypeRoot, OneServer, Statuses
<1>1. ASSUME NEW p \in Procs, Start(p) PROVE IInv'
  <2>1. /\ current = None /\ stopped' = stopped
        /\ status' = [status EXCEPT ![p] = "run"] /\ current' = p
    BY <1>1 DEF Start, history
  <2>2. ASSUME ~stopped, NEW q \in Procs
        PROVE  status[q] \notin {"run", "gone", "exit"}
    BY <2>1, <2>2
  <2>3. TypeRoot'
    BY <2>1
  <2>4. ASSUME ~stopped', NEW q \in Procs, status'[q] \in {"run", "gone", "exit"}
        PROVE  current' = q
    BY <2>1, <2>2, <2>4
  <2> QED BY <2>3, <2>4
<1>2. ASSUME NEW p \in Procs, Send(p) PROVE IInv'
  BY <1>2 DEF Send, NewRequest, history
<1>3. ASSUME NEW p \in Procs, SendFails(p) PROVE IInv'
  BY <1>3 DEF SendFails, NewRequest, history
<1>4. ASSUME NEW p \in Procs, Sentinel(p) PROVE IInv'
  <2>1. /\ status[p] = "exit" /\ stopped' = stopped
        /\ status' = [status EXCEPT ![p] = "reaped"] /\ current' = None
    BY <1>4 DEF Sentinel, history
  <2>2. ASSUME ~stopped, NEW q \in Procs, q # p
        PROVE  status[q] \notin {"run", "gone", "exit"}
    <3>1. current = p
      BY <2>1, <2>2
    <3> QED BY <2>2, <3>1
  <2>3. TypeRoot'
    BY <2>1
  <2>4. ASSUME ~stopped', NEW q \in Procs PROVE status'[q] \notin {"run", "gone", "exit"}
    BY <2>1, <2>2, <2>4
  <2> QED BY <2>3, <2>4
<1>5. ASSUME NEW p \in Procs, Filter(p) \/ Answer(p) \/ Drop(p) PROVE IInv'
  BY <1>5 DEF Filter, Answer, Drop, client, history
<1>6. ASSUME NEW p \in Procs, Die(p) \/ Notice(p) PROVE IInv'
  BY <1>6 DEF Die, Notice, client, history
<1>7. CASE FilterStep
  BY <1>7 DEF FilterStep, Dispatch, DispatchFails, CallbackReturns,
     CallbackSignals, FilterEnds, client, history
<1>8. CASE Stop
  BY <1>8 DEF Stop
<1>9. CASE UNCHANGED vars
  BY <1>9 DEF vars, client, history
<1> QED BY <1>1, <1>2, <1>3, <1>4, <1>5, <1>6, <1>7, <1>8, <1>9
           DEF Next, Lisp, Emacs

\* Until magit-server-stop is called a root has one server at a time, and a
\* server that has not been reaped is the one registered: also when callbacks
\* signal errors, wait, or send requests of their own.
THEOREM AtMostOneServer == Spec => []OneServer
<1>1. IInv => OneServer
  BY DEF IInv
<1>2. IInv /\ [Next]_vars => IInv'
  BY NextIInv
<1> QED BY <1>1, <1>2, InitIInv, PTL DEF Spec

-----------------------------------------------------------------------------
(* Sequences of activations, and the types.                                *)

\* What Emacs has read of a pipe and what it has not.
LEMMA CutLemma ==
    ASSUME NEW S, NEW s \in Seq(S), NEW n \in 0..Len(s)
    PROVE  LET a == SubSeq(s, 1, n)  b == SubSeq(s, n + 1, Len(s))
           IN /\ a \in Seq(S) /\ b \in Seq(S)
              /\ Len(a) = n /\ Len(b) = Len(s) - n
              /\ \A k \in 1..n : a[k] = s[k]
              /\ \A k \in 1..(Len(s) - n) : b[k] = s[n + k]
OBVIOUS

\* The activations of magit-server-filter below the innermost one.
LEMMA PopLemma ==
    ASSUME NEW S, stack \in Seq(S)
    PROVE  /\ Pop \in Seq(S)
           /\ \A k \in 1..Len(Pop) : k \in 1..Len(stack) /\ Pop[k] = stack[k]
           /\ stack # <<>> => /\ Len(stack) >= 1 /\ Len(Pop) = Len(stack) - 1
                              /\ Top \in S
           /\ stack = <<>> => Pop = <<>>
<1>1. CASE stack = <<>>
  BY <1>1 DEF Pop
<1>2. CASE stack # <<>>
  <2>1. Len(stack) \in Nat /\ Len(stack) >= 1 /\ Len(stack) - 1 \in 0..Len(stack)
    BY <1>2
  <2>2. Pop \in Seq(S) /\ Len(Pop) = Len(stack) - 1
    BY <2>1, CutLemma DEF Pop
  <2>3. \A k \in 1..(Len(stack) - 1) : Pop[k] = stack[k]
    BY <2>1, CutLemma DEF Pop
  <2>4. Top \in S
    BY <2>1 DEF Top
  <2> QED BY <1>2, <2>1, <2>2, <2>3, <2>4
<1> QED BY <1>1, <1>2

\* The innermost activation of magit-server-filter moves on.
LEMMA ReplaceTop ==
    ASSUME NEW S, stack \in Seq(S), stack # <<>>, NEW a \in S
    PROVE  LET new == Append(Pop, a)
           IN /\ new \in Seq(S) /\ Len(new) = Len(stack) /\ new[Len(stack)] = a
              /\ \A k \in 1..Len(stack) : k # Len(stack) => new[k] = stack[k]
<1>1. /\ Pop \in Seq(S) /\ Len(Pop) = Len(stack) - 1 /\ Len(stack) \in Nat
      /\ \A k \in 1..Len(Pop) : Pop[k] = stack[k]
  BY PopLemma, LenProperties
<1>2. /\ Append(Pop, a) \in Seq(S) /\ Len(Append(Pop, a)) = Len(Pop) + 1
      /\ \A k \in 1..Len(Pop) : Append(Pop, a)[k] = Pop[k]
      /\ Append(Pop, a)[Len(Pop) + 1] = a
  BY <1>1, AppendProperties
<1> QED BY <1>1, <1>2

\* The alists and the processes have their types at first.
LEMMA InitTypeOK == Init => TypeOK
<1> SUFFICES ASSUME Init PROVE TypeOK
  OBVIOUS
<1>1. <<>> \in Seq(Piece) /\ <<>> \in Seq(Activation)
  BY EmptySeq
<1>2. called \in [Procs -> [Requests -> Nat]]
  BY DEF Init
<1>3. counter \in [Procs -> 0..MaxSends] /\ status \in [Procs -> Statuses]
  BY ClientAssumption DEF Init, Statuses
<1> QED BY <1>1, <1>2, <1>3 DEF Init, TypeOK

\* Each command, filter and sentinel, and each step of a server, keeps them.
LEMMA NextTypeOK == TypeOK /\ [Next]_vars => TypeOK'
<1> SUFFICES ASSUME TypeOK, [Next]_vars PROVE TypeOK'
  OBVIOUS
<1> USE ClientAssumption DEF TypeOK
<1>0. stack \in Seq(Activation) /\ Pop \in Seq(Activation)
  BY PopLemma
<1>1. ASSUME NEW p \in Procs, Start(p) PROVE TypeOK'
  <2>1. <<>> \in Seq(Piece)
    BY EmptySeq
  <2> QED BY <1>1, <2>1 DEF Start, server, history, Statuses
<1>2. ASSUME NEW p \in Procs, NewRequest(p)
      PROVE  /\ counter' \in [Procs -> 0..MaxSends] /\ pending' \in [Procs -> SUBSET Requests]
             /\ counter[p] + 1 \in Requests
  BY <1>2 DEF NewRequest, Requests
<1>3. ASSUME NEW p \in Procs, Send(p) PROVE TypeOK'
  BY <1>2, <1>3 DEF Send, history
<1>4. ASSUME NEW p \in Procs, SendFails(p) PROVE TypeOK'
  <2>1. status' \in [Procs -> Statuses] /\ pipe' \in [Procs -> Seq(Piece)]
    <3>1. <<>> \in Seq(Piece)
      BY EmptySeq
    <3> QED BY <1>4, <3>1, ZenonT(40) DEF SendFails, Statuses
  <2>2. NewRequest(p) /\ stack' = Pop
    BY <1>4 DEF SendFails
  <2> QED BY <1>0, <1>2, <1>4, <2>1, <2>2 DEF SendFails, history
<1>5. CASE Stop
  <2>1. <<>> \in Seq(Piece)
    BY EmptySeq
  <2> QED BY <1>5, <2>1, ZenonT(40) DEF Stop, server, Statuses
<1>6. ASSUME NEW p \in Procs, Sentinel(p) PROVE TypeOK'
  <2>1. <<>> \in Seq(Piece)
    BY EmptySeq
  <2> QED BY <1>6, <2>1 DEF Sentinel, server, history, Statuses
<1>7. ASSUME NEW p \in Procs, Filter(p) PROVE TypeOK'
  <2>1. PICK n \in 1..Len(pipe[p]) :
          /\ stack' = Append(stack, [proc |-> p, calling |-> FALSE,
                                     buffer |-> partial \o SubSeq(pipe[p], 1, n)])
          /\ pipe' = [pipe EXCEPT ![p] = SubSeq(@, n + 1, Len(@))]
    BY <1>7 DEF Filter
  <2>2. pipe[p] \in Seq(Piece) /\ n \in 0..Len(pipe[p])
    BY LenProperties
  <2>3. /\ SubSeq(pipe[p], 1, n) \in Seq(Piece)
        /\ SubSeq(pipe[p], n + 1, Len(pipe[p])) \in Seq(Piece)
    BY <2>2, CutLemma
  <2>4. partial \o SubSeq(pipe[p], 1, n) \in Seq(Piece)
    BY <2>3, ConcatProperties
  <2>5. stack' \in Seq(Activation)
    BY <2>1, <2>4, AppendProperties DEF Activation
  <2> QED BY <1>7, <2>1, <2>3, <2>5 DEF Filter, client, history
<1>8. ASSUME NEW p \in Procs, Answer(p) PROVE TypeOK'
  <2>1. PICK i \in asked[p] : /\ asked' = [asked EXCEPT ![p] = @ \ {i}]
                              /\ pipe' = [pipe EXCEPT ![p] = @ \o Frame(i)]
    BY <1>8 DEF Answer
  <2>2. <<i, 1>> \in Piece /\ <<i, 2>> \in Piece
    BY DEF Piece
  <2>3. Frame(i) \in Seq(Piece)
    BY <2>2 DEF Frame
  <2>4. pipe[p] \o Frame(i) \in Seq(Piece)
    BY <2>3, ConcatProperties
  <2> QED BY <1>8, <2>1, <2>4 DEF Answer, client, history
<1>9. ASSUME NEW p \in Procs, Drop(p) \/ Notice(p) PROVE TypeOK'
  BY <1>9, ZenonT(40) DEF Drop, Notice, client, history, server, Statuses
<1>10. ASSUME NEW p \in Procs, Die(p) PROVE TypeOK'
  <2>1. pipe' \in [Procs -> Seq(Piece)]
    <3>1. CASE UNCHANGED pipe
      BY <3>1
    <3>2. ASSUME NEW i \in asked[p], pipe' = [pipe EXCEPT ![p] = Append(@, <<i, 1>>)]
          PROVE  pipe' \in [Procs -> Seq(Piece)]
      <4>1. <<i, 1>> \in Piece
        BY DEF Piece
      <4>2. Append(pipe[p], <<i, 1>>) \in Seq(Piece)
        BY <4>1, AppendProperties
      <4> QED BY <3>2, <4>2
    <3> QED BY <1>10, <3>1, <3>2 DEF Die
  <2> QED BY <1>10, <2>1 DEF Die, client, history, Statuses
<1>11. CASE Dispatch
  <2>1. Parsing /\ Whole(Top.buffer)
    BY <1>11 DEF Dispatch
  <2> DEFINE p == Top.proc
             i == Top.buffer[1][1]
             rest == SubSeq(Top.buffer, 3, Len(Top.buffer))
  <2>2. /\ i \in pending[p] /\ called' = [called EXCEPT ![p][i] = @ + 1]
        /\ pending' = [pending EXCEPT ![p] = @ \ {i}]
        /\ stack' = Append(Pop, [proc |-> p, calling |-> TRUE, buffer |-> rest])
    BY <1>11 DEF Dispatch
  <2>3. Top \in Activation
    BY <2>1, PopLemma DEF Parsing
  <2>4. p \in Procs /\ Top.buffer \in Seq(Piece) /\ Len(Top.buffer) >= 2
    BY <2>1, <2>3 DEF Activation, Whole
  <2>5. rest \in Seq(Piece)
    <3>1. 2 \in 0..Len(Top.buffer)
      BY <2>4, LenProperties
    <3> QED BY <2>4, <3>1, CutLemma
  <2>6. [proc |-> p, calling |-> TRUE, buffer |-> rest] \in Activation
    BY <2>4, <2>5 DEF Activation
  <2>7. stack' \in Seq(Activation)
    BY <2>2, <2>6, <1>0, AppendProperties
  <2>8. i \in Requests
    BY <2>2, <2>4
  <2>9. called' \in [Procs -> [Requests -> Nat]] /\ pending' \in [Procs -> SUBSET Requests]
    <3>1. called[p] \in [Requests -> Nat] /\ called[p][i] + 1 \in Nat
      BY <2>4, <2>8, SMTT(30)
    <3>2. [called[p] EXCEPT ![i] = @ + 1] \in [Requests -> Nat]
      BY <3>1
    <3> QED BY <2>2, <2>4, <3>2
  <2> QED BY <1>11, <2>7, <2>9 DEF Dispatch, server
<1>12. CASE CallbackReturns
  <2>1. Top \in Activation /\ stack' = Append(Pop, [Top EXCEPT !.calling = FALSE])
    BY <1>12, PopLemma DEF CallbackReturns, InCallback
  <2>2. [Top EXCEPT !.calling = FALSE] \in Activation
    BY <2>1 DEF Activation
  <2>3. stack' \in Seq(Activation)
    BY <2>1, <2>2, <1>0, AppendProperties
  <2> QED BY <1>12, <2>3 DEF CallbackReturns, client, server, history
<1>13. CASE FilterEnds
  <2>1. Top \in Activation
    BY <1>13, PopLemma DEF FilterEnds, Parsing
  <2> QED BY <1>0, <1>13, <2>1 DEF FilterEnds, Activation, server, history
<1>14. CASE DispatchFails \/ CallbackSignals
  BY <1>0, <1>14 DEF DispatchFails, CallbackSignals, client, server, history
<1>15. CASE UNCHANGED vars
  BY <1>15 DEF vars, client, server, history
<1> QED BY <1>1, <1>3, <1>4, <1>5, <1>6, <1>7, <1>8, <1>9, <1>10, <1>11, <1>12,
           <1>13, <1>14, <1>15 DEF Next, Lisp, Emacs, FilterStep

\* The variables of magit-client.el have their types in every use, also when
\* callbacks signal errors or wait and when magit-server-stop is called.
THEOREM TypesHold == Spec => []TypeOK
BY InitTypeOK, NextTypeOK, PTL DEF Spec

-----------------------------------------------------------------------------
(* Second halves of frames: what the callbacks' bookkeeping rests on.      *)

\* The answers that end in s, and that each ends there once.
Seconds(s) == {i \in Requests : \E k \in 1..Len(s) : s[k] = <<i, 2>>}
Once(s) == \A j, k \in 1..Len(s) : s[j] = s[k] /\ s[j][2] = 2 => j = k

\* No longer a place in the stream: it is no frame and cannot become one.
Lost(b) == ~Whole(b) /\ ~Short(b)

\* The chunk that magit-server-filter appends to what was kept.
LEMMA ConcatSeconds ==
    ASSUME NEW s \in Seq(Piece), NEW t \in Seq(Piece)
    PROVE  /\ Seconds(s \o t) = Seconds(s) \cup Seconds(t)
           /\ Once(s) /\ Once(t) /\ Seconds(s) \cap Seconds(t) = {} => Once(s \o t)
<1>1. /\ s \o t \in Seq(Piece) /\ Len(s) \in Nat /\ Len(t) \in Nat
      /\ Len(s \o t) = Len(s) + Len(t)
      /\ \A i \in 1..Len(s) : (s \o t)[i] = s[i]
      /\ \A i \in 1..Len(t) : (s \o t)[Len(s) + i] = t[i]
  OBVIOUS
<1>2. \A k \in 1..Len(s \o t) :
         \/ k \in 1..Len(s)
         \/ k - Len(s) \in 1..Len(t) /\ k = Len(s) + (k - Len(s))
  BY <1>1
<1>3. Seconds(s \o t) \subseteq Seconds(s) \cup Seconds(t)
  <2> SUFFICES ASSUME NEW i \in Requests, NEW k \in 1..Len(s \o t), (s \o t)[k] = <<i, 2>>
               PROVE  i \in Seconds(s) \cup Seconds(t)
    BY DEF Seconds
  <2>1. CASE k \in 1..Len(s)
    BY <1>1, <2>1 DEF Seconds
  <2>2. CASE k - Len(s) \in 1..Len(t) /\ k = Len(s) + (k - Len(s))
    <3>1. t[k - Len(s)] = <<i, 2>>
      BY <1>1, <2>2
    <3> QED BY <2>2, <3>1 DEF Seconds
  <2> QED BY <1>2, <2>1, <2>2
<1>4. Seconds(s) \subseteq Seconds(s \o t)
  <2> SUFFICES ASSUME NEW i \in Requests, NEW k \in 1..Len(s), s[k] = <<i, 2>>
               PROVE  i \in Seconds(s \o t)
    BY DEF Seconds
  <2>1. k \in 1..Len(s \o t) /\ (s \o t)[k] = <<i, 2>>
    BY <1>1
  <2> QED BY <2>1 DEF Seconds
<1>5. Seconds(t) \subseteq Seconds(s \o t)
  <2> SUFFICES ASSUME NEW i \in Requests, NEW k \in 1..Len(t), t[k] = <<i, 2>>
               PROVE  i \in Seconds(s \o t)
    BY DEF Seconds
  <2>1. Len(s) + k \in 1..Len(s \o t) /\ (s \o t)[Len(s) + k] = <<i, 2>>
    BY <1>1
  <2> QED BY <2>1 DEF Seconds
<1>6. ASSUME Once(s), Once(t), Seconds(s) \cap Seconds(t) = {} PROVE Once(s \o t)
  <2> SUFFICES ASSUME NEW j \in 1..Len(s \o t), NEW k \in 1..Len(s \o t),
                      (s \o t)[j] = (s \o t)[k], (s \o t)[j][2] = 2
               PROVE  j = k
    BY DEF Once
  <2>1. CASE j \in 1..Len(s) /\ k \in 1..Len(s)
    BY <1>1, <1>6, <2>1 DEF Once
  <2>2. CASE j - Len(s) \in 1..Len(t) /\ k - Len(s) \in 1..Len(t)
    <3>1. t[j - Len(s)] = (s \o t)[j] /\ t[k - Len(s)] = (s \o t)[k]
      BY <1>1, <2>2
    <3>2. j - Len(s) = k - Len(s)
      BY <1>6, <2>2, <3>1 DEF Once
    <3> QED BY <1>1, <3>2
  <2>3. ASSUME NEW m \in 1..Len(s), NEW n \in 1..Len(t), s[m] = t[n], s[m][2] = 2
        PROVE  FALSE
    <3>1. s[m] \in Piece
      BY LenProperties
    <3>2. PICK i \in Requests : s[m] = <<i, 2>>
      BY <2>3, <3>1 DEF Piece
    <3>3. i \in Seconds(s) /\ i \in Seconds(t)
      BY <2>3, <3>2 DEF Seconds
    <3> QED BY <1>6, <3>3
  <2>4. CASE j \in 1..Len(s) /\ k - Len(s) \in 1..Len(t)
    BY <1>1, <2>3, <2>4
  <2>5. CASE j - Len(s) \in 1..Len(t) /\ k \in 1..Len(s)
    BY <1>1, <2>3, <2>5
  <2> QED BY <1>2, <2>1, <2>2, <2>4, <2>5
<1> QED BY <1>3, <1>4, <1>5, <1>6

\* A chunk and what is left in the pipe share no answer.
LEMMA CutSeconds ==
    ASSUME NEW s \in Seq(Piece), NEW n \in 0..Len(s), Once(s)
    PROVE  LET a == SubSeq(s, 1, n)  b == SubSeq(s, n + 1, Len(s))
           IN /\ Once(a) /\ Once(b)
              /\ Seconds(a) \subseteq Seconds(s) /\ Seconds(b) \subseteq Seconds(s)
              /\ Seconds(a) \cap Seconds(b) = {}
<1> DEFINE a == SubSeq(s, 1, n)  b == SubSeq(s, n + 1, Len(s))
<1>1. /\ a \in Seq(Piece) /\ b \in Seq(Piece) /\ Len(a) = n /\ Len(b) = Len(s) - n
      /\ \A k \in 1..n : a[k] = s[k]
      /\ \A k \in 1..(Len(s) - n) : b[k] = s[n + k]
  BY CutLemma
<1>2. Len(s) \in Nat /\ n \in Nat
  OBVIOUS
<1>3. \A k \in 1..n : k \in 1..Len(s)
  BY <1>2
<1>4. \A k \in 1..(Len(s) - n) : n + k \in 1..Len(s)
  BY <1>2
<1> HIDE DEF a, b
<1>5. Once(a)
  BY <1>1, <1>3 DEF Once
<1>6. Once(b)
  <2> SUFFICES ASSUME NEW j \in 1..Len(b), NEW k \in 1..Len(b), b[j] = b[k], b[j][2] = 2
               PROVE  j = k
    BY DEF Once
  <2>1. n + j \in 1..Len(s) /\ n + k \in 1..Len(s) /\ s[n + j] = b[j] /\ s[n + k] = b[k]
    BY <1>1, <1>4
  <2>2. n + j = n + k
    BY <2>1 DEF Once
  <2> QED BY <1>1, <1>2, <2>2
<1>7. Seconds(a) \subseteq Seconds(s)
  BY <1>1, <1>3 DEF Seconds
<1>8. Seconds(b) \subseteq Seconds(s)
  <2> SUFFICES ASSUME NEW i \in Seconds(b) PROVE i \in Seconds(s)
    OBVIOUS
  <2>1. i \in Requests /\ \E k \in 1..Len(b) : b[k] = <<i, 2>>
    BY DEF Seconds
  <2>2. PICK k \in 1..(Len(s) - n) : s[n + k] = <<i, 2>>
    BY <1>1, <2>1
  <2>3. n + k \in 1..Len(s)
    BY <1>4
  <2> QED
    BY <2>1, <2>2, <2>3 DEF Seconds
<1>9. ASSUME NEW i \in Seconds(a), i \in Seconds(b) PROVE FALSE
  <2>1. PICK j \in 1..n : s[j] = <<i, 2>>
    BY <1>1 DEF Seconds
  <2>2. PICK k \in 1..(Len(s) - n) : s[n + k] = <<i, 2>>
    BY <1>1, <1>9 DEF Seconds
  <2>3. j = n + k
    BY <1>3, <1>4, <2>1, <2>2 DEF Once
  <2> QED BY <1>2, <2>3
<1>10. /\ Once(a) /\ Once(b)
       /\ Seconds(a) \subseteq Seconds(s) /\ Seconds(b) \subseteq Seconds(s)
       /\ Seconds(a) \cap Seconds(b) = {}
  BY <1>5, <1>6, <1>7, <1>8, <1>9
<1> QED BY <1>10 DEF a, b

\* The frame that is dispatched is not in what follows it.
LEMMA AfterFrame ==
    ASSUME NEW b \in Seq(Piece), Whole(b), Once(b)
    PROVE  LET rest == SubSeq(b, 3, Len(b))
           IN /\ b[1][1] \in Requests /\ b[1][1] \in Seconds(b)
              /\ Once(rest) /\ Seconds(rest) \subseteq Seconds(b) \ {b[1][1]}
<1>1. Len(b) \in Nat /\ Len(b) >= 2 /\ b[2] = <<b[1][1], 2>> /\ b[1] \in Piece
  BY LenProperties DEF Whole
<1>2. b[1][1] \in Requests
  BY <1>1 DEF Piece
<1>3. b[1][1] \in Seconds(b)
  BY <1>1, <1>2 DEF Seconds
<1>4. 2 \in 0..Len(b) /\ 2 + 1 = 3
  BY <1>1
<1>5. /\ Once(SubSeq(b, 3, Len(b))) /\ Seconds(SubSeq(b, 3, Len(b))) \subseteq Seconds(b)
      /\ Seconds(SubSeq(b, 1, 2)) \cap Seconds(SubSeq(b, 3, Len(b))) = {}
  BY <1>4, CutSeconds
<1>6. b[1][1] \in Seconds(SubSeq(b, 1, 2))
  <2>1. SubSeq(b, 1, 2)[2] = b[2] /\ Len(SubSeq(b, 1, 2)) = 2
    BY <1>1, <1>4, CutLemma
  <2> QED BY <1>1, <1>2, <2>1 DEF Seconds
<1> QED BY <1>2, <1>3, <1>5, <1>6

\* What was kept has no second half, unless the filter has lost its place.
LEMMA KeptLemma ==
    ASSUME NEW b \in Seq(Piece), NEW c \in Seq(Piece), ~Whole(b), ~Lost(b \o c)
    PROVE  Once(b) /\ Seconds(b) = {}
<1>1. /\ b \o c \in Seq(Piece) /\ Len(b) \in Nat /\ Len(c) \in Nat
      /\ Len(b \o c) = Len(b) + Len(c)
      /\ \A i \in 1..Len(b) : (b \o c)[i] = b[i]
  OBVIOUS
<1>2. CASE Len(b) = 0
  BY <1>2 DEF Once, Seconds
<1>3. CASE Len(b) = 1
  <2>1. (b \o c)[1] = b[1] /\ b \o c # <<>>
    BY <1>1, <1>3
  <2>2. b[1][2] = 1
    BY <2>1 DEF Lost, Whole, Short
  <2> QED BY <1>3, <2>2 DEF Once, Seconds
<1>4. CASE Len(b) >= 2
  <2>1. (b \o c)[1] = b[1] /\ (b \o c)[2] = b[2] /\ Len(b \o c) >= 2
    BY <1>1, <1>4
  <2>2. ~Whole(b \o c)
    BY <1>4, <2>1 DEF Whole
  <2>3. ~Short(b \o c)
    BY <2>1 DEF Short
  <2> QED BY <2>2, <2>3 DEF Lost
<1>5. \A n \in Nat : n = 0 \/ n = 1 \/ n >= 2
  OBVIOUS
<1>6. Len(b) = 0 \/ Len(b) = 1 \/ Len(b) >= 2
  BY <1>1, <1>5, Zenon
<1> QED BY <1>2, <1>3, <1>4, <1>6, Zenon

-----------------------------------------------------------------------------
(* Requests that are open, and their answers on the way.                   *)

\* Requests of p whose answer is on its way, being parsed, or never to come.
Open(p) == pending[p] \ asked[p]

Buf(k) == stack[k].buffer
Of(k) == stack[k].proc

\* request-counter bounds the ids in pending-callbacks.
Counted ==
    \A p \in Procs : asked[p] \subseteq pending[p] /\ pending[p] \subseteq 1..counter[p]

\* Each answer in a pipe is to an open request, and is there once.
PipeOpen == \A p \in Procs : Once(pipe[p]) /\ Seconds(pipe[p]) \subseteq Open(p)

\* So is each answer that an activation of magit-server-filter holds, unless the
\* activation has lost its place; and it is in the pipe no longer.
ReadOpen ==
    \A k \in 1..Len(stack) : ~Lost(Buf(k)) =>
        /\ Once(Buf(k)) /\ Seconds(Buf(k)) \subseteq Open(Of(k))
        /\ Seconds(Buf(k)) \cap Seconds(pipe[Of(k)]) = {}

\* Two activations for one process hold different answers.
ReadApart ==
    \A k, l \in 1..Len(stack) :
        k # l /\ Of(k) = Of(l) /\ ~Lost(Buf(k)) /\ ~Lost(Buf(l))
            => Seconds(Buf(k)) \cap Seconds(Buf(l)) = {}

\* The callback of a request is called at most once, and no longer pending then.
CalledOnce ==
    \A p \in Procs, i \in Requests :
        /\ called[p][i] <= 1
        /\ called[p][i] = 1 => i <= counter[p] /\ i \notin pending[p]

AnswerInv ==
    /\ TypeOK /\ Counted /\ ~Whole(partial)
    /\ PipeOpen /\ ReadOpen /\ ReadApart /\ CalledOnce

\* Activations of magit-server-filter end or stay as they are, and no answer
\* is written.
LEMMA ReadsStay ==
    ASSUME stack \in Seq(Activation), ReadOpen, ReadApart,
           \A k \in 1..Len(stack') :
              k \in 1..Len(stack) /\ Buf(k)' = Buf(k) /\ Of(k)' = Of(k),
           \A p \in Procs : /\ Open(p) \subseteq Open(p)'
                            /\ Seconds(pipe'[p]) \subseteq Seconds(pipe[p])
    PROVE  ReadOpen' /\ ReadApart'
<1>1. \A k \in 1..Len(stack) : Of(k) \in Procs
  <2>1. \A k \in 1..Len(stack) : stack[k] \in Activation
    OBVIOUS
  <2> QED BY <2>1 DEF Of, Activation
<1>2. ReadOpen'
  <2> SUFFICES ASSUME NEW k \in 1..Len(stack'), ~Lost(Buf(k)')
               PROVE  /\ Once(Buf(k)') /\ Seconds(Buf(k)') \subseteq Open(Of(k))'
                      /\ Seconds(Buf(k)') \cap Seconds(pipe'[Of(k)']) = {}
    BY DEF ReadOpen
  <2>1. /\ Once(Buf(k)) /\ Seconds(Buf(k)) \subseteq Open(Of(k)) /\ Of(k) \in Procs
        /\ Seconds(Buf(k)) \cap Seconds(pipe[Of(k)]) = {}
    BY <1>1 DEF ReadOpen
  <2>2. Open(Of(k)) \subseteq Open(Of(k))'
    BY <2>1 DEF Open
  <2> QED BY <2>1, <2>2
<1>3. ReadApart'
  BY DEF ReadApart
<1> QED BY <1>2, <1>3

\* Nothing is asked, written or read at first.
LEMMA InitAnswerInv == Init => AnswerInv
<1> SUFFICES ASSUME Init PROVE AnswerInv
  OBVIOUS
<1>1. TypeOK
  BY InitTypeOK
<1>2. Counted /\ CalledOnce
  BY DEF Init, Counted, CalledOnce
<1>3. partial = <<>> /\ stack = <<>> /\ \A p \in Procs : pipe[p] = <<>>
  BY DEF Init
<1>4. ~Whole(<<>>) /\ Once(<<>>) /\ Seconds(<<>>) = {}
  BY DEF Whole, Once, Seconds
<1> QED BY <1>1, <1>2, <1>3, <1>4 DEF AnswerInv, PipeOpen, ReadOpen, ReadApart

\* Steps that start, end or stop something, but carry no answer: commands,
\* sentinels, the death of a server, errors, the end of a filter.
LEMMA QuietStep ==
    ASSUME AnswerInv, TypeOK', Counted', ~Whole(partial'), CalledOnce',
           \A k \in 1..Len(stack') :
              k \in 1..Len(stack) /\ Buf(k)' = Buf(k) /\ Of(k)' = Of(k),
           \A p \in Procs : /\ Open(p) \subseteq Open(p)'
                            /\ Once(pipe'[p]) /\ Seconds(pipe'[p]) \subseteq Seconds(pipe[p])
    PROVE  AnswerInv'
<1>1. PipeOpen'
  BY DEF AnswerInv, PipeOpen
<1>2. ReadOpen' /\ ReadApart'
  BY ReadsStay DEF AnswerInv, TypeOK
<1> QED BY <1>1, <1>2 DEF AnswerInv

\* Removing the innermost activation leaves the others as they were.
LEMMA PopKeeps ==
    ASSUME stack \in Seq(Activation), stack' = Pop
    PROVE  \A k \in 1..Len(stack') :
              k \in 1..Len(stack) /\ Buf(k)' = Buf(k) /\ Of(k)' = Of(k)
BY PopLemma DEF Buf, Of

\* A request is registered before it is sent, under a new id.
LEMMA NewRequestLemma ==
    ASSUME AnswerInv, NEW p \in Procs, NewRequest(p), called' = called,
           asked' = asked \/ asked' = [asked EXCEPT ![p] = @ \cup {counter[p] + 1}]
    PROVE  /\ Counted' /\ CalledOnce' /\ \A q \in Procs : Open(q) \subseteq Open(q)'
<1> USE DEF AnswerInv, TypeOK
<1>1. /\ counter' = [counter EXCEPT ![p] = @ + 1]
      /\ pending' = [pending EXCEPT ![p] = @ \cup {counter[p] + 1}]
      /\ counter[p] \in Nat
  BY ClientAssumption DEF NewRequest
<1>2. counter[p] + 1 \notin pending[p] /\ 1..counter[p] \subseteq 1..(counter[p] + 1)
  BY <1>1 DEF Counted
<1>3. Counted'
  BY <1>1, <1>2 DEF Counted
<1>4. CalledOnce'
  <2> SUFFICES ASSUME NEW q \in Procs, NEW i \in Requests
               PROVE  /\ called[q][i] <= 1
                      /\ called[q][i] = 1 => i <= counter'[q] /\ i \notin pending'[q]
    BY DEF CalledOnce
  <2>1. /\ called[q][i] <= 1
        /\ called[q][i] = 1 => i <= counter[q] /\ i \notin pending[q]
    BY DEF CalledOnce
  <2>2. i \in Nat /\ counter[q] \in Nat
    BY ClientAssumption DEF Requests
  <2> QED BY <1>1, <2>1, <2>2
<1>5. ASSUME NEW q \in Procs PROVE Open(q) \subseteq Open(q)'
  BY <1>1, <1>2 DEF Open
<1> QED BY <1>3, <1>4, <1>5

\* A request is sent, or the pipe to its server is broken.
LEMMA SendStep ==
    ASSUME AnswerInv, TypeOK', NEW p \in Procs, Send(p) \/ SendFails(p)
    PROVE  AnswerInv'
<1>1. /\ Counted' /\ CalledOnce' /\ \A q \in Procs : Open(q) \subseteq Open(q)'
  BY NewRequestLemma DEF Send, SendFails, history
<1>2. ~Whole(partial')
  BY DEF Send, SendFails, AnswerInv
<1>3. \A q \in Procs : Once(pipe'[q]) /\ Seconds(pipe'[q]) \subseteq Seconds(pipe[q])
  <2>1. Once(<<>>) /\ Seconds(<<>>) = {}
    BY DEF Once, Seconds
  <2>2. \A q \in Procs : pipe'[q] = pipe[q] \/ pipe'[q] = <<>>
    BY DEF Send, SendFails, AnswerInv, TypeOK
  <2> QED BY <2>1, <2>2 DEF AnswerInv, PipeOpen
<1>4. \A k \in 1..Len(stack') :
         k \in 1..Len(stack) /\ Buf(k)' = Buf(k) /\ Of(k)' = Of(k)
  <2>1. CASE Send(p)
    BY <2>1 DEF Send, Buf, Of
  <2>2. CASE SendFails(p)
    BY <2>2, PopKeeps DEF SendFails, AnswerInv, TypeOK
  <2> QED BY <2>1, <2>2
<1> QED BY <1>1, <1>2, <1>3, <1>4, QuietStep

\* Emacs reads a chunk: what it holds leaves the pipe.
LEMMA FilterStarts ==
    ASSUME AnswerInv, TypeOK', NEW p \in Procs, Filter(p) PROVE AnswerInv'
<1> USE DEF AnswerInv, TypeOK
<1>1. PICK n \in 1..Len(pipe[p]) :
         /\ stack' = Append(stack, [proc |-> p, calling |-> FALSE,
                                    buffer |-> partial \o SubSeq(pipe[p], 1, n)])
         /\ pipe' = [pipe EXCEPT ![p] = SubSeq(@, n + 1, Len(@))]
  BY DEF Filter
<1> DEFINE chunk == SubSeq(pipe[p], 1, n)
           rest == SubSeq(pipe[p], n + 1, Len(pipe[p]))
           b == partial \o chunk
<1>2. pipe[p] \in Seq(Piece) /\ Once(pipe[p]) /\ n \in 0..Len(pipe[p]) /\ stack \in Seq(Activation)
  BY DEF PipeOpen
<1>3. /\ Once(chunk) /\ Once(rest) /\ Seconds(chunk) \subseteq Seconds(pipe[p])
      /\ Seconds(rest) \subseteq Seconds(pipe[p]) /\ Seconds(chunk) \cap Seconds(rest) = {}
  BY <1>2, CutSeconds
<1>4. chunk \in Seq(Piece) /\ b \in Seq(Piece)
  BY <1>2, CutLemma, ConcatProperties
<1>5. ~Lost(b) => Once(b) /\ Seconds(b) = Seconds(chunk)
  BY <1>3, <1>4, KeptLemma, ConcatSeconds, ZenonT(40)
<1>6. /\ Len(stack) \in Nat /\ Len(stack') = Len(stack) + 1
      /\ \A k \in 1..Len(stack) : Buf(k)' = Buf(k) /\ Of(k)' = Of(k) /\ Of(k) \in Procs
      /\ \A k \in 1..Len(stack') : k = Len(stack) + 1 => Buf(k)' = b /\ Of(k)' = p
  <2>1. [proc |-> p, calling |-> FALSE, buffer |-> b] \in Activation
    BY <1>4 DEF Activation
  <2>2. \A k \in 1..Len(stack) : stack[k].proc \in Procs
    <3>1. \A k \in 1..Len(stack) : stack[k] \in Activation
      BY <1>2
    <3> QED BY <3>1 DEF Activation
  <2> HIDE DEF b
  <2>3. /\ Len(stack) \in Nat /\ Len(stack') = Len(stack) + 1
        /\ \A k \in 1..Len(stack) : stack'[k] = stack[k]
        /\ stack'[Len(stack) + 1] = [proc |-> p, calling |-> FALSE, buffer |-> b]
    BY <1>1, <1>2, <2>1, AppendProperties DEF b
  <2>4. \A k \in 1..Len(stack) : Buf(k)' = Buf(k) /\ Of(k)' = Of(k) /\ Of(k) \in Procs
    BY <2>2, <2>3 DEF Buf, Of
  <2>5. \A k \in 1..Len(stack') : k = Len(stack) + 1 => Buf(k)' = b /\ Of(k)' = p
    BY <2>3 DEF Buf, Of
  <2> QED BY <2>3, <2>4, <2>5
<1>7. UNCHANGED <<partial, counter, pending, asked, called>>
  BY DEF Filter, client, history
<1>8. \A q \in Procs : Open(q)' = Open(q)
  BY <1>7 DEF Open
<1>9. \A q \in Procs : /\ pipe'[q] = IF q = p THEN rest ELSE pipe[q]
                       /\ Seconds(pipe'[q]) \subseteq Seconds(pipe[q])
  BY <1>1, <1>3
<1>10. Counted' /\ CalledOnce' /\ ~Whole(partial')
  BY <1>7 DEF Counted, CalledOnce
<1>11. PipeOpen'
  BY <1>3, <1>8, <1>9, ZenonT(40) DEF PipeOpen
<1>12. \A k \in 1..Len(stack') : k \in 1..Len(stack) \/ k = Len(stack) + 1
  BY <1>6
<1> HIDE DEF b, chunk, rest
<1>13. Seconds(chunk) \subseteq Open(p)
  BY <1>3 DEF PipeOpen
<1>14. ReadOpen'
  <2> SUFFICES ASSUME NEW k \in 1..Len(stack'), ~Lost(Buf(k)')
               PROVE  /\ Once(Buf(k)') /\ Seconds(Buf(k)') \subseteq Open(Of(k))'
                      /\ Seconds(Buf(k)') \cap Seconds(pipe'[Of(k)']) = {}
    BY DEF ReadOpen
  <2>1. CASE k \in 1..Len(stack)
    <3>1. /\ Once(Buf(k)) /\ Seconds(Buf(k)) \subseteq Open(Of(k)) /\ Of(k) \in Procs
          /\ Seconds(Buf(k)) \cap Seconds(pipe[Of(k)]) = {}
      BY <1>6, <2>1 DEF ReadOpen
    <3>2. Open(Of(k))' = Open(Of(k))
      BY <1>6, <1>7, <2>1 DEF Open
    <3> QED BY <1>6, <1>9, <2>1, <3>1, <3>2
  <2>2. CASE k = Len(stack) + 1
    <3>1. Buf(k)' = b /\ Of(k)' = p /\ ~Lost(b)
      BY <1>6, <2>2
    <3>2. Open(Of(k))' = Open(p)
      BY <1>7, <3>1 DEF Open
    <3> QED BY <1>3, <1>5, <1>9, <1>13, <3>1, <3>2
  <2> QED BY <1>12, <2>1, <2>2
<1>15. ReadApart'
  <2>1. ASSUME NEW k \in 1..Len(stack), Of(k) = p, ~Lost(Buf(k)), ~Lost(b)
        PROVE  Seconds(Buf(k)) \cap Seconds(b) = {}
    BY <1>3, <1>5, <2>1 DEF ReadOpen
  <2> SUFFICES ASSUME NEW k \in 1..Len(stack'), NEW l \in 1..Len(stack'), k # l,
                      Of(k)' = Of(l)', ~Lost(Buf(k)'), ~Lost(Buf(l)')
               PROVE  Seconds(Buf(k)') \cap Seconds(Buf(l)') = {}
    BY DEF ReadApart
  <2>2. CASE k \in 1..Len(stack) /\ l \in 1..Len(stack)
    BY <1>6, <2>2 DEF ReadApart
  <2>3. CASE k \in 1..Len(stack) /\ l = Len(stack) + 1
    BY <1>6, <2>1, <2>3
  <2>4. CASE k = Len(stack) + 1 /\ l \in 1..Len(stack)
    BY <1>6, <2>1, <2>4
  <2> QED BY <1>12, <2>2, <2>3, <2>4
<1> QED BY <1>10, <1>11, <1>14, <1>15

\* A server answers: the request is open from now on, and its answer in the pipe.
LEMMA AnswerStep ==
    ASSUME AnswerInv, TypeOK', NEW p \in Procs, Answer(p) PROVE AnswerInv'
<1>0. Counted /\ PipeOpen /\ ReadOpen /\ ReadApart /\ CalledOnce /\ ~Whole(partial)
  BY DEF AnswerInv
<1>t. /\ asked \in [Procs -> SUBSET Requests] /\ pipe \in [Procs -> Seq(Piece)]
      /\ pending \in [Procs -> SUBSET Requests] /\ stack \in Seq(Activation)
  BY DEF AnswerInv, TypeOK
<1>1. PICK i \in asked[p] : /\ asked' = [asked EXCEPT ![p] = @ \ {i}]
                           /\ pipe' = [pipe EXCEPT ![p] = @ \o Frame(i)]
  BY DEF Answer
<1>2. UNCHANGED <<partial, counter, pending, stack, called>>
  BY DEF Answer, client, history
<1>3. i \in Requests /\ i \in pending[p] /\ i \notin Open(p)
  BY <1>0, <1>t DEF Counted, Open
<1>4. /\ Frame(i) \in Seq(Piece) /\ Once(Frame(i)) /\ Seconds(Frame(i)) = {i}
  <2>1. <<i, 1>> \in Piece /\ <<i, 2>> \in Piece
    BY <1>3 DEF Piece
  <2>2. /\ Frame(i) \in Seq(Piece) /\ Len(Frame(i)) = 2
        /\ Frame(i)[1] = <<i, 1>> /\ Frame(i)[2] = <<i, 2>>
    BY <2>1 DEF Frame
  <2>3. \A k \in 1..2 : k = 1 \/ k = 2
    OBVIOUS
  <2>4. \A k \in 1..2 : Frame(i)[k][2] = 2 => k = 2
    BY <2>2, <2>3
  <2>5. Once(Frame(i))
    BY <2>2, <2>4 DEF Once
  <2>6. Seconds(Frame(i)) \subseteq {i}
    <3> SUFFICES ASSUME NEW j \in Requests, NEW k \in 1..2, Frame(i)[k] = <<j, 2>>
                 PROVE  j = i
      BY <2>2 DEF Seconds
    <3>1. k = 2
      BY <2>4
    <3> QED BY <2>2, <3>1
  <2>7. i \in Seconds(Frame(i))
    BY <1>3, <2>2 DEF Seconds
  <2> QED BY <2>2, <2>5, <2>6, <2>7
<1>5. \A q \in Procs : Open(q)' = IF q = p THEN Open(p) \cup {i} ELSE Open(q)
  BY <1>1, <1>2, <1>3, <1>t DEF Open
<1>6. Once(pipe[p]) /\ Seconds(pipe[p]) \subseteq Open(p) /\ pipe[p] \in Seq(Piece)
  BY <1>0, <1>t DEF PipeOpen
<1>7. Once(pipe[p] \o Frame(i)) /\ Seconds(pipe[p] \o Frame(i)) = Seconds(pipe[p]) \cup {i}
  <2>1. Seconds(pipe[p]) \cap Seconds(Frame(i)) = {}
    BY <1>3, <1>4, <1>6
  <2> QED BY <1>4, <1>6, <2>1, ConcatSeconds
<1>8. \A q \in Procs : pipe'[q] = IF q = p THEN pipe[p] \o Frame(i) ELSE pipe[q]
  BY <1>1, <1>t
<1>9. PipeOpen'
  <2> SUFFICES ASSUME NEW q \in Procs
               PROVE  Once(pipe'[q]) /\ Seconds(pipe'[q]) \subseteq Open(q)'
    BY DEF PipeOpen
  <2>1. CASE q = p
    BY <1>5, <1>6, <1>7, <1>8, <2>1
  <2>2. CASE q # p
    BY <1>0, <1>5, <1>8, <2>2 DEF PipeOpen
  <2> QED BY <2>1, <2>2
<1>10. Counted' /\ CalledOnce' /\ ~Whole(partial')
  BY <1>0, <1>1, <1>2, <1>t DEF Counted, CalledOnce
<1>11. \A k : Buf(k)' = Buf(k) /\ Of(k)' = Of(k)
  BY <1>2 DEF Buf, Of
<1>12. \A k \in 1..Len(stack) : Of(k) \in Procs
  <2>1. \A k \in 1..Len(stack) : stack[k] \in Activation
    BY <1>t
  <2> QED BY <2>1 DEF Of, Activation
<1>13. ReadOpen'
  <2> SUFFICES ASSUME NEW k \in 1..Len(stack), ~Lost(Buf(k))
               PROVE  /\ Once(Buf(k)) /\ Seconds(Buf(k)) \subseteq Open(Of(k))'
                      /\ Seconds(Buf(k)) \cap Seconds(pipe'[Of(k)]) = {}
    BY <1>2, <1>11 DEF ReadOpen
  <2>1. /\ Once(Buf(k)) /\ Seconds(Buf(k)) \subseteq Open(Of(k)) /\ Of(k) \in Procs
        /\ Seconds(Buf(k)) \cap Seconds(pipe[Of(k)]) = {}
    BY <1>0, <1>12 DEF ReadOpen
  <2>2. PICK q \in Procs : q = Of(k)
    BY <2>1
  <2>3. Open(Of(k))' = Open(q)'
    BY <1>11, <2>2 DEF Open
  <2>4. CASE q = p
    <3>1. i \notin Seconds(Buf(k)) /\ Seconds(pipe'[q]) = Seconds(pipe[q]) \cup {i}
      BY <1>3, <1>7, <1>8, <2>1, <2>2, <2>4
    <3>2. Open(q)' = Open(q) \cup {i}
      BY <1>5, <2>4
    <3> QED BY <2>1, <2>2, <2>3, <3>1, <3>2
  <2>5. CASE q # p
    <3>1. Open(q)' = Open(q) /\ pipe'[q] = pipe[q]
      BY <1>5, <1>8, <2>5
    <3> QED BY <2>1, <2>2, <2>3, <3>1
  <2> QED BY <2>4, <2>5
<1>14. ReadApart'
  BY <1>0, <1>2, <1>11 DEF ReadApart
<1> QED BY <1>9, <1>10, <1>13, <1>14 DEF AnswerInv

\* magit-server-filter takes a frame: its callback is pending, and no other
\* answer to the request is held or on its way.
LEMMA DispatchStep ==
    ASSUME AnswerInv, TypeOK', Dispatch PROVE AnswerInv'
<1>0. Counted /\ PipeOpen /\ ReadOpen /\ ReadApart /\ CalledOnce /\ ~Whole(partial)
  BY DEF AnswerInv
<1>t. /\ asked \in [Procs -> SUBSET Requests] /\ pipe \in [Procs -> Seq(Piece)]
      /\ pending \in [Procs -> SUBSET Requests] /\ stack \in Seq(Activation)
      /\ counter \in [Procs -> 0..MaxSends] /\ called \in [Procs -> [Requests -> Nat]]
  BY DEF AnswerInv, TypeOK
<1> DEFINE p == Top.proc
           i == Top.buffer[1][1]
           rest == SubSeq(Top.buffer, 3, Len(Top.buffer))
           a == [proc |-> p, calling |-> TRUE, buffer |-> rest]
<1>1. /\ stack # <<>> /\ Whole(Top.buffer) /\ i \in pending[p]
      /\ called' = [called EXCEPT ![p][i] = @ + 1]
      /\ pending' = [pending EXCEPT ![p] = @ \ {i}]
      /\ stack' = Append(Pop, a)
      /\ UNCHANGED <<partial, counter, asked, pipe>>
  BY DEF Dispatch, Parsing, server
<1>2. stack \in Seq(Activation) /\ Top \in Activation /\ Len(stack) \in Nat /\ Len(stack) >= 1
  BY <1>1, <1>t, PopLemma
<1>3. p \in Procs /\ Top.buffer \in Seq(Piece) /\ ~Lost(Top.buffer)
  BY <1>1, <1>2 DEF Activation, Lost
<1>4. /\ Once(Top.buffer) /\ Seconds(Top.buffer) \subseteq Open(p)
      /\ Seconds(Top.buffer) \cap Seconds(pipe[p]) = {}
  <2>1. Len(stack) \in 1..Len(stack) /\ Buf(Len(stack)) = Top.buffer /\ Of(Len(stack)) = p
    BY <1>2 DEF Top, Buf, Of
  <2> QED BY <1>0, <1>3, <2>1 DEF ReadOpen
<1>5. /\ i \in Requests /\ i \in Seconds(Top.buffer)
      /\ Once(rest) /\ Seconds(rest) \subseteq Seconds(Top.buffer) \ {i}
  BY <1>1, <1>3, <1>4, AfterFrame
<1>6. a \in Activation
  <2>1. 2 \in 0..Len(Top.buffer) /\ 2 + 1 = 3
    BY <1>1, <1>3 DEF Whole
  <2>2. rest \in Seq(Piece)
    BY <1>3, <2>1, CutLemma
  <2> QED BY <1>3, <2>2 DEF Activation
<1>7. /\ Len(stack') = Len(stack) /\ stack'[Len(stack)] = a
      /\ \A k \in 1..Len(stack) : k # Len(stack) => stack'[k] = stack[k]
  <2> HIDE DEF a
  <2> QED BY <1>1, <1>2, <1>6, ReplaceTop
<1>8. \A k \in 1..Len(stack) :
         /\ k # Len(stack) => Buf(k)' = Buf(k) /\ Of(k)' = Of(k)
         /\ k = Len(stack) => Buf(k)' = rest /\ Of(k)' = p
  BY <1>7 DEF Buf, Of
<1>9. \A k \in 1..Len(stack) : Of(k) \in Procs
  <2>1. \A k \in 1..Len(stack) : stack[k] \in Activation
    BY <1>2
  <2> QED BY <2>1 DEF Of, Activation
<1> HIDE DEF p, i, rest, a
<1>10. \A q \in Procs : Open(q)' = IF q = p THEN Open(p) \ {i} ELSE Open(q)
  BY <1>1, <1>3, <1>t DEF Open
<1>11. Counted'
  <2>1. i \notin asked[p]
    BY <1>4, <1>5 DEF Open
  <2> QED BY <1>0, <1>1, <1>3, <1>t, <2>1 DEF Counted
<1>12. CalledOnce'
  <2> SUFFICES ASSUME NEW q \in Procs, NEW j \in Requests
               PROVE  /\ called'[q][j] <= 1
                      /\ called'[q][j] = 1 => j <= counter[q] /\ j \notin pending'[q]
    BY <1>1 DEF CalledOnce
  <2>1. /\ called[q][j] \in Nat /\ called[q][j] <= 1 /\ j \in Nat
        /\ called[q][j] = 1 => j <= counter[q] /\ j \notin pending[q]
    <3>1. called[q] \in [Requests -> Nat]
      BY <1>t
    <3>2. called[q][j] \in Nat /\ j \in Nat
      BY <3>1, ClientAssumption DEF Requests
    <3> QED BY <1>0, <3>2 DEF CalledOnce
  <2>2. CASE q = p /\ j = i
    <3>1. i \in pending[p] /\ pending[p] \subseteq 1..counter[p] /\ counter[p] \in Nat
      BY <1>0, <1>1, <1>3, <1>t, ClientAssumption DEF Counted
    <3>2. called[q][j] = 0
      <4>1. called[q][j] # 1
        BY <2>1, <2>2, <3>1
      <4> QED BY <2>1, <4>1
    <3>3. called'[q][j] = called[q][j] + 1
      BY <1>1, <1>3, <1>5, <1>t, <2>2
    <3>4. j <= counter[q] /\ j \notin pending'[q]
      BY <1>1, <1>3, <1>t, <2>1, <2>2, <3>1
    <3> QED BY <3>2, <3>3, <3>4
  <2>3. CASE ~(q = p /\ j = i)
    <3>1. called'[q][j] = called[q][j]
      BY <1>1, <1>3, <1>5, <1>t, <2>3
    <3>2. pending'[q] \subseteq pending[q]
      BY <1>1, <1>3, <1>t
    <3> QED BY <2>1, <3>1, <3>2
  <2> QED BY <2>2, <2>3
<1>13. i \in Open(p) /\ i \notin Seconds(pipe[p])
  BY <1>4, <1>5
<1>14. PipeOpen'
  <2> SUFFICES ASSUME NEW q \in Procs
               PROVE  Once(pipe[q]) /\ Seconds(pipe[q]) \subseteq Open(q)'
    BY <1>1 DEF PipeOpen
  <2>1. Once(pipe[q]) /\ Seconds(pipe[q]) \subseteq Open(q)
    BY <1>0 DEF PipeOpen
  <2> QED BY <1>10, <1>13, <2>1
<1>15. \A k \in 1..Len(stack) : k # Len(stack) /\ Of(k) = p /\ ~Lost(Buf(k))
          => Seconds(Buf(k)) \cap Seconds(Top.buffer) = {}
  <2>1. Buf(Len(stack)) = Top.buffer /\ Of(Len(stack)) = p /\ Len(stack) \in 1..Len(stack)
    BY <1>2 DEF Buf, Of, Top, p
  <2> QED BY <1>0, <1>3, <2>1 DEF ReadApart
<1>16. ReadOpen'
  <2> SUFFICES ASSUME NEW k \in 1..Len(stack), ~Lost(Buf(k)')
               PROVE  /\ Once(Buf(k)') /\ Seconds(Buf(k)') \subseteq Open(Of(k))'
                      /\ Seconds(Buf(k)') \cap Seconds(pipe[Of(k)']) = {}
    BY <1>1, <1>7 DEF ReadOpen
  <2>1. CASE k # Len(stack)
    <3>1. Buf(k)' = Buf(k) /\ Of(k)' = Of(k) /\ Of(k) \in Procs
      BY <1>8, <1>9, <2>1
    <3>2. /\ Once(Buf(k)) /\ Seconds(Buf(k)) \subseteq Open(Of(k))
          /\ Seconds(Buf(k)) \cap Seconds(pipe[Of(k)]) = {}
      BY <1>0, <3>1 DEF ReadOpen
    <3>3. PICK q \in Procs : q = Of(k)
      BY <3>1
    <3>4. Open(Of(k))' = Open(q)'
      BY <3>1, <3>3 DEF Open
    <3>5. q = p => i \notin Seconds(Buf(k))
      BY <1>5, <1>15, <2>1, <3>1, <3>3
    <3> QED BY <1>10, <3>1, <3>2, <3>3, <3>4, <3>5
  <2>2. CASE k = Len(stack)
    <3>1. Buf(k)' = rest /\ Of(k)' = p
      BY <1>8, <2>2
    <3>2. PICK q \in Procs : q = p
      BY <1>3
    <3>3. Open(Of(k))' = Open(q)'
      BY <3>1, <3>2 DEF Open
    <3> QED BY <1>4, <1>5, <1>10, <3>1, <3>2, <3>3
  <2> QED BY <2>1, <2>2
<1>17. ReadApart'
  <2> SUFFICES ASSUME NEW k \in 1..Len(stack), NEW l \in 1..Len(stack), k # l,
                      Of(k)' = Of(l)', ~Lost(Buf(k)'), ~Lost(Buf(l)')
               PROVE  Seconds(Buf(k)') \cap Seconds(Buf(l)') = {}
    BY <1>7 DEF ReadApart
  <2>1. CASE k # Len(stack) /\ l # Len(stack)
    BY <1>0, <1>8, <2>1 DEF ReadApart
  <2>2. CASE k # Len(stack) /\ l = Len(stack)
    BY <1>5, <1>8, <1>15, <2>2
  <2>3. CASE k = Len(stack) /\ l # Len(stack)
    BY <1>5, <1>8, <1>15, <2>3
  <2> QED BY <2>1, <2>2, <2>3
<1> QED BY <1>0, <1>1, <1>11, <1>12, <1>14, <1>16, <1>17 DEF AnswerInv

\* The server exits, maybe in the middle of a response.
LEMMA DieStep ==
    ASSUME AnswerInv, TypeOK', NEW p \in Procs, Die(p) PROVE AnswerInv'
<1>0. Counted /\ PipeOpen /\ CalledOnce /\ ~Whole(partial)
  BY DEF AnswerInv
<1>t. asked \in [Procs -> SUBSET Requests] /\ pipe \in [Procs -> Seq(Piece)]
  BY DEF AnswerInv, TypeOK
<1>1. /\ asked' = [asked EXCEPT ![p] = {}]
      /\ UNCHANGED <<partial, counter, pending, stack, called>>
  BY DEF Die, client, history
<1>2. \A q \in Procs : Once(pipe'[q]) /\ Seconds(pipe'[q]) \subseteq Seconds(pipe[q])
  <2>1. CASE UNCHANGED pipe
    BY <1>0, <2>1 DEF PipeOpen
  <2>2. ASSUME NEW i \in asked[p], pipe' = [pipe EXCEPT ![p] = Append(@, <<i, 1>>)]
        PROVE  Once(pipe'[p]) /\ Seconds(pipe'[p]) \subseteq Seconds(pipe[p])
    <3>1. <<i, 1>> \in Piece /\ pipe[p] \in Seq(Piece) /\ Len(pipe[p]) \in Nat
      BY <1>t DEF Piece
    <3>2. /\ Len(pipe'[p]) = Len(pipe[p]) + 1 /\ pipe'[p][Len(pipe[p]) + 1] = <<i, 1>>
          /\ \A k \in 1..Len(pipe[p]) : pipe'[p][k] = pipe[p][k]
      BY <1>t, <2>2, <3>1, AppendProperties
    <3>3. \A k \in 1..Len(pipe'[p]) :
             pipe'[p][k][2] = 2 => k \in 1..Len(pipe[p]) /\ pipe'[p][k] = pipe[p][k]
      <4>1. \A k \in 1..Len(pipe'[p]) : k \in 1..Len(pipe[p]) \/ k = Len(pipe[p]) + 1
        BY <3>1, <3>2
      <4>2. pipe'[p][Len(pipe[p]) + 1][2] = 1
        BY <3>2
      <4> QED BY <3>2, <4>1, <4>2
    <3>4. Once(pipe'[p])
      BY <1>0, <3>3 DEF PipeOpen, Once
    <3>5. Seconds(pipe'[p]) \subseteq Seconds(pipe[p])
      BY <3>3 DEF Seconds
    <3> QED BY <3>4, <3>5
  <2>3. ASSUME NEW i \in asked[p], pipe' = [pipe EXCEPT ![p] = Append(@, <<i, 1>>)],
               NEW q \in Procs, q # p
        PROVE  pipe'[q] = pipe[q]
    BY <1>t, <2>3
  <2> QED BY <1>0, <2>1, <2>2, <2>3 DEF Die, PipeOpen
<1>3. Counted' /\ CalledOnce' /\ ~Whole(partial')
  BY <1>0, <1>1, <1>t DEF Counted, CalledOnce
<1>4. \A q \in Procs : Open(q) \subseteq Open(q)'
  BY <1>1, <1>t DEF Open
<1>5. \A k \in 1..Len(stack') : k \in 1..Len(stack) /\ Buf(k)' = Buf(k) /\ Of(k)' = Of(k)
  BY <1>1 DEF Buf, Of
<1> QED BY <1>2, <1>3, <1>4, <1>5, QuietStep

\* Steps that leave requests and answers where they are.
LEMMA OtherStep ==
    ASSUME AnswerInv, TypeOK',
           \/ \E p \in Procs : Start(p) \/ Sentinel(p) \/ Drop(p) \/ Notice(p)
           \/ Stop \/ DispatchFails \/ CallbackReturns \/ CallbackSignals \/ FilterEnds
           \/ UNCHANGED vars
    PROVE  AnswerInv'
<1>0. Counted /\ PipeOpen /\ CalledOnce /\ ~Whole(partial)
  BY DEF AnswerInv
<1>t. /\ asked \in [Procs -> SUBSET Requests] /\ pipe \in [Procs -> Seq(Piece)]
      /\ stack \in Seq(Activation)
  BY DEF AnswerInv, TypeOK
<1>1. UNCHANGED <<counter, pending, called>>
  BY DEF Start, Sentinel, Drop, Notice, Stop, DispatchFails, CallbackReturns,
     CallbackSignals, FilterEnds, client, history, vars
<1>2. ~Whole(partial')
  <2>1. partial' = partial \/ partial' = <<>> \/ (partial' = Top.buffer /\ ~Whole(Top.buffer))
    BY DEF Start, Sentinel, Drop, Notice, Stop, DispatchFails, CallbackReturns,
       CallbackSignals, FilterEnds, client, vars
  <2>2. ~Whole(<<>>)
    BY DEF Whole
  <2> QED BY <1>0, <2>1, <2>2
<1>3. \A q \in Procs : asked'[q] \subseteq asked[q]
  BY <1>t DEF Start, Sentinel, Drop, Notice, Stop, DispatchFails, CallbackReturns,
     CallbackSignals, FilterEnds, server, vars
<1>4. Counted' /\ CalledOnce' /\ \A q \in Procs : Open(q) \subseteq Open(q)'
  BY <1>0, <1>1, <1>3 DEF Counted, CalledOnce, Open
<1>5. \A q \in Procs : Once(pipe'[q]) /\ Seconds(pipe'[q]) \subseteq Seconds(pipe[q])
  <2>1. Once(<<>>) /\ Seconds(<<>>) = {}
    BY DEF Once, Seconds
  <2>2. \A q \in Procs : pipe'[q] = pipe[q] \/ pipe'[q] = <<>>
    BY <1>t DEF Start, Sentinel, Drop, Notice, Stop, DispatchFails, CallbackReturns,
       CallbackSignals, FilterEnds, server, vars
  <2> QED BY <1>0, <2>1, <2>2 DEF PipeOpen
<1>6. \A k \in 1..Len(stack') : k \in 1..Len(stack) /\ Buf(k)' = Buf(k) /\ Of(k)' = Of(k)
  <2>1. CASE stack' = stack
    BY <2>1 DEF Buf, Of
  <2>2. CASE stack' = Pop
    BY <1>t, <2>2, PopKeeps
  <2>3. CASE CallbackReturns
    <3>1. /\ stack # <<>> /\ Top \in Activation
          /\ stack' = Append(Pop, [Top EXCEPT !.calling = FALSE])
      BY <1>t, <2>3, PopLemma DEF CallbackReturns, InCallback
    <3> DEFINE a == [Top EXCEPT !.calling = FALSE]
    <3>2. a \in Activation /\ a.buffer = Top.buffer /\ a.proc = Top.proc
      BY <3>1 DEF Activation
    <3> HIDE DEF a
    <3>3. /\ Len(stack') = Len(stack) /\ stack'[Len(stack)] = a
          /\ \A k \in 1..Len(stack) : k # Len(stack) => stack'[k] = stack[k]
      BY <1>t, <3>1, <3>2, ReplaceTop DEF a
    <3> QED BY <3>2, <3>3 DEF Buf, Of, Top
  <2> QED BY <2>1, <2>2, <2>3 DEF Start, Sentinel, Drop, Notice, Stop, DispatchFails,
             CallbackSignals, FilterEnds, vars
<1> QED BY <1>2, <1>4, <1>5, <1>6, QuietStep

\* Whatever Lisp, Emacs and the servers do next, answers stay where they belong.
LEMMA NextAnswerInv == AnswerInv /\ [Next]_vars => AnswerInv'
<1> SUFFICES ASSUME AnswerInv, [Next]_vars PROVE AnswerInv'
  OBVIOUS
<1>1. TypeOK'
  BY NextTypeOK DEF AnswerInv
<1>2. ASSUME NEW p \in Procs, Send(p) \/ SendFails(p) PROVE AnswerInv'
  BY <1>1, <1>2, SendStep
<1>3. ASSUME NEW p \in Procs, Filter(p) PROVE AnswerInv'
  BY <1>1, <1>3, FilterStarts
<1>4. ASSUME NEW p \in Procs, Answer(p) PROVE AnswerInv'
  BY <1>1, <1>4, AnswerStep
<1>5. ASSUME NEW p \in Procs, Die(p) PROVE AnswerInv'
  BY <1>1, <1>5, DieStep
<1>6. CASE Dispatch
  BY <1>1, <1>6, DispatchStep
<1>7. CASE \/ \E p \in Procs : Start(p) \/ Sentinel(p) \/ Drop(p) \/ Notice(p)
           \/ Stop \/ DispatchFails \/ CallbackReturns \/ CallbackSignals \/ FilterEnds
           \/ UNCHANGED vars
  BY <1>1, <1>7, OtherStep
<1> QED BY <1>2, <1>3, <1>4, <1>5, <1>6, <1>7 DEF Next, Lisp, Emacs, FilterStep

\* magit-server-filter's assertion "(cl-assert callback)" holds: a frame that it
\* decodes answers a request that was made of this very process and is pending,
\* however chunks were cut, callbacks waited or signalled errors, filters ran one
\* inside another, and servers died and were replaced on the same root.
THEOREM AssertionHolds == Spec => []CallbackKnown
<1>1. AnswerInv => CallbackKnown
  <2> SUFFICES ASSUME AnswerInv, Parsing, Whole(Top.buffer)
               PROVE  Top.buffer[1][1] \in pending[Top.proc]
    BY DEF CallbackKnown
  <2>1. /\ Top \in Activation /\ Len(stack) \in 1..Len(stack)
        /\ Buf(Len(stack)) = Top.buffer /\ Of(Len(stack)) = Top.proc
    BY PopLemma DEF AnswerInv, TypeOK, Parsing, Buf, Of, Top
  <2>2. Top.buffer \in Seq(Piece) /\ ~Lost(Top.buffer)
    BY <2>1 DEF Activation, Lost
  <2>3. Once(Top.buffer) /\ Seconds(Top.buffer) \subseteq Open(Top.proc)
    BY <2>1, <2>2 DEF AnswerInv, ReadOpen
  <2>4. Top.buffer[1][1] \in Seconds(Top.buffer)
    BY <2>2, <2>3, AfterFrame
  <2> QED BY <2>3, <2>4 DEF Open
<1> QED BY <1>1, InitAnswerInv, NextAnswerInv, PTL DEF Spec

\* The callback of a request is never called twice: magit-server-filter removes it
\* from pending-callbacks before it calls it, and no id is used again.
THEOREM NoCallbackTwice == Spec => []CalledOnce
<1>1. AnswerInv => CalledOnce
  BY DEF AnswerInv
<1> QED BY <1>1, InitAnswerInv, NextAnswerInv, PTL DEF Spec

-----------------------------------------------------------------------------
(* The place in the stream, while nothing goes wrong in Lisp.              *)

\* The callbacks return, and nothing calls magit-server-stop, as in lisp/.
PlainUse == ~Stops /\ ~Erring /\ ~Waiting

\* Frames, each of another member of open; the last may be half a frame.
Framed(s, open) ==
    \A k \in 1..Len(s) : k % 2 = 1 =>
        /\ s[k][2] = 1 /\ s[k][1] \in open
        /\ k < Len(s) => s[k + 1] = <<s[k][1], 2>>
        /\ \A j \in 1..Len(s) : j % 2 = 1 /\ s[j][1] = s[k][1] => j = k

\* What the root's client has kept and what it is still to read from p.
Stream(p) == Kept \o pipe[p]

StreamFramed ==
    \A p \in Procs : current = p /\ status[p] \in {"run", "gone"} =>
        Framed(Stream(p), Open(p)) /\ (status[p] = "run" => Len(Stream(p)) % 2 = 0)

\* One activation of magit-server-filter at a time, for the registered process.
OneReader == Len(stack) <= 1 /\ (stack # <<>> => Top.proc = current)

\* A process that was never started has written nothing.
NothingEarly == \A p \in Procs : status[p] = "none" => pipe[p] = <<>>

PlainInv ==
    /\ AnswerInv /\ OneServer /\ ~stopped
    /\ OneReader /\ NothingEarly /\ StreamFramed

\* StreamFramed says what Aligned says.
LEMMA FramedAligned == StreamFramed => Aligned
<1> SUFFICES ASSUME StreamFramed, NEW p \in Procs, current = p, status[p] \in {"run", "gone"}
             PROVE  LET s == Kept \o pipe[p]
                        First == {k \in 1..Len(s) : k % 2 = 1}
                    IN /\ status[p] = "run" => Len(s) % 2 = 0
                       /\ \A k \in First :
                             /\ s[k][2] = 1 /\ s[k][1] \in pending[p] \ asked[p]
                             /\ k < Len(s) => s[k + 1] = <<s[k][1], 2>>
                       /\ \A j, k \in First : s[j][1] = s[k][1] => j = k
  BY DEF Aligned
<1>1. Framed(Kept \o pipe[p], Open(p)) /\ (status[p] = "run" => Len(Kept \o pipe[p]) % 2 = 0)
  BY DEF StreamFramed, Stream
<1> DEFINE s == Kept \o pipe[p]
<1> HIDE DEF s
<1> QED BY <1>1 DEF Framed, Open, s

\* What follows a frame is framed, and does not answer the same request.
LEMMA FramedRest ==
    ASSUME NEW s \in Seq(Piece), NEW d \in Seq(Piece), NEW open,
           Len(s) >= 2, Len(d) = Len(s) - 2, \A k \in 1..Len(d) : d[k] = s[k + 2],
           Framed(s, open)
    PROVE  Framed(d, open \ {s[1][1]})
<1>1. Len(s) \in Nat /\ Len(d) \in Nat
  OBVIOUS
<1> SUFFICES ASSUME NEW k \in 1..Len(d), k % 2 = 1
             PROVE  /\ d[k][2] = 1 /\ d[k][1] \in open \ {s[1][1]}
                    /\ k < Len(d) => d[k + 1] = <<d[k][1], 2>>
                    /\ \A j \in 1..Len(d) : j % 2 = 1 /\ d[j][1] = d[k][1] => j = k
  BY DEF Framed
<1>2. \A j \in 1..Len(d) : j + 2 \in 1..Len(s) /\ (j % 2 = 1 => (j + 2) % 2 = 1)
  BY <1>1
<1>3. /\ s[k + 2][2] = 1 /\ s[k + 2][1] \in open
      /\ k + 2 < Len(s) => s[k + 2 + 1] = <<s[k + 2][1], 2>>
      /\ \A j \in 1..Len(s) : j % 2 = 1 /\ s[j][1] = s[k + 2][1] => j = k + 2
  BY <1>2 DEF Framed
<1>4. s[1][1] # s[k + 2][1]
  <2>1. 1 \in 1..Len(s) /\ 1 % 2 = 1 /\ 1 # k + 2
    BY <1>1
  <2> QED BY <1>3, <2>1
<1>5. k < Len(d) => d[k + 1] = <<d[k][1], 2>>
  <2> SUFFICES ASSUME k < Len(d) PROVE d[k + 1] = <<d[k][1], 2>>
    OBVIOUS
  <2>1. k + 1 \in 1..Len(d) /\ k + 2 < Len(s) /\ k + 1 + 2 = k + 2 + 1
    BY <1>1
  <2> QED BY <1>3, <2>1
<1>6. ASSUME NEW j \in 1..Len(d), j % 2 = 1, d[j][1] = d[k][1] PROVE j = k
  <2>1. j + 2 = k + 2
    BY <1>2, <1>3, <1>6
  <2> QED BY <2>1
<1>7. d[k] = s[k + 2]
  OBVIOUS
<1>8. d[k][2] = 1 /\ d[k][1] \in open \ {s[1][1]}
  BY <1>3, <1>4, <1>7
<1> QED BY <1>5, <1>6, <1>8

\* A frame, or its first half, is written behind whole frames.
LEMMA FramedMore ==
    ASSUME NEW s \in Seq(Piece), NEW d \in Seq(Piece), NEW open, NEW i,
           Framed(s, open), i \notin open, Len(s) % 2 = 0,
           \/ Len(d) = Len(s) + 1
           \/ Len(d) = Len(s) + 2 /\ d[Len(s) + 2] = <<i, 2>>,
           \A k \in 1..Len(s) : d[k] = s[k], d[Len(s) + 1] = <<i, 1>>
    PROVE  Framed(d, open \cup {i})
<1>1. Len(s) \in Nat /\ Len(d) \in Nat
  OBVIOUS
<1>2. \A k \in 1..Len(d) : k % 2 = 1 => k \in 1..Len(s) \/ k = Len(s) + 1
  <2>1. \A n \in Nat, k \in Nat : n % 2 = 0 /\ k % 2 = 1 => k # n + 2
    OBVIOUS
  <2>2. \A k \in 1..Len(d) : k \in 1..Len(s) \/ k = Len(s) + 1 \/ k = Len(s) + 2
    BY <1>1
  <2>3. \A k \in 1..Len(d) : k \in Nat
    BY <1>1
  <2> QED BY <1>1, <2>1, <2>2, <2>3, Zenon
<1>3. ASSUME NEW k \in 1..Len(s), k % 2 = 1
      PROVE  /\ d[k][2] = 1 /\ d[k][1] \in open
             /\ d[k + 1] = <<d[k][1], 2>>
             /\ \A j \in 1..Len(s) : j % 2 = 1 /\ d[j][1] = d[k][1] => j = k
  <2>1. k < Len(s) /\ k + 1 \in 1..Len(s)
    BY <1>1, <1>3
  <2>2. /\ s[k][2] = 1 /\ s[k][1] \in open /\ s[k + 1] = <<s[k][1], 2>>
        /\ \A j \in 1..Len(s) : j % 2 = 1 /\ s[j][1] = s[k][1] => j = k
    BY <1>3, <2>1 DEF Framed
  <2> QED BY <2>1, <2>2
<1> SUFFICES ASSUME NEW k \in 1..Len(d), k % 2 = 1
             PROVE  /\ d[k][2] = 1 /\ d[k][1] \in open \cup {i}
                    /\ k < Len(d) => d[k + 1] = <<d[k][1], 2>>
                    /\ \A j \in 1..Len(d) : j % 2 = 1 /\ d[j][1] = d[k][1] => j = k
  BY DEF Framed
<1>4. CASE k \in 1..Len(s)
  <2>1. d[Len(s) + 1][1] # d[k][1]
    BY <1>3, <1>4
  <2> QED BY <1>2, <1>3, <1>4, <2>1
<1>5. CASE k = Len(s) + 1
  <2>1. \A j \in 1..Len(s) : j % 2 = 1 => d[j][1] # i
    BY <1>3
  <2>2. d[k] = <<i, 1>>
    BY <1>5
  <2>3. k < Len(d) => d[k + 1] = <<i, 2>>
    BY <1>1, <1>5
  <2>4. d[k][1] = i /\ d[k][2] = 1
    BY <2>2
  <2>5. ASSUME NEW j \in 1..Len(d), j % 2 = 1, d[j][1] = d[k][1] PROVE j = k
    BY <1>2, <1>5, <2>1, <2>4, <2>5
  <2> QED BY <2>3, <2>4, <2>5
<1> QED BY <1>2, <1>4, <1>5

\* More requests are open than before.
LEMMA FramedWider ==
    ASSUME NEW s, NEW open, NEW wider, open \subseteq wider, Framed(s, open)
    PROVE  Framed(s, wider)
BY DEF Framed

\* Nothing runs, is kept or was written at first.
LEMMA InitPlainInv == Init => PlainInv
<1> SUFFICES ASSUME Init PROVE PlainInv
  OBVIOUS
<1>1. AnswerInv /\ OneServer
  BY InitAnswerInv, InitIInv DEF IInv
<1>2. ~stopped /\ OneReader /\ NothingEarly
  BY DEF Init, OneReader, NothingEarly
<1>3. StreamFramed
  BY ClientAssumption DEF Init, StreamFramed
<1> QED BY <1>1, <1>2, <1>3 DEF PlainInv

\* A step that leaves the stream of the registered process as it is.
LEMMA StreamStays ==
    ASSUME PlainInv,
           \A p \in Procs : current' = p /\ status'[p] \in {"run", "gone"} =>
              /\ current = p /\ status[p] \in {"run", "gone"}
              /\ status'[p] = "run" => status[p] = "run"
              /\ Stream(p)' = Stream(p) /\ Open(p) \subseteq Open(p)'
    PROVE  StreamFramed'
<1> SUFFICES ASSUME NEW p \in Procs, current' = p, status'[p] \in {"run", "gone"}
             PROVE  /\ Framed(Stream(p)', Open(p)')
                    /\ status'[p] = "run" => Len(Stream(p)') % 2 = 0
  BY DEF StreamFramed
<1>1. /\ Framed(Stream(p), Open(p)) /\ (status[p] = "run" => Len(Stream(p)) % 2 = 0)
      /\ Stream(p)' = Stream(p) /\ Open(p) \subseteq Open(p)'
      /\ status'[p] = "run" => status[p] = "run"
  BY DEF PlainInv, StreamFramed
<1> QED BY <1>1, FramedWider

\* In plain use Lisp waits at top level only.
LEMMA PlainLisp ==
    ASSUME PlainUse, PlainInv
    PROVE  /\ LispWaits => stack = <<>>
           /\ InCallback => Top.proc = current /\ current \in Procs
           /\ current = None /\ LispRuns => stack = <<>>
<1>1. stack # <<>> => Top \in Activation /\ Top.proc = current
  BY PopLemma DEF PlainInv, OneReader, AnswerInv, TypeOK
<1> QED BY <1>1, ClientAssumption DEF PlainUse, LispWaits, LispRuns, InCallback, Activation

\* Commands and sentinels: a new process starts with an empty stream, a request
\* opens nothing before it is answered, and the process whose pipe is broken is
\* not read any more.
LEMMA PlainCommand ==
    ASSUME PlainUse, PlainInv, AnswerInv', OneServer', NEW p \in Procs,
           Start(p) \/ Send(p) \/ SendFails(p) \/ Sentinel(p)
    PROVE  PlainInv'
<1>0. /\ OneServer /\ ~stopped /\ OneReader /\ NothingEarly /\ StreamFramed /\ Counted
  BY DEF PlainInv, AnswerInv
<1>t. /\ asked \in [Procs -> SUBSET Requests] /\ pipe \in [Procs -> Seq(Piece)]
      /\ pending \in [Procs -> SUBSET Requests] /\ stack \in Seq(Activation)
      /\ counter \in [Procs -> 0..MaxSends] /\ status \in [Procs -> Statuses]
      /\ current \in Procs \cup {None}
  BY DEF PlainInv, AnswerInv, TypeOK
<1>1. CASE Start(p)
  <2>1. /\ current = None /\ LispRuns /\ status[p] = "none" /\ current' = p /\ partial' = <<>>
        /\ status' = [status EXCEPT ![p] = "run"]
        /\ UNCHANGED <<stack, asked, pipe, pending, stopped>>
    BY <1>1 DEF Start, server, history
  <2>2. stack = <<>> /\ pipe[p] = <<>>
    BY <1>0, <2>1, PlainLisp DEF NothingEarly
  <2>3. Stream(p)' = <<>>
    BY <2>1, <2>2 DEF Stream, Kept
  <2>4. StreamFramed'
    <3>1. Framed(<<>>, Open(p)') /\ Len(<<>>) % 2 = 0
      BY DEF Framed
    <3> QED BY <2>1, <2>3, <3>1 DEF StreamFramed
  <2>5. OneReader' /\ NothingEarly' /\ ~stopped'
    BY <1>0, <1>t, <2>1, <2>2 DEF OneReader, NothingEarly
  <2> QED BY <2>4, <2>5 DEF PlainInv
<1>2. CASE Send(p)
  <2>1. /\ current = p /\ status[p] = "run"
        /\ pending' = [pending EXCEPT ![p] = @ \cup {counter[p] + 1}]
        /\ asked' = [asked EXCEPT ![p] = @ \cup {counter[p] + 1}]
        /\ UNCHANGED <<current, partial, status, stack, pipe, stopped>>
    BY <1>2 DEF Send, NewRequest, history
  <2>2. Open(p) \subseteq Open(p)'
    <3>1. counter[p] + 1 \notin pending[p]
      BY <1>0, <1>t, ClientAssumption DEF Counted
    <3> QED BY <1>t, <2>1, <3>1 DEF Open
  <2>3. Stream(p)' = Stream(p)
    BY <2>1 DEF Stream, Kept, Top
  <2>4. StreamFramed'
    BY <2>1, <2>2, <2>3, StreamStays
  <2>5. OneReader' /\ NothingEarly' /\ ~stopped'
    BY <1>0, <2>1 DEF OneReader, NothingEarly, Top
  <2> QED BY <2>4, <2>5 DEF PlainInv
<1>3. CASE SendFails(p)
  <2>1. /\ current = p /\ current' = p /\ stack' = Pop /\ UNCHANGED <<partial, stopped>>
        /\ \/ status[p] \in {"exit", "reaped"} /\ UNCHANGED <<status, pipe>>
           \/ /\ status' = [status EXCEPT ![p] = "exit"]
              /\ pipe' = [pipe EXCEPT ![p] = <<>>]
    BY <1>3 DEF SendFails, NewRequest, history
  <2>2. status'[p] \in {"exit", "reaped"}
    BY <1>t, <2>1
  <2>3. StreamFramed'
    BY <2>1, <2>2 DEF StreamFramed
  <2>4. stack' = <<>>
    BY <1>0, <1>t, <2>1, PopLemma DEF OneReader
  <2>5. OneReader' /\ NothingEarly' /\ ~stopped'
    BY <1>0, <1>t, <2>1, <2>4 DEF OneReader, NothingEarly
  <2> QED BY <2>3, <2>5 DEF PlainInv
<1>4. CASE Sentinel(p)
  <2>1. /\ LispWaits /\ status' = [status EXCEPT ![p] = "reaped"]
        /\ current' = None /\ UNCHANGED <<stack, pipe, stopped>>
    BY <1>4 DEF Sentinel, server, history
  <2>2. stack = <<>>
    BY <2>1, PlainLisp
  <2>3. StreamFramed'
    BY <2>1, ClientAssumption DEF StreamFramed
  <2>4. OneReader' /\ NothingEarly' /\ ~stopped'
    BY <1>0, <1>t, <2>1, <2>2 DEF OneReader, NothingEarly
  <2> QED BY <2>3, <2>4 DEF PlainInv
<1> QED BY <1>1, <1>2, <1>3, <1>4

\* Emacs reads a chunk of the registered process: the stream is the same.
LEMMA PlainFilter ==
    ASSUME PlainUse, PlainInv, AnswerInv', OneServer', NEW p \in Procs, Filter(p)
    PROVE  PlainInv'
<1>0. /\ OneServer /\ ~stopped /\ OneReader /\ NothingEarly /\ StreamFramed
  BY DEF PlainInv
<1>t. pipe \in [Procs -> Seq(Piece)] /\ partial \in Seq(Piece)
  BY DEF PlainInv, AnswerInv, TypeOK
<1>1. PICK n \in 1..Len(pipe[p]) :
         /\ stack' = Append(stack, [proc |-> p, calling |-> FALSE,
                                    buffer |-> partial \o SubSeq(pipe[p], 1, n)])
         /\ pipe' = [pipe EXCEPT ![p] = SubSeq(@, n + 1, Len(@))]
  BY DEF Filter
<1> DEFINE chunk == SubSeq(pipe[p], 1, n)
           rest == SubSeq(pipe[p], n + 1, Len(pipe[p]))
           a == [proc |-> p, calling |-> FALSE, buffer |-> partial \o chunk]
<1>2. /\ LispWaits /\ status[p] \in {"run", "gone", "exit"}
      /\ UNCHANGED <<current, partial, pending, status, asked, stopped>>
  BY DEF Filter, client, history
<1>3. stack = <<>> /\ current = p
  BY <1>0, <1>2, PlainLisp DEF OneServer
<1>4. stack' = <<a>> /\ Len(stack') = 1 /\ Top' = a /\ stack' # <<>>
  <2> HIDE DEF a
  <2>1. stack' = <<a>>
    BY <1>1, <1>3 DEF a
  <2> QED BY <2>1 DEF Top
<1>5. pipe[p] \in Seq(Piece) /\ n \in 0..Len(pipe[p]) /\ pipe'[p] = rest
  BY <1>1, <1>t
<1>6. Stream(p)' = Stream(p)
  <2>1. chunk \in Seq(Piece) /\ rest \in Seq(Piece)
    BY <1>5, CutLemma
  <2>2. chunk \o rest = pipe[p]
    <3>1. /\ 1 \in 1..(Len(pipe[p]) + 1) /\ n \in (1 - 1)..Len(pipe[p])
          /\ Len(pipe[p]) \in n..Len(pipe[p])
      BY <1>5
    <3>2. chunk \o rest = SubSeq(pipe[p], 1, Len(pipe[p]))
      BY <1>5, <3>1, ConcatAdjacentSubSeq, Zenon
    <3> QED BY <1>5, <3>2, SubSeqFull
  <2> HIDE DEF chunk, rest
  <2>3. (partial \o chunk) \o rest = partial \o (chunk \o rest)
    BY <1>t, <2>1, ConcatAssociative, SMTT(30)
  <2>4. Kept = partial /\ Kept' = partial \o chunk
    BY <1>3, <1>4 DEF Kept
  <2> QED BY <1>5, <2>2, <2>3, <2>4 DEF Stream
<1>7. StreamFramed'
  <2>1. Open(p)' = Open(p)
    BY <1>2 DEF Open
  <2> QED BY <1>2, <1>3, <1>6, <2>1, StreamStays
<1>8. OneReader' /\ NothingEarly' /\ ~stopped'
  <2>1. OneReader'
    BY <1>2, <1>3, <1>4 DEF OneReader
  <2>2. NothingEarly'
    <3> SUFFICES ASSUME NEW q \in Procs, status[q] = "none" PROVE pipe'[q] = <<>>
      BY <1>2 DEF NothingEarly
    <3>1. q # p /\ pipe[q] = <<>>
      BY <1>0, <1>2 DEF NothingEarly
    <3> QED BY <1>1, <1>t, <3>1
  <2> QED BY <1>0, <1>2, <2>1, <2>2
<1> QED BY <1>7, <1>8 DEF PlainInv

\* What magit-server-filter parses is the beginning of the stream: a frame it
\* takes leaves the rest of the stream framed.
LEMMA PlainDispatch ==
    ASSUME PlainUse, PlainInv, AnswerInv', OneServer', Dispatch
    PROVE  PlainInv'
<1>0. /\ ~stopped /\ OneReader /\ NothingEarly /\ StreamFramed
  BY DEF PlainInv
<1>t. /\ asked \in [Procs -> SUBSET Requests] /\ pipe \in [Procs -> Seq(Piece)]
      /\ pending \in [Procs -> SUBSET Requests] /\ stack \in Seq(Activation)
  BY DEF PlainInv, AnswerInv, TypeOK
<1> DEFINE b == Top.buffer
           rest == SubSeq(b, 3, Len(b))
           a == [proc |-> Top.proc, calling |-> TRUE, buffer |-> rest]
<1>1. /\ stack # <<>> /\ Whole(b)
      /\ pending' = [pending EXCEPT ![Top.proc] = @ \ {b[1][1]}]
      /\ stack' = Append(Pop, a)
      /\ UNCHANGED <<current, status, asked, pipe, stopped>>
  BY DEF Dispatch, Parsing, server
<1>2. /\ Top \in Activation /\ Top.proc = current /\ Pop = <<>>
      /\ current \in Procs /\ b \in Seq(Piece)
  <2>1. Top \in Activation /\ Top.proc = current /\ Pop = <<>>
    BY <1>0, <1>1, <1>t, PopLemma DEF OneReader
  <2> QED BY <2>1 DEF Activation
<1>3. stack' = <<a>> /\ Len(stack') = 1 /\ Top' = a /\ stack' # <<>>
  <2> HIDE DEF a
  <2>1. stack' = <<a>>
    BY <1>1, <1>2
  <2> QED BY <2>1 DEF Top
<1>4. Len(b) \in Nat /\ Len(b) >= 2 /\ 2 \in 0..Len(b) /\ 2 + 1 = 3
  BY <1>1, <1>2 DEF Whole
<1>5. /\ rest \in Seq(Piece) /\ Len(rest) = Len(b) - 2
      /\ \A k \in 1..(Len(b) - 2) : rest[k] = b[2 + k]
  BY <1>2, <1>4, CutLemma
<1>6. ASSUME NEW p \in Procs, p = current
      PROVE  /\ Stream(p) = b \o pipe[p] /\ Stream(p)' = rest \o pipe[p]
             /\ Open(p)' = Open(p) \ {b[1][1]}
  BY <1>1, <1>2, <1>3, <1>6, <1>t DEF Stream, Kept, Open
<1> HIDE DEF b, rest, a
<1>7. StreamFramed'
  <2> SUFFICES ASSUME NEW p \in Procs, p = current, status[p] \in {"run", "gone"}
               PROVE  /\ Framed(Stream(p)', Open(p)')
                      /\ status[p] = "run" => Len(Stream(p)') % 2 = 0
    BY <1>1 DEF StreamFramed
  <2> DEFINE s == b \o pipe[p]
             d == rest \o pipe[p]
  <2>1. Framed(s, Open(p)) /\ (status[p] = "run" => Len(s) % 2 = 0)
    BY <1>0, <1>6 DEF StreamFramed
  <2>2. pipe[p] \in Seq(Piece) /\ Len(pipe[p]) \in Nat
    BY <1>t
  <2>3. /\ s \in Seq(Piece) /\ Len(s) = Len(b) + Len(pipe[p])
        /\ \A k \in 1..(Len(b) + Len(pipe[p])) :
              s[k] = IF k <= Len(b) THEN b[k] ELSE pipe[p][k - Len(b)]
    BY <1>2, <2>2, ConcatProperties
  <2>4. /\ d \in Seq(Piece) /\ Len(d) = Len(rest) + Len(pipe[p])
        /\ \A k \in 1..(Len(rest) + Len(pipe[p])) :
              d[k] = IF k <= Len(rest) THEN rest[k] ELSE pipe[p][k - Len(rest)]
    BY <1>5, <2>2, ConcatProperties
  <2> HIDE DEF s, d
  <2>5. Len(d) = Len(s) - 2 /\ Len(s) >= 2 /\ s[1] = b[1]
    BY <1>4, <1>5, <2>2, <2>3, <2>4
  <2>6. ASSUME NEW k \in 1..Len(d) PROVE d[k] = s[k + 2]
    <3>1. k \in Nat /\ k + 2 \in 1..(Len(b) + Len(pipe[p])) /\ k \in 1..(Len(rest) + Len(pipe[p]))
      BY <1>4, <1>5, <2>2, <2>3, <2>4
    <3>2. CASE k <= Len(rest)
      <4>1. k \in 1..(Len(b) - 2) /\ k + 2 <= Len(b) /\ 2 + k = k + 2
        BY <1>4, <1>5, <3>1, <3>2
      <4> QED BY <1>5, <2>3, <2>4, <3>1, <3>2, <4>1
    <3>3. CASE ~(k <= Len(rest))
      <4>1. ~(k + 2 <= Len(b)) /\ k + 2 - Len(b) = k - Len(rest)
        BY <1>4, <1>5, <3>1, <3>3
      <4>2. s[k + 2] = pipe[p][k + 2 - Len(b)]
        BY <2>3, <3>1, <4>1
      <4>3. d[k] = pipe[p][k - Len(rest)]
        BY <2>4, <3>1, <3>3
      <4> QED BY <4>1, <4>2, <4>3
    <3> QED BY <3>2, <3>3
  <2>7. Framed(d, Open(p) \ {b[1][1]})
    BY <2>1, <2>3, <2>4, <2>5, <2>6, FramedRest
  <2>8. status[p] = "run" => Len(d) % 2 = 0
    <3>1. Len(s) \in Nat /\ \A n \in Nat : n % 2 = 0 => (n - 2) % 2 = 0
      BY <2>3
    <3> QED BY <2>1, <2>5, <3>1
  <2> QED BY <1>6, <2>7, <2>8 DEF d
<1>8. OneReader' /\ NothingEarly' /\ ~stopped'
  BY <1>0, <1>1, <1>2, <1>3 DEF OneReader, NothingEarly, a
<1> QED BY <1>7, <1>8 DEF PlainInv

\* A framed stream that is parsed begins with a frame whose callback is pending,
\* or with half a frame.
LEMMA PlainNeverFails ==
    ASSUME PlainUse, PlainInv, status[current] \in {"run", "gone"}, Parsing
    PROVE  ~DispatchFails
<1> DEFINE b == Top.buffer
<1>0. OneReader /\ StreamFramed /\ stack # <<>> /\ Counted
  BY DEF PlainInv, Parsing, AnswerInv
<1>t. pipe \in [Procs -> Seq(Piece)] /\ stack \in Seq(Activation)
  BY DEF PlainInv, AnswerInv, TypeOK
<1>1. Top \in Activation /\ Top.proc = current /\ current \in Procs /\ b \in Seq(Piece)
  <2>1. Top \in Activation /\ Top.proc = current
    BY <1>0, <1>t, PopLemma DEF OneReader
  <2> QED BY <2>1 DEF Activation
<1>2. PICK p \in Procs : p = current
  BY <1>1
<1>3. Framed(b \o pipe[p], Open(p)) /\ pipe[p] \in Seq(Piece)
  BY <1>0, <1>t, <1>2 DEF StreamFramed, Stream, Kept
<1>4. /\ Len(b) \in Nat /\ Len(b \o pipe[p]) = Len(b) + Len(pipe[p]) /\ Len(pipe[p]) \in Nat
      /\ \A k \in 1..Len(b) : (b \o pipe[p])[k] = b[k]
  <2> HIDE DEF b
  <2> QED BY <1>1, <1>3
<1> HIDE DEF b
<1>5. CASE b = <<>>
  BY <1>5 DEF DispatchFails, Short, b
<1>6. CASE Len(b) = 1
  <2>1. 1 \in 1..Len(b \o pipe[p]) /\ 1 % 2 = 1 /\ (b \o pipe[p])[1] = b[1]
    BY <1>4, <1>6
  <2>2. b[1][2] = 1
    BY <1>3, <2>1 DEF Framed
  <2> QED BY <1>6, <2>2 DEF DispatchFails, Short, b
<1>7. CASE Len(b) >= 2
  <2>1. /\ 1 \in 1..Len(b \o pipe[p]) /\ 1 % 2 = 1 /\ 1 < Len(b \o pipe[p]) /\ 1 + 1 = 2
        /\ (b \o pipe[p])[1] = b[1] /\ (b \o pipe[p])[2] = b[2]
    BY <1>4, <1>7
  <2>2. b[1][2] = 1 /\ b[1][1] \in Open(p) /\ b[2] = <<b[1][1], 2>>
    BY <1>3, <2>1 DEF Framed
  <2>3. Whole(b) /\ b[1][1] \in pending[Top.proc]
    BY <1>1, <1>2, <1>7, <2>2 DEF Whole, Open
  <2> QED BY <2>3 DEF DispatchFails, b
<1>8. b = <<>> \/ Len(b) = 1 \/ Len(b) >= 2
  <2>1. \A n \in Nat : n = 0 \/ n = 1 \/ n >= 2
    OBVIOUS
  <2>2. Len(b) = 0 => b = <<>>
    BY <1>1 DEF b
  <2> QED BY <1>4, <2>1, <2>2, Zenon
<1> QED BY <1>5, <1>6, <1>7, <1>8

\* A callback returns, or the filter ends: what it parsed is kept.
LEMMA PlainFilterStep ==
    ASSUME PlainUse, PlainInv, AnswerInv', OneServer', FilterStep, ~Dispatch
    PROVE  PlainInv'
<1>0. /\ ~stopped /\ OneReader /\ NothingEarly /\ StreamFramed
  BY DEF PlainInv
<1>t. stack \in Seq(Activation)
  BY DEF PlainInv, AnswerInv, TypeOK
<1>1. /\ DispatchFails \/ CallbackReturns \/ FilterEnds
      /\ stack # <<>>
      /\ UNCHANGED <<current, status, pending, asked, pipe, stopped>>
  BY DEF FilterStep, DispatchFails, CallbackReturns, CallbackSignals, FilterEnds,
         PlainUse, Parsing, InCallback, client, server, history
<1>2. Top \in Activation /\ Top.proc = current /\ Pop = <<>>
  BY <1>0, <1>1, <1>t, PopLemma DEF OneReader
<1>3. \A p \in Procs : Open(p)' = Open(p)
  BY <1>1 DEF Open
<1>4. ~stopped' /\ NothingEarly'
  BY <1>0, <1>1 DEF NothingEarly
<1>5. CASE DispatchFails
  <2>1. ~(status[current] \in {"run", "gone"})
    BY <1>5, PlainNeverFails DEF DispatchFails
  <2>2. StreamFramed'
    BY <1>1, <2>1 DEF StreamFramed
  <2>3. OneReader'
    BY <1>2, <1>5 DEF DispatchFails, OneReader
  <2> QED BY <1>4, <2>2, <2>3 DEF PlainInv
<1>6. CASE CallbackReturns
  <2> DEFINE a == [Top EXCEPT !.calling = FALSE]
  <2>1. a.proc = Top.proc /\ a.buffer = Top.buffer /\ stack' = Append(Pop, a)
    BY <1>2, <1>6 DEF CallbackReturns, Activation
  <2> HIDE DEF a
  <2>2. stack' = <<a>> /\ Len(stack') = 1 /\ stack' # <<>>
    BY <1>2, <2>1
  <2>3. Top' = a
    BY <2>2 DEF Top
  <2>4. \A p \in Procs : Stream(p)' = Stream(p)
    BY <1>1, <2>1, <2>2, <2>3 DEF Stream, Kept
  <2>5. StreamFramed'
    BY <1>1, <1>3, <2>4, StreamStays
  <2>6. OneReader'
    BY <1>1, <1>2, <2>1, <2>2, <2>3 DEF OneReader
  <2> QED BY <1>4, <2>5, <2>6 DEF PlainInv
<1>7. CASE FilterEnds
  <2>1. stack' = <<>> /\ partial' = Top.buffer
    BY <1>2, <1>7 DEF FilterEnds
  <2>2. \A p \in Procs : Stream(p)' = Stream(p)
    BY <1>1, <2>1 DEF Stream, Kept
  <2>3. StreamFramed'
    BY <1>1, <1>3, <2>2, StreamStays
  <2>4. OneReader'
    BY <2>1 DEF OneReader
  <2> QED BY <1>4, <2>3, <2>4 DEF PlainInv
<1> QED BY <1>1, <1>5, <1>6, <1>7

\* A server writes an answer behind whole frames, or dies there in the middle of
\* one.
LEMMA PlainWrite ==
    ASSUME PlainUse, PlainInv, AnswerInv', OneServer', NEW p \in Procs,
           Answer(p) \/ Die(p)
    PROVE  PlainInv'
<1>0. /\ OneServer /\ ~stopped /\ OneReader /\ NothingEarly /\ StreamFramed /\ Counted
  BY DEF PlainInv, AnswerInv
<1>t. /\ asked \in [Procs -> SUBSET Requests] /\ pipe \in [Procs -> Seq(Piece)]
      /\ pending \in [Procs -> SUBSET Requests] /\ stack \in Seq(Activation)
      /\ partial \in Seq(Piece) /\ status \in [Procs -> Statuses]
  BY DEF PlainInv, AnswerInv, TypeOK
<1>1. /\ status[p] = "run" /\ current = p
      /\ UNCHANGED <<current, partial, pending, stack, stopped>>
      /\ asked' = [asked EXCEPT ![p] = asked'[p]] /\ asked'[p] \subseteq asked[p]
      /\ status' = [status EXCEPT ![p] = status'[p]] /\ status'[p] \in {"run", "gone"}
  BY <1>0, <1>t DEF Answer, Die, OneServer, client, history
<1>2. Kept' = Kept /\ Kept \in Seq(Piece)
  <2>1. stack # <<>> => Top \in Activation
    BY <1>t, PopLemma
  <2>2. Kept \in Seq(Piece)
    BY <1>t, <2>1 DEF Kept, Activation
  <2> QED BY <1>1, <2>2 DEF Kept, Top
<1> DEFINE s == Stream(p)
           d == Kept \o pipe'[p]
<1>3. /\ Framed(s, Open(p)) /\ Len(s) % 2 = 0 /\ s \in Seq(Piece) /\ Len(s) \in Nat
      /\ Len(s) = Len(Kept) + Len(pipe[p]) /\ pipe[p] \in Seq(Piece)
  <2>1. Framed(s, Open(p)) /\ Len(s) % 2 = 0
    BY <1>0, <1>1 DEF StreamFramed
  <2>2. pipe[p] \in Seq(Piece)
    BY <1>t
  <2>3. s \in Seq(Piece) /\ Len(s) \in Nat /\ Len(s) = Len(Kept) + Len(pipe[p])
    BY <1>2, <2>2, ConcatProperties DEF Stream
  <2> QED BY <2>1, <2>2, <2>3
<1>4. Stream(p)' = d
  BY <1>2 DEF Stream
<1>5. Open(p) \subseteq Open(p)'
  BY <1>1 DEF Open
<1> HIDE DEF s, d
<1>6. ASSUME NEW i \in asked[p], NEW w \in Seq(Piece), pipe'[p] = pipe[p] \o w,
             i \notin asked'[p], w = <<<<i, 1>>>> \/ w = Frame(i)
      PROVE  Framed(d, Open(p)') /\ (w = Frame(i) => Len(d) % 2 = 0)
  <2>1. d = s \o w
    <3>1. Kept \in Seq(Piece) /\ pipe[p] \in Seq(Piece) /\ w \in Seq(Piece)
      BY <1>2, <1>3
    <3>2. \A x, y, z \in Seq(Piece) : (x \o y) \o z = x \o (y \o z)
      BY ConcatAssociative, SMTT(30)
    <3>3. (Kept \o pipe[p]) \o w = Kept \o (pipe[p] \o w)
      BY <3>1, <3>2, Zenon
    <3> QED BY <1>6, <3>3, Zenon DEF d, s, Stream
  <2>2. /\ d \in Seq(Piece) /\ Len(d) = Len(s) + Len(w)
        /\ \A k \in 1..(Len(s) + Len(w)) : d[k] = IF k <= Len(s) THEN s[k] ELSE w[k - Len(s)]
    <3>1. s \in Seq(Piece)
      BY <1>3
    <3>2. /\ s \o w \in Seq(Piece) /\ Len(s \o w) = Len(s) + Len(w)
          /\ \A k \in 1..(Len(s) + Len(w)) :
                (s \o w)[k] = IF k <= Len(s) THEN s[k] ELSE w[k - Len(s)]
      BY <3>1, ConcatProperties, Zenon
    <3> QED BY <2>1, <3>2, Zenon
  <2>3. /\ Len(w) \in {1, 2} /\ w[1] = <<i, 1>>
        /\ Len(w) = 2 => w[2] = <<i, 2>>
        /\ w = Frame(i) => Len(w) = 2
    BY <1>6 DEF Frame
  <2>4. \A k \in 1..Len(s) : d[k] = s[k]
    <3>1. \A k \in 1..Len(s) : k \in 1..(Len(s) + Len(w)) /\ k <= Len(s)
      BY <1>3, <2>3
    <3> QED BY <2>2, <3>1, Zenon
  <2>5. d[Len(s) + 1] = <<i, 1>>
    <3>1. /\ Len(s) + 1 \in 1..(Len(s) + Len(w)) /\ ~(Len(s) + 1 <= Len(s))
          /\ Len(s) + 1 - Len(s) = 1
      BY <1>3, <2>3
    <3> QED BY <2>2, <2>3, <3>1
  <2>6. Len(w) = 2 => d[Len(s) + 2] = <<i, 2>>
    <3>1. Len(w) = 2 => /\ Len(s) + 2 \in 1..(Len(s) + Len(w)) /\ ~(Len(s) + 2 <= Len(s))
                        /\ Len(s) + 2 - Len(s) = 2
      BY <1>3
    <3> QED BY <2>2, <2>3, <3>1
  <2>7. i \notin Open(p) /\ Open(p) \cup {i} \subseteq Open(p)'
    BY <1>0, <1>1, <1>5, <1>6 DEF Open, Counted
  <2>8. Framed(d, Open(p) \cup {i})
    BY <1>3, <2>2, <2>3, <2>4, <2>5, <2>6, <2>7, FramedMore
  <2>9. w = Frame(i) => Len(d) % 2 = 0
    <3>1. \A n \in Nat : n % 2 = 0 => (n + 2) % 2 = 0
      OBVIOUS
    <3> QED BY <1>3, <2>2, <2>3, <3>1
  <2> QED BY <2>7, <2>8, <2>9, FramedWider
<1>7. Framed(d, Open(p)') /\ (status'[p] = "run" => Len(d) % 2 = 0)
  <2>1. CASE Answer(p)
    <3>1. PICK i \in asked[p] : /\ asked' = [asked EXCEPT ![p] = @ \ {i}]
                               /\ pipe' = [pipe EXCEPT ![p] = @ \o Frame(i)]
      BY <2>1 DEF Answer
    <3>2. <<i, 1>> \in Piece /\ <<i, 2>> \in Piece
      BY <1>t DEF Piece
    <3>3. Frame(i) \in Seq(Piece)
      BY <3>2 DEF Frame
    <3>4. pipe'[p] = pipe[p] \o Frame(i) /\ i \notin asked'[p]
      BY <1>t, <3>1
    <3> QED BY <1>6, <3>3, <3>4
  <2>2. CASE Die(p) /\ UNCHANGED pipe
    <3>1. d = s /\ status'[p] = "gone"
      BY <1>t, <2>2 DEF Die, d, s, Stream
    <3> QED BY <1>3, <1>5, <3>1, FramedWider
  <2>3. CASE Die(p) /\ ~UNCHANGED pipe
    <3>1. PICK i \in asked[p] : pipe' = [pipe EXCEPT ![p] = Append(@, <<i, 1>>)]
      BY <2>3 DEF Die
    <3>2. <<i, 1>> \in Piece /\ asked'[p] = {} /\ status'[p] = "gone"
      BY <1>t, <2>3 DEF Die, Piece
    <3>3. <<<<i, 1>>>> \in Seq(Piece) /\ pipe'[p] = pipe[p] \o <<<<i, 1>>>>
      <4>1. pipe'[p] = Append(pipe[p], <<i, 1>>)
        BY <1>t, <3>1
      <4>2. Append(pipe[p], <<i, 1>>) = pipe[p] \o <<<<i, 1>>>>
        BY <1>3, <3>2, AppendIsConcat, Zenon
      <4>3. <<<<i, 1>>>> \in Seq(Piece)
        BY <3>2
      <4> QED BY <4>1, <4>2, <4>3
    <3> QED BY <1>6, <3>2, <3>3
  <2> QED BY <2>1, <2>2, <2>3
<1>8. StreamFramed'
  BY <1>1, <1>4, <1>7 DEF StreamFramed
<1>9. OneReader' /\ ~stopped' /\ NothingEarly'
  <2>1. OneReader' /\ ~stopped'
    BY <1>0, <1>1 DEF OneReader, Top
  <2>2. \A q \in Procs : q # p => pipe'[q] = pipe[q] /\ status'[q] = status[q]
    BY <1>1, <1>t DEF Answer, Die
  <2>3. NothingEarly'
    BY <1>0, <1>1, <2>2 DEF NothingEarly
  <2> QED BY <2>1, <2>3
<1> QED BY <1>8, <1>9 DEF PlainInv

\* A server drops a request, Emacs notices that one has exited, or nothing happens.
LEMMA PlainQuiet ==
    ASSUME PlainUse, PlainInv, AnswerInv', OneServer',
           (\E p \in Procs : Drop(p) \/ Notice(p)) \/ UNCHANGED vars
    PROVE  PlainInv'
<1>0. /\ ~stopped /\ OneReader /\ NothingEarly
  BY DEF PlainInv
<1>t. asked \in [Procs -> SUBSET Requests] /\ status \in [Procs -> Statuses]
  BY DEF PlainInv, AnswerInv, TypeOK
<1>1. UNCHANGED <<current, partial, pending, stack, pipe, stopped>>
  BY DEF Drop, Notice, client, server, history, vars
<1>2. \A p \in Procs : /\ asked'[p] \subseteq asked[p]
                       /\ status'[p] = status[p] \/ (status[p] = "gone" /\ status'[p] = "exit")
  BY <1>t DEF Drop, Notice, server, vars
<1>3. \A p \in Procs : Stream(p)' = Stream(p) /\ Open(p) \subseteq Open(p)'
  BY <1>1, <1>2 DEF Stream, Kept, Top, Open
<1>4. StreamFramed'
  BY <1>1, <1>2, <1>3, StreamStays
<1>5. OneReader' /\ ~stopped' /\ NothingEarly'
  BY <1>0, <1>1, <1>2 DEF OneReader, Top, NothingEarly
<1> QED BY <1>4, <1>5 DEF PlainInv

\* No step of Lisp, Emacs or a server makes the filter lose its place.
LEMMA NextPlainInv == PlainUse /\ PlainInv /\ [Next]_vars => PlainInv'
<1> SUFFICES ASSUME PlainUse, PlainInv, [Next]_vars PROVE PlainInv'
  OBVIOUS
<1>1. AnswerInv'
  BY NextAnswerInv DEF PlainInv
<1>2. OneServer'
  BY NextIInv DEF PlainInv, AnswerInv, TypeOK, IInv, TypeRoot
<1>3. ASSUME NEW p \in Procs, Lisp(p) \/ Sentinel(p) PROVE PlainInv'
  BY <1>1, <1>2, <1>3, PlainCommand DEF Lisp
<1>4. ASSUME NEW p \in Procs, Filter(p) PROVE PlainInv'
  BY <1>1, <1>2, <1>4, PlainFilter
<1>5. CASE FilterStep
  BY <1>1, <1>2, <1>5, PlainDispatch, PlainFilterStep
<1>6. ASSUME NEW p \in Procs, Answer(p) \/ Die(p) PROVE PlainInv'
  BY <1>1, <1>2, <1>6, PlainWrite
<1>7. CASE (\E p \in Procs : Drop(p) \/ Notice(p)) \/ UNCHANGED vars
  BY <1>1, <1>2, <1>7, PlainQuiet
<1>8. ~Stop
  BY DEF Stop, PlainUse
<1> QED BY <1>3, <1>4, <1>5, <1>6, <1>7, <1>8 DEF Next, Emacs

\* While callbacks return, magit-server-filter never loses its place in a stream:
\* what is kept for the root and what is still to be read are whole answers to
\* different open requests, and only a server that has died leaves half of one.
THEOREM PlaceKept == ASSUME PlainUse PROVE Spec => []Aligned
<1>1. PlainInv => Aligned
  BY FramedAligned DEF PlainInv
<1>2. PlainInv /\ [Next]_vars => PlainInv'
  BY NextPlainInv
<1> QED BY <1>1, <1>2, InitPlainInv, PTL DEF Spec
=============================================================================
