------------------------- MODULE StatusPartsProofs -------------------------
(***************************************************************************)
(* The captures, the log, the status buffers, the MessagePack layer and    *)
(* the routines of git_handler.c, as parts of MCStatusParts: for any       *)
(* callers, threads, repositories, pairs, lengths and bounds.  A part's    *)
(* invariant is at the end of its own module, that of the routines with    *)
(* their proof, in the last section.  A step of another part leaves the    *)
(* cells a part holds alone.                                               *)
(***************************************************************************)
EXTENDS MCStatusParts, FiniteSetTheorems, TLAPS

-----------------------------------------------------------------------------
(* The captures: pc is v1, ret v2, open v3, out v4, error v5, server v6,   *)
(* cloexec v7, child v8, held v9, keeps v10, wrote v11, code v12, pipe     *)
(* v13, misused v14, window v15.                                           *)

USE PartsAssumption DEF
    Capture!CaptureAssumption, Capture!CaptureInv, Capture!Go, Capture!Fails, Capture!Close,
    Capture!Of, Capture!git, Capture!parent, Capture!files, Capture!Ends, Capture!Streams,
    Capture!Before, Capture!Looping, Capture!ReadEnd, Capture!WriteEnd, Capture!Reap,
    Capture!Exit, Capture!CopyError, Capture!Order

\* Before the first call no pipe exists and no git runs.
LEMMA CaptureInit == Capture!Init => Capture!CaptureInv
<1> SUFFICES ASSUME Capture!Init PROVE Capture!CaptureInv
  OBVIOUS
<1> USE DEF Capture!Init
<1>1. Capture!TypeOK
  BY DEF Capture!TypeOK, Capture!Places, Capture!Descriptors
<1>2. Capture!EndsByPlace
  BY DEF Capture!EndsByPlace
<1>3. Capture!SetByPlace /\ Capture!NothingYet /\ Capture!Drained /\ Capture!ReadToTheEnd
  BY DEF Capture!SetByPlace, Capture!NothingYet, Capture!Drained, Capture!ReadToTheEnd
<1>4. Capture!Accounted
  BY DEF Capture!Accounted, Capture!Most
<1>5. Capture!Settled /\ Capture!HeldByState /\ Capture!KeptFromTheWindow
  BY DEF Capture!Settled, Capture!HeldByState, Capture!KeptFromTheWindow, Capture!Of
<1>6. v14 = {}
  OBVIOUS
<1> QED
  BY <1>1, <1>2, <1>3, <1>4, <1>5, <1>6 DEF Capture!CaptureInv

\* pipe or the first fcntl fails: nothing is open that the caller does not close.
LEMMA CaptureNoPipe ==
  ASSUME Capture!CaptureInv, NEW p \in Callers, Capture!NoPipe(p)
  PROVE  Capture!CaptureInv'
<1> USE DEF Capture!NoPipe
<1>1. Capture!TypeOK'
  BY DEF Capture!TypeOK, Capture!Places, Capture!Descriptors, Capture!EndsByPlace,
     Capture!Accounted, Capture!Most
<1>2. Capture!EndsByPlace'
  BY DEF Capture!EndsByPlace, Capture!TypeOK
<1>3. Capture!SetByPlace'
  BY DEF Capture!SetByPlace, Capture!TypeOK, Capture!EndsByPlace
<1>4. Capture!NothingYet'
  BY DEF Capture!NothingYet, Capture!TypeOK
<1>5. Capture!Accounted'
  BY DEF Capture!Accounted, Capture!Most, Capture!TypeOK
<1>6. Capture!Drained'
  BY DEF Capture!Drained, Capture!TypeOK, Capture!HasWriter, Capture!HeldByState
<1>7. Capture!ReadToTheEnd'
  BY DEF Capture!ReadToTheEnd, Capture!TypeOK
<1>8. Capture!Settled'
  BY DEF Capture!Settled, Capture!NothingYet, Capture!TypeOK, Capture!Drained,
     Capture!ReadToTheEnd, Capture!Accounted
<1>9. Capture!HeldByState'
  BY DEF Capture!HeldByState, Capture!EndsByPlace, Capture!TypeOK
<1>10. Capture!KeptFromTheWindow'
  BY DEF Capture!KeptFromTheWindow, Capture!TypeOK, Capture!SetByPlace,
     Capture!EndsByPlace, Capture!Descriptors
<1>11. v14' = {}
  BY DEF Capture!EndsByPlace
<1> QED
  BY <1>1, <1>2, <1>3, <1>4, <1>5, <1>6, <1>7, <1>8, <1>9, <1>10, <1>11

\* The first pipe: its two ends are the caller's, without FD_CLOEXEC.
LEMMA CapturePipeOut ==
  ASSUME Capture!CaptureInv, NEW p \in Callers, Capture!PipeOut(p)
  PROVE  Capture!CaptureInv'
<1> USE DEF Capture!PipeOut
<1>1. Capture!TypeOK'
  <2>1. /\ v1' \in [Callers -> Capture!Places] /\ v2' \in [Callers -> {-1, 0}]
        /\ v3' \in [Callers -> SUBSET Capture!Streams]
    BY DEF Capture!TypeOK, Capture!Places
  <2>2. v4' \in [Callers -> 0..MaxOut]
    BY DEF Capture!TypeOK
  <2>3. v5' \in [Callers -> 0..(ErrorSize - 1)]
    BY DEF Capture!TypeOK
  <2>4. v6' \subseteq Capture!Descriptors /\ v14' \subseteq Capture!Descriptors
    BY DEF Capture!TypeOK, Capture!Descriptors
  <2>5. v7' \subseteq v6'
    BY DEF Capture!TypeOK, Capture!EndsByPlace
  <2>6. v8' \in [Callers -> {"none", "forked", "runs", "exited", "reaped"}]
    BY DEF Capture!TypeOK
  <2>7. /\ v9' \in [Callers -> SUBSET Capture!Descriptors]
        /\ v10' \in [Callers -> SUBSET Capture!Descriptors]
    BY DEF Capture!TypeOK, Capture!Descriptors
  <2>8. v11' \in [Callers -> [Capture!Streams -> Nat]]
    BY DEF Capture!TypeOK
  <2>10. v12' \in [Callers -> {0, 1}]
    BY DEF Capture!TypeOK
  <2>9. v13' \in [Callers -> [Capture!Streams -> 0..PipeSize]]
    BY DEF Capture!TypeOK
  <2> QED
    BY <2>1, <2>2, <2>3, <2>4, <2>5, <2>6, <2>7, <2>8, <2>9, <2>10 DEF Capture!TypeOK
<1>2. Capture!EndsByPlace'
  BY DEF Capture!EndsByPlace, Capture!TypeOK
<1>3. Capture!SetByPlace'
  BY DEF Capture!SetByPlace, Capture!TypeOK, Capture!EndsByPlace
<1>4. Capture!NothingYet'
  BY DEF Capture!NothingYet, Capture!TypeOK
<1>5. Capture!Accounted'
  BY DEF Capture!Accounted, Capture!Most, Capture!TypeOK
<1>6. Capture!Drained'
  BY DEF Capture!Drained, Capture!TypeOK, Capture!HasWriter, Capture!HeldByState
<1>7. Capture!ReadToTheEnd'
  BY DEF Capture!ReadToTheEnd, Capture!TypeOK
<1>8. Capture!Settled'
  BY DEF Capture!Settled, Capture!NothingYet, Capture!TypeOK, Capture!Drained,
     Capture!ReadToTheEnd, Capture!Accounted
<1>9. Capture!HeldByState'
  BY DEF Capture!HeldByState, Capture!EndsByPlace, Capture!TypeOK
<1>10. Capture!KeptFromTheWindow'
  BY DEF Capture!KeptFromTheWindow, Capture!TypeOK, Capture!SetByPlace,
     Capture!EndsByPlace, Capture!Descriptors
<1>11. v14' = {}
  BY DEF Capture!EndsByPlace
<1> QED
  BY <1>1, <1>2, <1>3, <1>4, <1>5, <1>6, <1>7, <1>8, <1>9, <1>10, <1>11

\* The second pipe, or the end of the first when it cannot be had.
LEMMA CapturePipeErr ==
  ASSUME Capture!CaptureInv, NEW p \in Callers, Capture!PipeErr(p)
  PROVE  Capture!CaptureInv'
<1> USE DEF Capture!PipeErr
<1>1. Capture!TypeOK'
  <2>1. /\ v1' \in [Callers -> Capture!Places] /\ v2' \in [Callers -> {-1, 0}]
        /\ v3' \in [Callers -> SUBSET Capture!Streams]
    BY DEF Capture!TypeOK, Capture!Places
  <2>2. v4' \in [Callers -> 0..MaxOut]
    BY DEF Capture!TypeOK
  <2>3. v5' \in [Callers -> 0..(ErrorSize - 1)]
    BY DEF Capture!TypeOK
  <2>4. v6' \subseteq Capture!Descriptors /\ v14' \subseteq Capture!Descriptors
    BY DEF Capture!TypeOK, Capture!Descriptors
  <2>5. v7' \subseteq v6'
    BY DEF Capture!TypeOK, Capture!EndsByPlace
  <2>6. v8' \in [Callers -> {"none", "forked", "runs", "exited", "reaped"}]
    BY DEF Capture!TypeOK
  <2>7. /\ v9' \in [Callers -> SUBSET Capture!Descriptors]
        /\ v10' \in [Callers -> SUBSET Capture!Descriptors]
    BY DEF Capture!TypeOK, Capture!Descriptors
  <2>8. v11' \in [Callers -> [Capture!Streams -> Nat]]
    BY DEF Capture!TypeOK
  <2>10. v12' \in [Callers -> {0, 1}]
    BY DEF Capture!TypeOK
  <2>9. v13' \in [Callers -> [Capture!Streams -> 0..PipeSize]]
    BY DEF Capture!TypeOK
  <2> QED
    BY <2>1, <2>2, <2>3, <2>4, <2>5, <2>6, <2>7, <2>8, <2>9, <2>10 DEF Capture!TypeOK
<1>2. Capture!EndsByPlace'
  <2>0. v1[p] = "piped" /\ v3' = v3 /\ \A q \in Callers : q # p => v1'[q] = v1[q]
    BY DEF Capture!TypeOK
  <2>1. CASE Capture!Go(p, "out_r") /\ v6' = v6 \cup Capture!Of(p, {"err_r", "err_w"})
    <3>1. \A q \in Callers, e \in Capture!Ends :
             <<q, e>> \in v6' <=> \/ <<q, e>> \in v6
                                  \/ q = p /\ e \in {"err_r", "err_w"}
      BY <2>1
    <3>2. v1'[p] = "out_r"
      BY <2>1 DEF Capture!TypeOK
    <3> QED
      BY <2>0, <3>1, <3>2 DEF Capture!EndsByPlace
  <2>2. CASE Capture!Go(p, "done") /\ Capture!Close(Capture!Of(p, {"out_r", "out_w"}))
    <3>1. \A q \in Callers, e \in Capture!Ends :
             <<q, e>> \in v6' <=> <<q, e>> \in v6 /\ ~(q = p /\ e \in {"out_r", "out_w"})
      BY <2>2
    <3>2. v1'[p] = "done"
      BY <2>2 DEF Capture!TypeOK
    <3> QED
      BY <2>0, <3>1, <3>2 DEF Capture!EndsByPlace
  <2> QED
    BY <2>1, <2>2
<1>3. Capture!SetByPlace'
  <2>0. v1[p] = "piped" /\ \A q \in Callers : q # p => v1'[q] = v1[q]
    BY DEF Capture!TypeOK
  <2>1. v1'[p] \in {"out_r", "done"}
    BY DEF Capture!TypeOK
  <2>2. \A q \in Callers, e \in Capture!Ends : q # p =>
           /\ <<q, e>> \in v6' <=> <<q, e>> \in v6
           /\ <<q, e>> \in v7' <=> <<q, e>> \in v7
    OBVIOUS
  <2> QED
    BY <2>0, <2>1, <2>2 DEF Capture!SetByPlace
<1>4. Capture!NothingYet'
  BY DEF Capture!NothingYet, Capture!TypeOK
<1>5. Capture!Accounted'
  BY DEF Capture!Accounted, Capture!Most, Capture!TypeOK
<1>6. Capture!Drained'
  BY DEF Capture!Drained, Capture!TypeOK, Capture!HasWriter, Capture!HeldByState
<1>7. Capture!ReadToTheEnd'
  BY DEF Capture!ReadToTheEnd, Capture!TypeOK
<1>8. Capture!Settled'
  BY DEF Capture!Settled, Capture!NothingYet, Capture!TypeOK, Capture!Drained,
     Capture!ReadToTheEnd, Capture!Accounted
<1>9. Capture!HeldByState'
  BY DEF Capture!HeldByState, Capture!EndsByPlace, Capture!TypeOK
<1>10. Capture!KeptFromTheWindow'
  BY DEF Capture!KeptFromTheWindow, Capture!TypeOK, Capture!SetByPlace,
     Capture!EndsByPlace, Capture!Descriptors
<1>11. v14' = {}
  BY DEF Capture!EndsByPlace
<1> QED
  BY <1>1, <1>2, <1>3, <1>4, <1>5, <1>6, <1>7, <1>8, <1>9, <1>10, <1>11

\* An fcntl call moves the caller through its four ends in order.
LEMMA CaptureSetCloexec ==
  ASSUME Capture!CaptureInv, NEW p \in Callers, Capture!SetCloexec(p)
  PROVE  Capture!CaptureInv'
<1> USE DEF Capture!SetCloexec
<1>1. Capture!TypeOK'
  <2>1. /\ v1' \in [Callers -> Capture!Places] /\ v2' \in [Callers -> {-1, 0}]
        /\ v3' \in [Callers -> SUBSET Capture!Streams]
    BY DEF Capture!TypeOK, Capture!Places
  <2>2. v4' \in [Callers -> 0..MaxOut]
    BY DEF Capture!TypeOK
  <2>3. v5' \in [Callers -> 0..(ErrorSize - 1)]
    BY DEF Capture!TypeOK
  <2>4. v6' \subseteq Capture!Descriptors /\ v14' \subseteq Capture!Descriptors
    BY DEF Capture!TypeOK, Capture!Descriptors
  <2>5. v7' \subseteq v6'
    <3>1. PICK i \in 1..4 :
             v1[p] = Capture!Order[i] /\ v7' = v7 \cup {<<p, Capture!Order[i]>>}
      OBVIOUS
    <3>2. v1[p] \in Capture!Ends
      BY <3>1
    <3>3. <<p, v1[p]>> \in v6
      BY <3>2 DEF Capture!EndsByPlace
    <3>4. v7 \subseteq v6 /\ v6' = v6
      BY DEF Capture!TypeOK
    <3>5. v7' = v7 \cup {<<p, v1[p]>>}
      BY <3>1
    <3> HIDE DEF Capture!SetCloexec, Capture!CaptureInv
    <3> QED
      BY <3>3, <3>4, <3>5
  <2>6. v8' \in [Callers -> {"none", "forked", "runs", "exited", "reaped"}]
    BY DEF Capture!TypeOK
  <2>7. /\ v9' \in [Callers -> SUBSET Capture!Descriptors]
        /\ v10' \in [Callers -> SUBSET Capture!Descriptors]
    BY DEF Capture!TypeOK, Capture!Descriptors
  <2>8. v11' \in [Callers -> [Capture!Streams -> Nat]]
    BY DEF Capture!TypeOK
  <2>10. v12' \in [Callers -> {0, 1}]
    BY DEF Capture!TypeOK
  <2>9. v13' \in [Callers -> [Capture!Streams -> 0..PipeSize]]
    BY DEF Capture!TypeOK
  <2> QED
    BY <2>1, <2>2, <2>3, <2>4, <2>5, <2>6, <2>7, <2>8, <2>9, <2>10 DEF Capture!TypeOK
<1>2. Capture!EndsByPlace'
  <2>1. \A q \in Callers :
           v1'[q] # v1[q] => v1[q] \in Capture!Ends /\ v1'[q] \in Capture!Ends \cup {"fork"}
    BY DEF Capture!TypeOK
  <2>2. v6' = v6 /\ v3' = v3
    OBVIOUS
  <2> QED
    BY <2>1, <2>2 DEF Capture!EndsByPlace
<1>3. Capture!SetByPlace'
  <2>1. /\ v6' = v6 /\ v7 \subseteq v7' /\ <<p, v1[p]>> \in v7'
        /\ v1'[p] = IF v1[p] = "out_r" THEN "out_w"
                     ELSE IF v1[p] = "out_w" THEN "err_r"
                     ELSE IF v1[p] = "err_r" THEN "err_w" ELSE "fork"
        /\ v1[p] \in Capture!Ends
        /\ \A q \in Callers : q # p => v1'[q] = v1[q]
    BY DEF Capture!TypeOK
  <2> QED
    BY <2>1 DEF Capture!SetByPlace
<1>4. Capture!NothingYet'
  BY DEF Capture!NothingYet, Capture!TypeOK
<1>5. Capture!Accounted'
  BY DEF Capture!Accounted, Capture!Most, Capture!TypeOK
<1>6. Capture!Drained'
  BY DEF Capture!Drained, Capture!TypeOK, Capture!HasWriter, Capture!HeldByState
<1>7. Capture!ReadToTheEnd'
  BY DEF Capture!ReadToTheEnd, Capture!TypeOK
<1>8. Capture!Settled'
  BY DEF Capture!Settled, Capture!NothingYet, Capture!TypeOK, Capture!Drained,
     Capture!ReadToTheEnd, Capture!Accounted
<1>9. Capture!HeldByState'
  BY DEF Capture!HeldByState, Capture!EndsByPlace, Capture!TypeOK
<1>10. Capture!KeptFromTheWindow'
  BY DEF Capture!KeptFromTheWindow, Capture!TypeOK, Capture!SetByPlace,
     Capture!EndsByPlace, Capture!Descriptors
<1>11. v14' = {}
  BY DEF Capture!EndsByPlace
<1> QED
  BY <1>1, <1>2, <1>3, <1>4, <1>5, <1>6, <1>7, <1>8, <1>9, <1>10, <1>11

\* posix_spawn or fork fails: the four ends are closed.
LEMMA CaptureNoChild ==
  ASSUME Capture!CaptureInv, NEW p \in Callers, Capture!NoChild(p)
  PROVE  Capture!CaptureInv'
<1> USE DEF Capture!NoChild
<1>1. Capture!TypeOK'
  <2>1. /\ v1' \in [Callers -> Capture!Places] /\ v2' \in [Callers -> {-1, 0}]
        /\ v3' \in [Callers -> SUBSET Capture!Streams]
    BY DEF Capture!TypeOK, Capture!Places
  <2>2. v4' \in [Callers -> 0..MaxOut]
    BY DEF Capture!TypeOK
  <2>3. v5' \in [Callers -> 0..(ErrorSize - 1)]
    BY DEF Capture!TypeOK
  <2>4. v6' \subseteq Capture!Descriptors /\ v14' \subseteq Capture!Descriptors
    BY DEF Capture!TypeOK, Capture!Descriptors
  <2>5. v7' \subseteq v6'
    BY DEF Capture!TypeOK, Capture!EndsByPlace
  <2>6. v8' \in [Callers -> {"none", "forked", "runs", "exited", "reaped"}]
    BY DEF Capture!TypeOK
  <2>7. /\ v9' \in [Callers -> SUBSET Capture!Descriptors]
        /\ v10' \in [Callers -> SUBSET Capture!Descriptors]
    BY DEF Capture!TypeOK, Capture!Descriptors
  <2>8. v11' \in [Callers -> [Capture!Streams -> Nat]]
    BY DEF Capture!TypeOK
  <2>10. v12' \in [Callers -> {0, 1}]
    BY DEF Capture!TypeOK
  <2>9. v13' \in [Callers -> [Capture!Streams -> 0..PipeSize]]
    BY DEF Capture!TypeOK
  <2> QED
    BY <2>1, <2>2, <2>3, <2>4, <2>5, <2>6, <2>7, <2>8, <2>9, <2>10 DEF Capture!TypeOK
<1>2. Capture!EndsByPlace'
  BY DEF Capture!EndsByPlace, Capture!TypeOK
<1>3. Capture!SetByPlace'
  BY DEF Capture!SetByPlace, Capture!TypeOK, Capture!EndsByPlace
<1>4. Capture!NothingYet'
  BY DEF Capture!NothingYet, Capture!TypeOK
<1>5. Capture!Accounted'
  BY DEF Capture!Accounted, Capture!Most, Capture!TypeOK
<1>6. Capture!Drained'
  BY DEF Capture!Drained, Capture!TypeOK, Capture!HasWriter, Capture!HeldByState
<1>7. Capture!ReadToTheEnd'
  BY DEF Capture!ReadToTheEnd, Capture!TypeOK
<1>8. Capture!Settled'
  BY DEF Capture!Settled, Capture!NothingYet, Capture!TypeOK, Capture!Drained,
     Capture!ReadToTheEnd, Capture!Accounted
<1>9. Capture!HeldByState'
  BY DEF Capture!HeldByState, Capture!EndsByPlace, Capture!TypeOK
<1>10. Capture!KeptFromTheWindow'
  BY DEF Capture!KeptFromTheWindow, Capture!TypeOK, Capture!SetByPlace,
     Capture!EndsByPlace, Capture!Descriptors
<1>11. v14' = {}
  BY DEF Capture!EndsByPlace
<1> QED
  BY <1>1, <1>2, <1>3, <1>4, <1>5, <1>6, <1>7, <1>8, <1>9, <1>10, <1>11

\* The fork: git holds copies of what is open in the server, and the caller
\* closes its write ends.
LEMMA CaptureFork ==
  ASSUME Capture!CaptureInv, NEW p \in Callers, Capture!Fork(p)
  PROVE  Capture!CaptureInv'
<1> USE DEF Capture!Fork
<1>1. Capture!TypeOK'
  <2>1. /\ v1' \in [Callers -> Capture!Places] /\ v2' \in [Callers -> {-1, 0}]
        /\ v3' \in [Callers -> SUBSET Capture!Streams]
    BY DEF Capture!TypeOK, Capture!Places
  <2>2. v4' \in [Callers -> 0..MaxOut]
    BY DEF Capture!TypeOK
  <2>3. v5' \in [Callers -> 0..(ErrorSize - 1)]
    BY DEF Capture!TypeOK
  <2>4. v6' \subseteq Capture!Descriptors /\ v14' \subseteq Capture!Descriptors
    BY DEF Capture!TypeOK, Capture!Descriptors
  <2>5. v7' \subseteq v6'
    BY DEF Capture!TypeOK, Capture!EndsByPlace
  <2>6. v8' \in [Callers -> {"none", "forked", "runs", "exited", "reaped"}]
    BY DEF Capture!TypeOK
  <2>7. /\ v9' \in [Callers -> SUBSET Capture!Descriptors]
        /\ v10' \in [Callers -> SUBSET Capture!Descriptors]
    BY DEF Capture!TypeOK, Capture!Descriptors
  <2>8. v11' \in [Callers -> [Capture!Streams -> Nat]]
    BY DEF Capture!TypeOK
  <2>10. v12' \in [Callers -> {0, 1}]
    BY DEF Capture!TypeOK
  <2>9. v13' \in [Callers -> [Capture!Streams -> 0..PipeSize]]
    BY DEF Capture!TypeOK
  <2> QED
    BY <2>1, <2>2, <2>3, <2>4, <2>5, <2>6, <2>7, <2>8, <2>9, <2>10 DEF Capture!TypeOK
<1>2. Capture!EndsByPlace'
  BY DEF Capture!EndsByPlace, Capture!TypeOK
<1>3. Capture!SetByPlace'
  BY DEF Capture!SetByPlace, Capture!TypeOK, Capture!EndsByPlace
<1>4. Capture!NothingYet'
  BY DEF Capture!NothingYet, Capture!TypeOK
<1>5. Capture!Accounted'
  BY DEF Capture!Accounted, Capture!Most, Capture!TypeOK
<1>6. Capture!Drained'
  BY DEF Capture!Drained, Capture!TypeOK, Capture!HasWriter, Capture!HeldByState
<1>7. Capture!ReadToTheEnd'
  BY DEF Capture!ReadToTheEnd, Capture!TypeOK
<1>8. Capture!Settled'
  BY DEF Capture!Settled, Capture!NothingYet, Capture!TypeOK, Capture!Drained,
     Capture!ReadToTheEnd, Capture!Accounted
<1>9. Capture!HeldByState'
  <2>1. Capture!Of(p, {"out_w", "err_w"}) \subseteq v6
    BY DEF Capture!EndsByPlace
  <2>2. /\ v8' = [v8 EXCEPT ![p] = "forked"] /\ v9' = [v9 EXCEPT ![p] = v6]
        /\ v10' = [v10 EXCEPT ![p] = v6 \ v7]
    OBVIOUS
  <2>3. /\ DOMAIN v8 = Callers /\ DOMAIN v9 = Callers /\ DOMAIN v10 = Callers
    BY DEF Capture!TypeOK
  <2> HIDE DEF Capture!Fork
  <2> QED
    BY <2>1, <2>2, <2>3 DEF Capture!HeldByState
<1>10. Capture!KeptFromTheWindow'
  BY DEF Capture!KeptFromTheWindow, Capture!TypeOK, Capture!SetByPlace,
     Capture!EndsByPlace, Capture!Descriptors
<1>11. v14' = {}
  BY DEF Capture!EndsByPlace
<1> QED
  BY <1>1, <1>2, <1>3, <1>4, <1>5, <1>6, <1>7, <1>8, <1>9, <1>10, <1>11

\* poll fails: the loop is left with its read ends open.
LEMMA CapturePollFails ==
  ASSUME Capture!CaptureInv, NEW p \in Callers, Capture!PollFails(p)
  PROVE  Capture!CaptureInv'
<1> USE DEF Capture!PollFails
<1>1. Capture!TypeOK'
  BY DEF Capture!TypeOK, Capture!Places, Capture!Descriptors, Capture!EndsByPlace,
     Capture!Accounted, Capture!Most
<1>2. Capture!EndsByPlace'
  BY DEF Capture!EndsByPlace, Capture!TypeOK
<1>3. Capture!SetByPlace'
  BY DEF Capture!SetByPlace, Capture!TypeOK, Capture!EndsByPlace
<1>4. Capture!NothingYet'
  BY DEF Capture!NothingYet, Capture!TypeOK
<1>5. Capture!Accounted'
  BY DEF Capture!Accounted, Capture!Most, Capture!TypeOK
<1>6. Capture!Drained'
  BY DEF Capture!Drained, Capture!TypeOK, Capture!HasWriter, Capture!HeldByState
<1>7. Capture!ReadToTheEnd'
  BY DEF Capture!ReadToTheEnd, Capture!TypeOK
<1>8. Capture!Settled'
  BY DEF Capture!Settled, Capture!NothingYet, Capture!TypeOK, Capture!Drained,
     Capture!ReadToTheEnd, Capture!Accounted
<1>9. Capture!HeldByState'
  BY DEF Capture!HeldByState, Capture!EndsByPlace, Capture!TypeOK
<1>10. Capture!KeptFromTheWindow'
  BY DEF Capture!KeptFromTheWindow, Capture!TypeOK, Capture!SetByPlace,
     Capture!EndsByPlace, Capture!Descriptors
<1>11. v14' = {}
  BY DEF Capture!EndsByPlace
<1> QED
  BY <1>1, <1>2, <1>3, <1>4, <1>5, <1>6, <1>7, <1>8, <1>9, <1>10, <1>11

\* Both streams are at their end.
LEMMA CaptureLoopEnds ==
  ASSUME Capture!CaptureInv, NEW p \in Callers, Capture!LoopEnds(p)
  PROVE  Capture!CaptureInv'
<1> USE DEF Capture!LoopEnds
<1>1. Capture!TypeOK'
  BY DEF Capture!TypeOK, Capture!Places, Capture!Descriptors, Capture!EndsByPlace,
     Capture!Accounted, Capture!Most
<1>2. Capture!EndsByPlace'
  BY DEF Capture!EndsByPlace, Capture!TypeOK
<1>3. Capture!SetByPlace'
  BY DEF Capture!SetByPlace, Capture!TypeOK, Capture!EndsByPlace
<1>4. Capture!NothingYet'
  BY DEF Capture!NothingYet, Capture!TypeOK
<1>5. Capture!Accounted'
  BY DEF Capture!Accounted, Capture!Most, Capture!TypeOK
<1>6. Capture!Drained'
  BY DEF Capture!Drained, Capture!TypeOK, Capture!HasWriter, Capture!HeldByState
<1>7. Capture!ReadToTheEnd'
  BY DEF Capture!ReadToTheEnd, Capture!TypeOK
<1>8. Capture!Settled'
  BY DEF Capture!Settled, Capture!NothingYet, Capture!TypeOK, Capture!Drained,
     Capture!ReadToTheEnd, Capture!Accounted
<1>9. Capture!HeldByState'
  BY DEF Capture!HeldByState, Capture!EndsByPlace, Capture!TypeOK
<1>10. Capture!KeptFromTheWindow'
  BY DEF Capture!KeptFromTheWindow, Capture!TypeOK, Capture!SetByPlace,
     Capture!EndsByPlace, Capture!Descriptors
<1>11. v14' = {}
  BY DEF Capture!EndsByPlace
<1> QED
  BY <1>1, <1>2, <1>3, <1>4, <1>5, <1>6, <1>7, <1>8, <1>9, <1>10, <1>11

\* What the loop left open is closed.
LEMMA CaptureCloseRest ==
  ASSUME Capture!CaptureInv, NEW p \in Callers, Capture!CloseRest(p)
  PROVE  Capture!CaptureInv'
<1> USE DEF Capture!CloseRest
<1>1. Capture!TypeOK'
  <2>1. /\ v1' \in [Callers -> Capture!Places] /\ v2' \in [Callers -> {-1, 0}]
        /\ v3' \in [Callers -> SUBSET Capture!Streams]
    BY DEF Capture!TypeOK, Capture!Places
  <2>2. v4' \in [Callers -> 0..MaxOut]
    BY DEF Capture!TypeOK
  <2>3. v5' \in [Callers -> 0..(ErrorSize - 1)]
    BY DEF Capture!TypeOK
  <2>4. v6' \subseteq Capture!Descriptors /\ v14' \subseteq Capture!Descriptors
    BY DEF Capture!TypeOK, Capture!Descriptors
  <2>5. v7' \subseteq v6'
    BY DEF Capture!TypeOK, Capture!EndsByPlace
  <2>6. v8' \in [Callers -> {"none", "forked", "runs", "exited", "reaped"}]
    BY DEF Capture!TypeOK
  <2>7. /\ v9' \in [Callers -> SUBSET Capture!Descriptors]
        /\ v10' \in [Callers -> SUBSET Capture!Descriptors]
    BY DEF Capture!TypeOK, Capture!Descriptors
  <2>8. v11' \in [Callers -> [Capture!Streams -> Nat]]
    BY DEF Capture!TypeOK
  <2>10. v12' \in [Callers -> {0, 1}]
    BY DEF Capture!TypeOK
  <2>9. v13' \in [Callers -> [Capture!Streams -> 0..PipeSize]]
    BY DEF Capture!TypeOK
  <2> QED
    BY <2>1, <2>2, <2>3, <2>4, <2>5, <2>6, <2>7, <2>8, <2>9, <2>10 DEF Capture!TypeOK
<1>2. Capture!EndsByPlace'
  BY DEF Capture!EndsByPlace, Capture!TypeOK
<1>3. Capture!SetByPlace'
  BY DEF Capture!SetByPlace, Capture!TypeOK, Capture!EndsByPlace
<1>4. Capture!NothingYet'
  BY DEF Capture!NothingYet, Capture!TypeOK
<1>5. Capture!Accounted'
  BY DEF Capture!Accounted, Capture!Most, Capture!TypeOK
<1>6. Capture!Drained'
  BY DEF Capture!Drained, Capture!TypeOK, Capture!ReadToTheEnd
<1>7. Capture!ReadToTheEnd'
  BY DEF Capture!ReadToTheEnd, Capture!TypeOK
<1>8. Capture!Settled'
  BY DEF Capture!Settled, Capture!NothingYet, Capture!TypeOK, Capture!Drained,
     Capture!ReadToTheEnd, Capture!Accounted
<1>9. Capture!HeldByState'
  BY DEF Capture!HeldByState, Capture!EndsByPlace, Capture!TypeOK
<1>10. Capture!KeptFromTheWindow'
  BY DEF Capture!KeptFromTheWindow, Capture!TypeOK, Capture!SetByPlace,
     Capture!EndsByPlace, Capture!Descriptors
<1>11. v14' = {}
  BY DEF Capture!EndsByPlace
<1> QED
  BY <1>1, <1>2, <1>3, <1>4, <1>5, <1>6, <1>7, <1>8, <1>9, <1>10, <1>11

\* waitpid: the output is kept only if all was read and git succeeded.
LEMMA CaptureWait ==
  ASSUME Capture!CaptureInv, NEW p \in Callers, Capture!Wait(p)
  PROVE  Capture!CaptureInv'
<1> USE DEF Capture!Wait
<1>1. Capture!TypeOK'
  <2>1. /\ v1' \in [Callers -> Capture!Places] /\ v2' \in [Callers -> {-1, 0}]
        /\ v3' \in [Callers -> SUBSET Capture!Streams]
    BY DEF Capture!TypeOK, Capture!Places
  <2>2. v4' \in [Callers -> 0..MaxOut]
    <3>1. v4 \in [Callers -> 0..MaxOut] /\ 0 \in 0..MaxOut
      BY DEF Capture!TypeOK
    <3>2. v4' = v4 \/ v4' = [v4 EXCEPT ![p] = 0]
      OBVIOUS
    <3> QED
      BY <3>1, <3>2
  <2>3. v5' \in [Callers -> 0..(ErrorSize - 1)]
    BY DEF Capture!TypeOK
  <2>4. v6' \subseteq Capture!Descriptors /\ v14' \subseteq Capture!Descriptors
    BY DEF Capture!TypeOK, Capture!Descriptors
  <2>5. v7' \subseteq v6'
    BY DEF Capture!TypeOK, Capture!EndsByPlace
  <2>6. v8' \in [Callers -> {"none", "forked", "runs", "exited", "reaped"}]
    BY DEF Capture!TypeOK
  <2>7. /\ v9' \in [Callers -> SUBSET Capture!Descriptors]
        /\ v10' \in [Callers -> SUBSET Capture!Descriptors]
    BY DEF Capture!TypeOK, Capture!Descriptors
  <2>8. v11' \in [Callers -> [Capture!Streams -> Nat]]
    BY DEF Capture!TypeOK
  <2>10. v12' \in [Callers -> {0, 1}]
    BY DEF Capture!TypeOK
  <2>9. v13' \in [Callers -> [Capture!Streams -> 0..PipeSize]]
    BY DEF Capture!TypeOK
  <2> QED
    BY <2>1, <2>2, <2>3, <2>4, <2>5, <2>6, <2>7, <2>8, <2>9, <2>10 DEF Capture!TypeOK
<1>2. Capture!EndsByPlace'
  BY DEF Capture!EndsByPlace, Capture!TypeOK
<1>3. Capture!SetByPlace'
  BY DEF Capture!SetByPlace, Capture!TypeOK, Capture!EndsByPlace
<1>4. Capture!NothingYet'
  BY DEF Capture!NothingYet, Capture!TypeOK
<1>5. Capture!Accounted'
  BY DEF Capture!Accounted, Capture!Most, Capture!TypeOK
<1>6. Capture!Drained'
  BY DEF Capture!Drained, Capture!TypeOK, Capture!HasWriter, Capture!HeldByState
<1>7. Capture!ReadToTheEnd'
  BY DEF Capture!ReadToTheEnd, Capture!TypeOK
<1>8. Capture!Settled'
  BY DEF Capture!Settled, Capture!NothingYet, Capture!TypeOK, Capture!Drained,
     Capture!ReadToTheEnd, Capture!Accounted
<1>9. Capture!HeldByState'
  BY DEF Capture!HeldByState, Capture!EndsByPlace, Capture!TypeOK
<1>10. Capture!KeptFromTheWindow'
  BY DEF Capture!KeptFromTheWindow, Capture!TypeOK, Capture!SetByPlace,
     Capture!EndsByPlace, Capture!Descriptors
<1>11. v14' = {}
  BY DEF Capture!EndsByPlace
<1> QED
  BY <1>1, <1>2, <1>3, <1>4, <1>5, <1>6, <1>7, <1>8, <1>9, <1>10, <1>11

\* waitpid fails: the output is dropped.
LEMMA CaptureWaitFails ==
  ASSUME Capture!CaptureInv, NEW p \in Callers, Capture!WaitFails(p)
  PROVE  Capture!CaptureInv'
<1> USE DEF Capture!WaitFails
<1>1. Capture!TypeOK'
  <2>1. /\ v1' \in [Callers -> Capture!Places] /\ v2' \in [Callers -> {-1, 0}]
        /\ v3' \in [Callers -> SUBSET Capture!Streams]
    BY DEF Capture!TypeOK, Capture!Places
  <2>2. v4' \in [Callers -> 0..MaxOut]
    BY DEF Capture!TypeOK
  <2>3. v5' \in [Callers -> 0..(ErrorSize - 1)]
    BY DEF Capture!TypeOK
  <2>4. v6' \subseteq Capture!Descriptors /\ v14' \subseteq Capture!Descriptors
    BY DEF Capture!TypeOK, Capture!Descriptors
  <2>5. v7' \subseteq v6'
    BY DEF Capture!TypeOK, Capture!EndsByPlace
  <2>6. v8' \in [Callers -> {"none", "forked", "runs", "exited", "reaped"}]
    BY DEF Capture!TypeOK
  <2>7. /\ v9' \in [Callers -> SUBSET Capture!Descriptors]
        /\ v10' \in [Callers -> SUBSET Capture!Descriptors]
    BY DEF Capture!TypeOK, Capture!Descriptors
  <2>8. v11' \in [Callers -> [Capture!Streams -> Nat]]
    BY DEF Capture!TypeOK
  <2>10. v12' \in [Callers -> {0, 1}]
    BY DEF Capture!TypeOK
  <2>9. v13' \in [Callers -> [Capture!Streams -> 0..PipeSize]]
    BY DEF Capture!TypeOK
  <2> QED
    BY <2>1, <2>2, <2>3, <2>4, <2>5, <2>6, <2>7, <2>8, <2>9, <2>10 DEF Capture!TypeOK
<1>2. Capture!EndsByPlace'
  BY DEF Capture!EndsByPlace, Capture!TypeOK
<1>3. Capture!SetByPlace'
  BY DEF Capture!SetByPlace, Capture!TypeOK, Capture!EndsByPlace
<1>4. Capture!NothingYet'
  BY DEF Capture!NothingYet, Capture!TypeOK
<1>5. Capture!Accounted'
  BY DEF Capture!Accounted, Capture!Most, Capture!TypeOK
<1>6. Capture!Drained'
  BY DEF Capture!Drained, Capture!TypeOK, Capture!HasWriter, Capture!HeldByState
<1>7. Capture!ReadToTheEnd'
  BY DEF Capture!ReadToTheEnd, Capture!TypeOK
<1>8. Capture!Settled'
  BY DEF Capture!Settled, Capture!NothingYet, Capture!TypeOK, Capture!Drained,
     Capture!ReadToTheEnd, Capture!Accounted
<1>9. Capture!HeldByState'
  BY DEF Capture!HeldByState, Capture!EndsByPlace, Capture!TypeOK
<1>10. Capture!KeptFromTheWindow'
  BY DEF Capture!KeptFromTheWindow, Capture!TypeOK, Capture!SetByPlace,
     Capture!EndsByPlace, Capture!Descriptors
<1>11. v14' = {}
  BY DEF Capture!EndsByPlace
<1> QED
  BY <1>1, <1>2, <1>3, <1>4, <1>5, <1>6, <1>7, <1>8, <1>9, <1>10, <1>11

\* A byte moves from the pipe to the caller.
LEMMA CaptureRead ==
  ASSUME Capture!CaptureInv, NEW p \in Callers, NEW s \in Capture!Streams,
         Capture!Read(p, s)
  PROVE  Capture!CaptureInv'
<1> USE DEF Capture!Read
<1>1. Capture!TypeOK'
  <2>1. /\ v1' \in [Callers -> Capture!Places] /\ v2' \in [Callers -> {-1, 0}]
        /\ v3' \in [Callers -> SUBSET Capture!Streams]
    BY DEF Capture!TypeOK, Capture!Places
  <2>2. v4' \in [Callers -> 0..MaxOut]
    <3>1. CASE v4' = v4
      BY <3>1 DEF Capture!TypeOK
    <3>2. CASE s = "out" /\ v4' = [v4 EXCEPT ![p] = @ + 1]
      <4>1. v11[p]["out"] <= MaxOut /\ v11[p]["out"] = v4[p] + v13[p]["out"] /\ v13[p]["out"] > 0
        BY <3>2 DEF Capture!Accounted, Capture!Most
      <4>2. /\ v4 \in [Callers -> 0..MaxOut] /\ v11[p]["out"] \in Nat
            /\ v13[p]["out"] \in Nat /\ MaxOut \in Nat
        BY DEF Capture!TypeOK
      <4>3. v4[p] + 1 \in 0..MaxOut
        BY <4>1, <4>2
      <4> QED
        BY <3>2, <4>2, <4>3
    <3> QED
      BY <3>1, <3>2
  <2>3. v5' \in [Callers -> 0..(ErrorSize - 1)]
    <3>1. v5 \in [Callers -> 0..(ErrorSize - 1)] /\ ErrorSize \in Nat \ {0}
      BY DEF Capture!TypeOK
    <3>2. v5' = v5 \/ Capture!CopyError(p)
      BY DEF Capture!Read
    <3> HIDE DEF Capture!Read, Capture!CaptureInv
    <3> QED
      BY <3>1, <3>2
  <2>4. v6' \subseteq Capture!Descriptors /\ v14' \subseteq Capture!Descriptors
    BY DEF Capture!TypeOK, Capture!Descriptors
  <2>5. v7' \subseteq v6'
    BY DEF Capture!TypeOK, Capture!EndsByPlace
  <2>6. v8' \in [Callers -> {"none", "forked", "runs", "exited", "reaped"}]
    BY DEF Capture!TypeOK
  <2>7. /\ v9' \in [Callers -> SUBSET Capture!Descriptors]
        /\ v10' \in [Callers -> SUBSET Capture!Descriptors]
    BY DEF Capture!TypeOK, Capture!Descriptors
  <2>8. v11' \in [Callers -> [Capture!Streams -> Nat]]
    BY DEF Capture!TypeOK
  <2>10. v12' \in [Callers -> {0, 1}]
    BY DEF Capture!TypeOK
  <2>9. v13' \in [Callers -> [Capture!Streams -> 0..PipeSize]]
    BY DEF Capture!TypeOK
  <2> QED
    BY <2>1, <2>2, <2>3, <2>4, <2>5, <2>6, <2>7, <2>8, <2>9, <2>10 DEF Capture!TypeOK
<1>2. Capture!EndsByPlace'
  BY DEF Capture!EndsByPlace, Capture!TypeOK
<1>3. Capture!SetByPlace'
  BY DEF Capture!SetByPlace, Capture!TypeOK, Capture!EndsByPlace
<1>4. Capture!NothingYet'
  BY DEF Capture!NothingYet, Capture!TypeOK
<1>5. Capture!Accounted'
  <2>1. \A q \in Callers : v13'[q]["out"] =
           IF q = p /\ s = "out" THEN v13[q]["out"] - 1 ELSE v13[q]["out"]
    BY DEF Capture!TypeOK
  <2>2. \A q \in Callers : v4'[q] = IF q = p /\ s = "out" THEN v4[q] + 1 ELSE v4[q]
    BY DEF Capture!TypeOK
  <2>3. v1' = v1 /\ v11' = v11
    OBVIOUS
  <2>4. \A q \in Callers : v13[q]["out"] \in Int /\ v4[q] \in Int /\ v11[q]["out"] \in Int
    BY DEF Capture!TypeOK
  <2> HIDE DEF Capture!CaptureInv, Capture!Read
  <2> QED
    BY <2>1, <2>2, <2>3, <2>4 DEF Capture!Accounted, Capture!Most, Capture!CaptureInv
<1>6. Capture!Drained'
  BY DEF Capture!Drained, Capture!TypeOK, Capture!HasWriter, Capture!HeldByState
<1>7. Capture!ReadToTheEnd'
  BY DEF Capture!ReadToTheEnd, Capture!TypeOK
<1>8. Capture!Settled'
  BY DEF Capture!Settled, Capture!NothingYet, Capture!TypeOK, Capture!Drained,
     Capture!ReadToTheEnd, Capture!Accounted
<1>9. Capture!HeldByState'
  BY DEF Capture!HeldByState, Capture!EndsByPlace, Capture!TypeOK
<1>10. Capture!KeptFromTheWindow'
  BY DEF Capture!KeptFromTheWindow, Capture!TypeOK, Capture!SetByPlace,
     Capture!EndsByPlace, Capture!Descriptors
<1>11. v14' = {}
  BY DEF Capture!EndsByPlace
<1> QED
  BY <1>1, <1>2, <1>3, <1>4, <1>5, <1>6, <1>7, <1>8, <1>9, <1>10, <1>11

\* No writer is left: the read end is closed.
LEMMA CaptureEndOfStream ==
  ASSUME Capture!CaptureInv, NEW p \in Callers, NEW s \in Capture!Streams,
         Capture!EndOfStream(p, s)
  PROVE  Capture!CaptureInv'
<1> USE DEF Capture!EndOfStream
<1>1. Capture!TypeOK'
  <2>1. /\ v1' \in [Callers -> Capture!Places] /\ v2' \in [Callers -> {-1, 0}]
        /\ v3' \in [Callers -> SUBSET Capture!Streams]
    BY DEF Capture!TypeOK, Capture!Places
  <2>2. v4' \in [Callers -> 0..MaxOut]
    BY DEF Capture!TypeOK
  <2>3. v5' \in [Callers -> 0..(ErrorSize - 1)]
    BY DEF Capture!TypeOK
  <2>4. v6' \subseteq Capture!Descriptors /\ v14' \subseteq Capture!Descriptors
    BY DEF Capture!TypeOK, Capture!Descriptors
  <2>5. v7' \subseteq v6'
    BY DEF Capture!TypeOK, Capture!EndsByPlace
  <2>6. v8' \in [Callers -> {"none", "forked", "runs", "exited", "reaped"}]
    BY DEF Capture!TypeOK
  <2>7. /\ v9' \in [Callers -> SUBSET Capture!Descriptors]
        /\ v10' \in [Callers -> SUBSET Capture!Descriptors]
    BY DEF Capture!TypeOK, Capture!Descriptors
  <2>8. v11' \in [Callers -> [Capture!Streams -> Nat]]
    BY DEF Capture!TypeOK
  <2>10. v12' \in [Callers -> {0, 1}]
    BY DEF Capture!TypeOK
  <2>9. v13' \in [Callers -> [Capture!Streams -> 0..PipeSize]]
    BY DEF Capture!TypeOK
  <2> QED
    BY <2>1, <2>2, <2>3, <2>4, <2>5, <2>6, <2>7, <2>8, <2>9, <2>10 DEF Capture!TypeOK
<1>2. Capture!EndsByPlace'
  <2>1. /\ v1' = v1 /\ v1[p] = "poll"
        /\ \A q \in Callers : v3'[q] = IF q = p THEN v3[q] \ {s} ELSE v3[q]
    BY DEF Capture!TypeOK
  <2>2. \A q \in Callers, e \in Capture!Ends :
          <<q, e>> \in v6' <=> <<q, e>> \in v6 /\ ~(q = p /\ e = Capture!ReadEnd(s))
    OBVIOUS
  <2>3. \A t \in Capture!Streams : Capture!ReadEnd(t) = Capture!ReadEnd(s) => t = s
    OBVIOUS
  <2>4. \A q \in Callers : v3[q] \subseteq Capture!Streams
    BY DEF Capture!TypeOK
  <2>5. Capture!EndsByPlace
    OBVIOUS
  <2> HIDE DEF Capture!EndOfStream, Capture!CaptureInv, Capture!ReadEnd
  <2> SUFFICES ASSUME NEW q \in Callers, NEW e \in Capture!Ends
               PROVE  <<q, e>> \in v6' <=>
                        \/ v1'[q] = "piped" /\ e \in {"out_r", "out_w"}
                        \/ v1'[q] \in Capture!Ends \cup {"fork"}
                        \/ v1'[q] \in {"poll", "close"} /\
                             \E t \in v3'[q] : e = Capture!ReadEnd(t)
    BY DEF Capture!EndsByPlace
  <2>6. CASE q # p
    <3>1. (<<q, e>> \in v6' <=> <<q, e>> \in v6) /\ v1'[q] = v1[q] /\ v3'[q] = v3[q]
      BY <2>1, <2>2, <2>6
    <3>2. <<q, e>> \in v6 <=>
            \/ v1[q] = "piped" /\ e \in {"out_r", "out_w"}
            \/ v1[q] \in Capture!Ends \cup {"fork"}
            \/ v1[q] \in {"poll", "close"} /\ \E t \in v3[q] : e = Capture!ReadEnd(t)
      BY <2>5 DEF Capture!EndsByPlace
    <3> QED
      BY <3>1, <3>2
  <2>7. CASE q = p
    <3>1. <<p, e>> \in v6 <=> \E t \in v3[p] : e = Capture!ReadEnd(t)
      BY <2>1, <2>5, <2>7 DEF Capture!EndsByPlace
    <3> QED
      BY <2>1, <2>2, <2>3, <2>4, <2>7, <3>1
  <2> QED
    BY <2>6, <2>7
<1>3. Capture!SetByPlace'
  BY DEF Capture!SetByPlace, Capture!TypeOK, Capture!EndsByPlace
<1>4. Capture!NothingYet'
  BY DEF Capture!NothingYet, Capture!TypeOK
<1>5. Capture!Accounted'
  BY DEF Capture!Accounted, Capture!Most, Capture!TypeOK
<1>6. Capture!Drained'
  BY DEF Capture!Drained, Capture!TypeOK, Capture!HasWriter, Capture!HeldByState
<1>7. Capture!ReadToTheEnd'
  BY DEF Capture!ReadToTheEnd, Capture!TypeOK
<1>8. Capture!Settled'
  BY DEF Capture!Settled, Capture!NothingYet, Capture!TypeOK, Capture!Drained,
     Capture!ReadToTheEnd, Capture!Accounted
<1>9. Capture!HeldByState'
  BY DEF Capture!HeldByState, Capture!EndsByPlace, Capture!TypeOK
<1>10. Capture!KeptFromTheWindow'
  BY DEF Capture!KeptFromTheWindow, Capture!TypeOK, Capture!SetByPlace,
     Capture!EndsByPlace, Capture!Descriptors
<1>11. v14' = {}
  BY DEF Capture!EndsByPlace
<1> QED
  BY <1>1, <1>2, <1>3, <1>4, <1>5, <1>6, <1>7, <1>8, <1>9, <1>10, <1>11

\* exec closes what is marked, and keeps what came from the window.
LEMMA CaptureExec ==
  ASSUME Capture!CaptureInv, NEW p \in Callers, Capture!Exec(p)
  PROVE  Capture!CaptureInv'
<1> USE DEF Capture!Exec
<1>1. Capture!TypeOK'
  <2>1. /\ v1' \in [Callers -> Capture!Places] /\ v2' \in [Callers -> {-1, 0}]
        /\ v3' \in [Callers -> SUBSET Capture!Streams]
    BY DEF Capture!TypeOK, Capture!Places
  <2>2. v4' \in [Callers -> 0..MaxOut]
    BY DEF Capture!TypeOK
  <2>3. v5' \in [Callers -> 0..(ErrorSize - 1)]
    BY DEF Capture!TypeOK
  <2>4. v6' \subseteq Capture!Descriptors /\ v14' \subseteq Capture!Descriptors
    BY DEF Capture!TypeOK, Capture!Descriptors
  <2>5. v7' \subseteq v6'
    BY DEF Capture!TypeOK, Capture!EndsByPlace
  <2>6. v8' \in [Callers -> {"none", "forked", "runs", "exited", "reaped"}]
    BY DEF Capture!TypeOK
  <2>7. /\ v9' \in [Callers -> SUBSET Capture!Descriptors]
        /\ v10' \in [Callers -> SUBSET Capture!Descriptors]
    <3>1. Capture!Of(p, {"out_w", "err_w"}) \subseteq Capture!Descriptors
      BY DEF Capture!Descriptors
    <3>2. /\ v9 \in [Callers -> SUBSET Capture!Descriptors]
          /\ v10 \in [Callers -> SUBSET Capture!Descriptors]
      BY DEF Capture!TypeOK
    <3> HIDE DEF Capture!Of
    <3> QED
      BY <3>1, <3>2
  <2>8. v11' \in [Callers -> [Capture!Streams -> Nat]]
    BY DEF Capture!TypeOK
  <2>10. v12' \in [Callers -> {0, 1}]
    BY DEF Capture!TypeOK
  <2>9. v13' \in [Callers -> [Capture!Streams -> 0..PipeSize]]
    BY DEF Capture!TypeOK
  <2> QED
    BY <2>1, <2>2, <2>3, <2>4, <2>5, <2>6, <2>7, <2>8, <2>9, <2>10 DEF Capture!TypeOK
<1>2. Capture!EndsByPlace'
  BY DEF Capture!EndsByPlace, Capture!TypeOK
<1>3. Capture!SetByPlace'
  BY DEF Capture!SetByPlace, Capture!TypeOK, Capture!EndsByPlace
<1>4. Capture!NothingYet'
  BY DEF Capture!NothingYet, Capture!TypeOK
<1>5. Capture!Accounted'
  BY DEF Capture!Accounted, Capture!Most, Capture!TypeOK
<1>6. Capture!Drained'
  BY DEF Capture!Drained, Capture!TypeOK, Capture!HasWriter, Capture!HeldByState
<1>7. Capture!ReadToTheEnd'
  BY DEF Capture!ReadToTheEnd, Capture!TypeOK
<1>8. Capture!Settled'
  <2>1. ~(v1[p] = "done" /\ v2[p] = 0)
    BY DEF Capture!Settled
  <2>2. v1' = v1 /\ v2' = v2 /\ v4' = v4
    OBVIOUS
  <2>3. \A q \in Callers : q # p => v8'[q] = v8[q] /\ v12'[q] = v12[q] /\ v11'[q] = v11[q]
    BY DEF Capture!TypeOK, Capture!Exit
  <2> QED
    BY <2>1, <2>2, <2>3 DEF Capture!Settled
<1>9. Capture!HeldByState'
  <2>1. CASE /\ v8' = [v8 EXCEPT ![p] = "runs"] /\ v10' = v10
             /\ v9' = [v9 EXCEPT ![p] = v10[p] \cup Capture!Of(p, {"out_w", "err_w"})]
    BY <2>1 DEF Capture!HeldByState, Capture!TypeOK
  <2>2. CASE Capture!Exit(p, 1)
    BY <2>2 DEF Capture!HeldByState, Capture!TypeOK
  <2> QED
    BY <2>1, <2>2
<1>10. Capture!KeptFromTheWindow'
  <2>1. v15' = v15
    OBVIOUS
  <2>2. \A q \in Callers : v8'[q] \in {"forked", "runs"} =>
          v8[q] \in {"forked", "runs"} /\ v10'[q] = v10[q]
    BY DEF Capture!TypeOK
  <2> QED
    BY <2>1, <2>2 DEF Capture!KeptFromTheWindow
<1>11. v14' = {}
  BY DEF Capture!EndsByPlace
<1> QED
  BY <1>1, <1>2, <1>3, <1>4, <1>5, <1>6, <1>7, <1>8, <1>9, <1>10, <1>11

\* git ends, and its descriptors with it.
LEMMA CaptureGitExits ==
  ASSUME Capture!CaptureInv, NEW p \in Callers, Capture!GitExits(p)
  PROVE  Capture!CaptureInv'
<1> USE DEF Capture!GitExits
<1>1. Capture!TypeOK'
  <2>1. /\ v1' \in [Callers -> Capture!Places] /\ v2' \in [Callers -> {-1, 0}]
        /\ v3' \in [Callers -> SUBSET Capture!Streams]
    BY DEF Capture!TypeOK, Capture!Places
  <2>2. v4' \in [Callers -> 0..MaxOut]
    BY DEF Capture!TypeOK
  <2>3. v5' \in [Callers -> 0..(ErrorSize - 1)]
    BY DEF Capture!TypeOK
  <2>4. v6' \subseteq Capture!Descriptors /\ v14' \subseteq Capture!Descriptors
    BY DEF Capture!TypeOK, Capture!Descriptors
  <2>5. v7' \subseteq v6'
    BY DEF Capture!TypeOK, Capture!EndsByPlace
  <2>6. v8' \in [Callers -> {"none", "forked", "runs", "exited", "reaped"}]
    BY DEF Capture!TypeOK
  <2>7. /\ v9' \in [Callers -> SUBSET Capture!Descriptors]
        /\ v10' \in [Callers -> SUBSET Capture!Descriptors]
    BY DEF Capture!TypeOK, Capture!Descriptors
  <2>8. v11' \in [Callers -> [Capture!Streams -> Nat]]
    BY DEF Capture!TypeOK
  <2>10. v12' \in [Callers -> {0, 1}]
    BY DEF Capture!TypeOK
  <2>9. v13' \in [Callers -> [Capture!Streams -> 0..PipeSize]]
    BY DEF Capture!TypeOK
  <2> QED
    BY <2>1, <2>2, <2>3, <2>4, <2>5, <2>6, <2>7, <2>8, <2>9, <2>10 DEF Capture!TypeOK
<1>2. Capture!EndsByPlace'
  BY DEF Capture!EndsByPlace, Capture!TypeOK
<1>3. Capture!SetByPlace'
  BY DEF Capture!SetByPlace, Capture!TypeOK, Capture!EndsByPlace
<1>4. Capture!NothingYet'
  BY DEF Capture!NothingYet, Capture!TypeOK
<1>5. Capture!Accounted'
  BY DEF Capture!Accounted, Capture!Most, Capture!TypeOK
<1>6. Capture!Drained'
  BY DEF Capture!Drained, Capture!TypeOK, Capture!HasWriter, Capture!HeldByState
<1>7. Capture!ReadToTheEnd'
  BY DEF Capture!ReadToTheEnd, Capture!TypeOK
<1>8. Capture!Settled'
  BY DEF Capture!Settled, Capture!NothingYet, Capture!TypeOK, Capture!Drained,
     Capture!ReadToTheEnd, Capture!Accounted
<1>9. Capture!HeldByState'
  BY SMTT(30) DEF Capture!HeldByState, Capture!EndsByPlace, Capture!TypeOK
<1>10. Capture!KeptFromTheWindow'
  <2>1. /\ v15' = v15 /\ v8'[p] = "exited"
        /\ \A q \in Callers : q # p => v8'[q] = v8[q] /\ v10'[q] = v10[q]
    BY DEF Capture!TypeOK
  <2> QED
    BY <2>1 DEF Capture!KeptFromTheWindow
<1>11. v14' = {}
  BY DEF Capture!EndsByPlace
<1> QED
  BY <1>1, <1>2, <1>3, <1>4, <1>5, <1>6, <1>7, <1>8, <1>9, <1>10, <1>11

\* git writes while its pipe has room.
LEMMA CaptureWrite ==
  ASSUME Capture!CaptureInv, NEW p \in Callers, NEW s \in Capture!Streams,
         Capture!Write(p, s)
  PROVE  Capture!CaptureInv'
<1> USE DEF Capture!Write
<1>1. Capture!TypeOK'
  <2>1. /\ v1' \in [Callers -> Capture!Places] /\ v2' \in [Callers -> {-1, 0}]
        /\ v3' \in [Callers -> SUBSET Capture!Streams]
    BY DEF Capture!TypeOK, Capture!Places
  <2>2. v4' \in [Callers -> 0..MaxOut]
    BY DEF Capture!TypeOK
  <2>3. v5' \in [Callers -> 0..(ErrorSize - 1)]
    BY DEF Capture!TypeOK
  <2>4. v6' \subseteq Capture!Descriptors /\ v14' \subseteq Capture!Descriptors
    BY DEF Capture!TypeOK, Capture!Descriptors
  <2>5. v7' \subseteq v6'
    BY DEF Capture!TypeOK, Capture!EndsByPlace
  <2>6. v8' \in [Callers -> {"none", "forked", "runs", "exited", "reaped"}]
    BY DEF Capture!TypeOK
  <2>7. /\ v9' \in [Callers -> SUBSET Capture!Descriptors]
        /\ v10' \in [Callers -> SUBSET Capture!Descriptors]
    BY DEF Capture!TypeOK, Capture!Descriptors
  <2>8. v11' \in [Callers -> [Capture!Streams -> Nat]]
    <3>1. CASE v11' = v11
      BY <3>1 DEF Capture!TypeOK
    <3>2. CASE v11' = [v11 EXCEPT ![p][s] = @ + 1]
      BY <3>2 DEF Capture!TypeOK
    <3> QED
      BY <3>1, <3>2
  <2>10. v12' \in [Callers -> {0, 1}]
    BY DEF Capture!TypeOK
  <2>9. v13' \in [Callers -> [Capture!Streams -> 0..PipeSize]]
    <3>1. CASE v13' = v13
      BY <3>1 DEF Capture!TypeOK
    <3>2. CASE v13[p][s] < PipeSize /\ v13' = [v13 EXCEPT ![p][s] = @ + 1]
      <4>1. v13 \in [Callers -> [Capture!Streams -> 0..PipeSize]]
        BY DEF Capture!TypeOK
      <4> QED
        BY <3>2, <4>1
    <3> QED
      BY <3>1, <3>2
  <2> QED
    BY <2>1, <2>2, <2>3, <2>4, <2>5, <2>6, <2>7, <2>8, <2>9, <2>10 DEF Capture!TypeOK
<1>2. Capture!EndsByPlace'
  BY DEF Capture!EndsByPlace, Capture!TypeOK
<1>3. Capture!SetByPlace'
  BY DEF Capture!SetByPlace, Capture!TypeOK, Capture!EndsByPlace
<1>4. Capture!NothingYet'
  BY DEF Capture!NothingYet, Capture!TypeOK
<1>5. Capture!Accounted'
  <2>1. CASE v13' = v13 /\ v11' = v11
    BY <2>1 DEF Capture!Accounted, Capture!Most
  <2>2. CASE /\ v13' = [v13 EXCEPT ![p][s] = @ + 1]
             /\ v11' = [v11 EXCEPT ![p][s] = @ + 1]
    <3>1. \A q \in Callers, r \in Capture!Streams :
            /\ v13'[q][r] = IF q = p /\ r = s THEN v13[q][r] + 1 ELSE v13[q][r]
            /\ v11'[q][r] = IF q = p /\ r = s THEN v11[q][r] + 1 ELSE v11[q][r]
      BY <2>2 DEF Capture!TypeOK
    <3>2. v1' = v1 /\ v4' = v4 /\ v11[p][s] < Capture!Most(s)
      OBVIOUS
    <3>3. \A q \in Callers, r \in Capture!Streams :
             v13[q][r] \in Int /\ v4[q] \in Int /\ v11[q][r] \in Int /\ Capture!Most(r) \in Int
      BY DEF Capture!TypeOK, Capture!Most
    <3> HIDE DEF Capture!CaptureInv, Capture!Write
    <3> QED
      BY <3>1, <3>2, <3>3 DEF Capture!Accounted, Capture!CaptureInv
  <2> QED
    BY <2>1, <2>2
<1>6. Capture!Drained'
  BY SMTT(30) DEF Capture!Drained, Capture!TypeOK, Capture!HasWriter, Capture!HeldByState
<1>7. Capture!ReadToTheEnd'
  BY DEF Capture!ReadToTheEnd, Capture!TypeOK
<1>8. Capture!Settled'
  <2>1. ~(v1[p] = "done" /\ v2[p] = 0)
    BY DEF Capture!Settled
  <2>2. v1' = v1 /\ v2' = v2 /\ v4' = v4
    OBVIOUS
  <2>3. \A q \in Callers : q # p => v8'[q] = v8[q] /\ v12'[q] = v12[q] /\ v11'[q] = v11[q]
    BY DEF Capture!TypeOK, Capture!Exit
  <2> QED
    BY <2>1, <2>2, <2>3 DEF Capture!Settled
<1>9. Capture!HeldByState'
  <2>1. CASE v8' = v8 /\ v9' = v9 /\ v10' = v10
    BY <2>1 DEF Capture!HeldByState
  <2>2. CASE Capture!Exit(p, 1)
    BY <2>2 DEF Capture!HeldByState, Capture!TypeOK
  <2> QED
    BY <2>1, <2>2
<1>10. Capture!KeptFromTheWindow'
  <2>1. v15' = v15
    OBVIOUS
  <2>2. \A q \in Callers : v8'[q] \in {"forked", "runs"} =>
          v8[q] \in {"forked", "runs"} /\ v10'[q] = v10[q]
    BY DEF Capture!TypeOK
  <2> QED
    BY <2>1, <2>2 DEF Capture!KeptFromTheWindow
<1>11. v14' = {}
  BY DEF Capture!EndsByPlace
<1> QED
  BY <1>1, <1>2, <1>3, <1>4, <1>5, <1>6, <1>7, <1>8, <1>9, <1>10, <1>11

HIDE PartsAssumption DEF
    Capture!CaptureAssumption, Capture!CaptureInv, Capture!Go, Capture!Fails, Capture!Close,
    Capture!Of, Capture!git, Capture!parent, Capture!files, Capture!Ends, Capture!Streams,
    Capture!Before, Capture!Looping, Capture!ReadEnd, Capture!WriteEnd, Capture!Reap,
    Capture!Exit, Capture!CopyError, Capture!Order

\* Every step of a caller and of its git keeps the invariant.
LEMMA CaptureNext ==
  ASSUME Capture!CaptureInv, Capture!Next
  PROVE  Capture!CaptureInv'
<1> SUFFICES ASSUME NEW p \in Callers, Capture!Caller(p) \/ Capture!Git(p)
             PROVE  Capture!CaptureInv'
  BY DEF Capture!Next
<1>1. CASE Capture!Caller(p)
  BY <1>1, CaptureNoPipe, CapturePipeOut, CapturePipeErr, CaptureSetCloexec,
     CaptureNoChild, CaptureFork, CapturePollFails, CaptureLoopEnds, CaptureCloseRest,
     CaptureWait, CaptureWaitFails, CaptureRead, CaptureEndOfStream
     DEF Capture!Caller
<1>2. CASE Capture!Git(p)
  BY <1>2, CaptureExec, CaptureGitExits, CaptureWrite DEF Capture!Git
<1> QED
  BY <1>1, <1>2

\* A step of another part changes nothing of it.
LEMMA CaptureUnchanged ==
  ASSUME Capture!CaptureInv, UNCHANGED Capture!vars
  PROVE  Capture!CaptureInv'
BY DEF Capture!CaptureInv, Capture!vars, Capture!parent, Capture!files, Capture!git,
   Capture!TypeOK, Capture!EndsByPlace, Capture!SetByPlace,
       Capture!NothingYet, Capture!Accounted, Capture!Drained, Capture!ReadToTheEnd,
       Capture!Settled, Capture!HeldByState, Capture!KeptFromTheWindow

\* What a caller returns, and what its git was lent, follow from it.
LEMMA CaptureProperties ==
  Capture!CaptureInv =>
    /\ Capture!TypeOK /\ Capture!AllOrNothing /\ Capture!ClosedOnce
    /\ Capture!StraysOnlyFromTheWindow
<1> SUFFICES ASSUME Capture!CaptureInv
             PROVE  /\ Capture!AllOrNothing /\ Capture!ClosedOnce
                    /\ Capture!StraysOnlyFromTheWindow
  BY DEF Capture!CaptureInv
<1>1. Capture!AllOrNothing
  BY DEF Capture!CaptureInv, Capture!Settled, Capture!AllOrNothing
<1>2. Capture!ClosedOnce
  BY DEF Capture!CaptureInv, Capture!EndsByPlace, Capture!ClosedOnce, Capture!Of,
     Capture!Ends
<1>3. Capture!StraysOnlyFromTheWindow
  <2> SUFFICES ASSUME NEW p \in Callers, NEW q \in Callers, p # q, v8[p] = "runs",
                      NEW e \in Capture!Ends, <<q, e>> \in v9[p]
               PROVE  <<p, q>> \in v15
    BY DEF Capture!StraysOnlyFromTheWindow, Capture!Of
  <2>1. <<q, e>> \in v10[p]
    BY DEF Capture!CaptureInv, Capture!HeldByState, Capture!Of
  <2> QED
    BY <2>1 DEF Capture!CaptureInv, Capture!KeptFromTheWindow
<1> QED
  BY <1>1, <1>2, <1>3

\* run_git_capture returns all of the output or none, closes each descriptor
\* once, and a stray git holds one only from the window between its pipe and
\* its fcntl, whatever the callers, the sizes and the failures.
THEOREM CapturesSound == Safety => []CaptureSound
<1> DEFINE Inv == part = "capture" => Capture!CaptureInv
<1>1. Init => Inv
  BY CaptureInit DEF Init
<1>2. Inv /\ [Next]_all => Inv'
  <2> SUFFICES ASSUME Inv, [Next]_all, part' = "capture" PROVE Capture!CaptureInv'
    OBVIOUS
  <2>1. CASE CaptureStep
    BY <2>1, CaptureNext DEF CaptureStep
  <2>2. CASE UNCHANGED all
    BY <2>2, CaptureUnchanged
       DEF all, Capture!vars, Capture!parent, Capture!files, Capture!git
  <2>3. ~RoutinesStep /\ ~MessageStep /\ ~LogStep /\ ~BufferStep /\ ~RecordsStep
    BY DEF RoutinesStep, MessageStep, LogStep, BufferStep, RecordsStep
  <2> QED
    BY <2>1, <2>2, <2>3 DEF Next
<1>3. Inv => CaptureSound
  BY CaptureProperties DEF CaptureSound
<1> QED
  BY <1>1, <1>2, <1>3, PTL DEF Safety

-----------------------------------------------------------------------------
(* The log: env is v1, once v2, g_log_level v3, g_log_fp v4, pc v5, step   *)
(* v6, error v7, rec v8, then v9, lines v10, dropped v11.                  *)

USE DEF Log!Levels, Log!DEBUG, Log!INFO, Log!WARN, Log!ERROR, Log!OFF, Log!Places

\* Before the first call nothing is configured, judged or written.
LEMMA LogInit == Log!Init => Log!LogInv
<1> SUFFICES ASSUME Log!Init PROVE Log!LogInv
  OBVIOUS
<1>1. Log!TypeOK
  BY PartsAssumption DEF Log!Init, Log!NoRec, Log!TypeOK, Log!Rec, Log!LogAssumption
<1>2. Log!ConfiguredOnce /\ Log!ErrorOfThisStep
  BY DEF Log!Init, Log!NoRec, Log!ConfiguredOnce, Log!ErrorOfThisStep, Log!MessageOf
<1>3. Log!ConfiguredFirst /\ Log!LinesEnd /\ Log!MessageOfThisStep
  BY DEF Log!Init, Log!ConfiguredFirst, Log!LinesEnd, Log!MessageOfThisStep
<1> QED
  BY <1>1, <1>2, <1>3 DEF Log!LogInv

\* A step of a thread outside gh_log, to anywhere but into its tests, leaves
\* what concerns the configuration and what was written.
LEMMA LogOutside ==
  ASSUME Log!LogInv, NEW t \in Threads, NEW to, to \notin {"init", "test"},
         v5' = [v5 EXCEPT ![t] = to], UNCHANGED <<v1, v2, v3, v4, v10, v11>>,
         Log!TypeOK', Log!ErrorOfThisStep'
  PROVE  Log!LogInv'
<1>1. Log!ConfiguredOnce'
  <2>1. \A u \in Threads : v5'[u] = IF u = t THEN to ELSE v5[u]
    BY DEF Log!LogInv, Log!TypeOK
  <2> QED
    BY <2>1 DEF Log!LogInv, Log!ConfiguredOnce
<1>2. Log!ConfiguredFirst' /\ Log!LinesEnd' /\ Log!MessageOfThisStep'
  BY DEF Log!LogInv, Log!ConfiguredFirst, Log!LinesEnd, Log!MessageOfThisStep
<1> QED
  BY <1>1, <1>2 DEF Log!LogInv

\* git_error_clear: the next step begins with no error.
LEMMA LogBegin ==
  ASSUME Log!LogInv, NEW t \in Threads, Log!Begin(t)
  PROVE  Log!LogInv'
<1>0. Log!TypeOK /\ Log!ErrorOfThisStep
  BY DEF Log!LogInv
<1>1. /\ v5' = [v5 EXCEPT ![t] = "calls"] /\ v6[t] < MaxSteps
      /\ v6' = [v6 EXCEPT ![t] = @ + 1] /\ v7' = [v7 EXCEPT ![t] = 0]
      /\ UNCHANGED <<v1, v2, v3, v4, v8, v9, v10, v11>>
  BY DEF Log!Begin, Log!Go, Log!config
<1>2. /\ v6 \in [Threads -> 0..MaxSteps] /\ v7 \in [Threads -> 0..MaxSteps]
      /\ MaxSteps \in Nat
  BY <1>0, PartsAssumption DEF Log!TypeOK, Log!LogAssumption
<1>3. v6' \in [Threads -> 0..MaxSteps] /\ v7' \in [Threads -> 0..MaxSteps]
  BY <1>1, <1>2
<1>4. Log!TypeOK'
  BY <1>0, <1>1, <1>3 DEF Log!TypeOK
<1>5. Log!ErrorOfThisStep'
  <2>1. \A u \in Threads :
           /\ u = t => v7'[u] = 0 /\ v6'[u] \in Nat
           /\ u # t => v5'[u] = v5[u] /\ v6'[u] = v6[u] /\ v7'[u] = v7[u]
    BY <1>0, <1>1, <1>2 DEF Log!TypeOK
  <2> QED
    BY <1>0, <1>1, <2>1 DEF Log!ErrorOfThisStep
<1> QED
  BY <1>1, <1>4, <1>5, LogOutside

\* A repository is opened with whatever error the thread has.
LEMMA LogOpen ==
  ASSUME Log!LogInv, NEW t \in Threads, Log!Open(t)
  PROVE  Log!LogInv'
<1>0. Log!TypeOK /\ Log!ErrorOfThisStep
  BY DEF Log!LogInv
<1>1. /\ v5' = [v5 EXCEPT ![t] = "opens"] /\ v6[t] < MaxSteps
      /\ v6' = [v6 EXCEPT ![t] = @ + 1]
      /\ UNCHANGED <<v1, v2, v3, v4, v7, v8, v9, v10, v11>>
  BY DEF Log!Open, Log!Go, Log!config
<1>2. /\ v6 \in [Threads -> 0..MaxSteps] /\ v7 \in [Threads -> 0..MaxSteps]
      /\ MaxSteps \in Nat
  BY <1>0, PartsAssumption DEF Log!TypeOK, Log!LogAssumption
<1>3. v6' \in [Threads -> 0..MaxSteps]
  BY <1>1, <1>2
<1>4. Log!TypeOK'
  BY <1>0, <1>1, <1>3 DEF Log!TypeOK
<1>5. Log!ErrorOfThisStep'
  <2>1. \A u \in Threads : v7[u] <= v6[u] /\ v6[u] <= v6'[u]
    BY <1>0, <1>1, <1>2 DEF Log!ErrorOfThisStep
  <2>2. \A u \in Threads : v7'[u] <= v6'[u]
    BY <1>1, <1>2, <1>3, <2>1
  <2>3. \A u \in Threads :
           /\ u = t => v5'[u] = "opens"
           /\ u # t => v5'[u] = v5[u] /\ v6'[u] = v6[u]
    BY <1>0, <1>1, <1>2 DEF Log!TypeOK
  <2> QED
    BY <1>0, <1>1, <2>2, <2>3 DEF Log!ErrorOfThisStep
<1> QED
  BY <1>1, <1>4, <1>5, LogOutside

\* An opening that fails logs the error it finds, if libgit2 set no other.
LEMMA LogOpenFails ==
  ASSUME Log!LogInv, NEW t \in Threads, Log!OpenFails(t)
  PROVE  Log!LogInv'
<1>0. Log!TypeOK /\ Log!ErrorOfThisStep
  BY DEF Log!LogInv
<1>1. PICK level \in {Log!WARN, Log!ERROR}, message \in {v6[t], v7[t]} :
         /\ v7' = [v7 EXCEPT ![t] = message]
         /\ v8' = [v8 EXCEPT ![t] = [level |-> level, error |-> message,
                                     of |-> v6[t], opens |-> TRUE]]
         /\ v9' = [v9 EXCEPT ![t] = "idle"] /\ v5' = [v5 EXCEPT ![t] = "gh_log"]
         /\ UNCHANGED <<v1, v2, v3, v4, v6, v10, v11>>
  BY DEF Log!OpenFails, Log!Log, Log!Go, Log!config
<1>2. v6[t] \in 0..MaxSteps /\ message \in 0..MaxSteps /\ message <= v6[t]
  <2>1. v6[t] \in 0..MaxSteps /\ v7[t] \in 0..MaxSteps
    BY <1>0 DEF Log!TypeOK
  <2>2. v7[t] <= v6[t]
    BY <1>0 DEF Log!ErrorOfThisStep
  <2> QED
    BY <2>1, <2>2
<1> DEFINE r == [level |-> level, error |-> message, of |-> v6[t], opens |-> TRUE]
<1>3. r \in Log!Rec
  BY <1>2 DEF Log!Rec
<1>6. Log!MessageOf(r)
  BY <1>2 DEF Log!MessageOf
<1>7. v8' = [v8 EXCEPT ![t] = r]
  BY <1>1
<1> HIDE DEF r
<1>4. Log!TypeOK'
  BY <1>0, <1>1, <1>2, <1>3, <1>7 DEF Log!TypeOK
<1>5. Log!ErrorOfThisStep'
  <2>1. \A u \in Threads :
           /\ u = t => v7'[u] = message /\ v8'[u] = r /\ v5'[u] = "gh_log"
           /\ u # t => v7'[u] = v7[u] /\ v8'[u] = v8[u] /\ v5'[u] = v5[u]
    BY <1>0, <1>1, <1>7 DEF Log!TypeOK
  <2> QED
    BY <1>0, <1>1, <1>2, <1>6, <2>1 DEF Log!ErrorOfThisStep
<1> QED
  BY <1>1, <1>4, <1>5, LogOutside

\* One that succeeds leaves the error where it is.
LEMMA LogOpenSucceeds ==
  ASSUME Log!LogInv, NEW t \in Threads, Log!OpenSucceeds(t)
  PROVE  Log!LogInv'
<1>0. Log!TypeOK /\ Log!ErrorOfThisStep
  BY DEF Log!LogInv
<1>1. /\ v5' = [v5 EXCEPT ![t] = "idle"]
      /\ UNCHANGED <<v1, v2, v3, v4, v6, v7, v8, v9, v10, v11>>
  BY DEF Log!OpenSucceeds, Log!Go, Log!config
<1>2. Log!TypeOK'
  BY <1>0, <1>1 DEF Log!TypeOK
<1>3. Log!ErrorOfThisStep'
  <2>1. \A u \in Threads : v5'[u] = "calls" => v5[u] = "calls"
    BY <1>0, <1>1 DEF Log!TypeOK
  <2> QED
    BY <1>0, <1>1, <2>1 DEF Log!ErrorOfThisStep
<1> QED
  BY <1>1, <1>2, <1>3, LogOutside

\* Whatever a call returns, it is logged at a level.
LEMMA LogErrLevel == \A c : Log!gh_git_err_level(c) \in Log!Levels
BY DEF Log!gh_git_err_level

\* A call that fails logs a message of this step, or none, whether libgit2 set
\* one or the thread's last one stands.
LEMMA LogCallFails ==
  ASSUME Log!LogInv, NEW t \in Threads, Log!CallFails(t)
  PROVE  Log!LogInv'
<1>0. Log!TypeOK /\ Log!ErrorOfThisStep
  BY DEF Log!LogInv
<1>1. PICK level \in Log!Levels, message \in {v6[t], v7[t]} :
         /\ v7' = [v7 EXCEPT ![t] = message]
         /\ v8' = [v8 EXCEPT ![t] = [level |-> level, error |-> message,
                                     of |-> v6[t], opens |-> FALSE]]
         /\ v9' = [v9 EXCEPT ![t] = "failed"] /\ v5' = [v5 EXCEPT ![t] = "gh_log"]
         /\ UNCHANGED <<v1, v2, v3, v4, v6, v10, v11>>
  <2>1. PICK c \in {"ENOTFOUND", "other"}, says \in BOOLEAN :
          LET message == IF says THEN v6[t] ELSE v7[t] IN
          /\ v7' = [v7 EXCEPT ![t] = message]
          /\ Log!Log(t, Log!gh_git_err_level(c), message, "failed")
    BY DEF Log!CallFails
  <2>2. Log!gh_git_err_level(c) \in Log!Levels
    BY LogErrLevel
  <2>3. v5[t] = "calls" /\ UNCHANGED <<v1, v2, v3, v4, v6, v10, v11>>
    BY DEF Log!CallFails, Log!config
  <2> QED
    BY <2>1, <2>2, <2>3 DEF Log!Log, Log!Go
<1>2. /\ v6[t] \in 0..MaxSteps /\ message \in 0..MaxSteps
      /\ message <= v6[t] /\ message \in {0, v6[t]}
  <2>1. v6[t] \in 0..MaxSteps /\ v7[t] \in 0..MaxSteps
    BY <1>0 DEF Log!TypeOK
  <2>2. v7[t] \in {0, v6[t]}
    BY <1>0 DEF Log!ErrorOfThisStep, Log!CallFails
  <2> QED
    BY <2>1, <2>2
<1> DEFINE r == [level |-> level, error |-> message, of |-> v6[t], opens |-> FALSE]
<1>3. r \in Log!Rec
  BY <1>2 DEF Log!Rec
<1>6. Log!MessageOf(r)
  BY <1>2 DEF Log!MessageOf
<1>7. v8' = [v8 EXCEPT ![t] = r]
  BY <1>1
<1> HIDE DEF r
<1>4. Log!TypeOK'
  BY <1>0, <1>1, <1>2, <1>3, <1>7 DEF Log!TypeOK
<1>5. Log!ErrorOfThisStep'
  <2>1. \A u \in Threads :
           /\ u = t => v7'[u] = message /\ v8'[u] = r /\ v5'[u] = "gh_log"
           /\ u # t => v7'[u] = v7[u] /\ v8'[u] = v8[u] /\ v5'[u] = v5[u]
    BY <1>0, <1>1, <1>7 DEF Log!TypeOK
  <2> QED
    BY <1>0, <1>1, <1>2, <1>6, <2>1 DEF Log!ErrorOfThisStep
<1> QED
  BY <1>1, <1>4, <1>5, LogOutside

\* The calls of a step succeed.
LEMMA LogCallsSucceed ==
  ASSUME Log!LogInv, NEW t \in Threads, Log!CallsSucceed(t)
  PROVE  Log!LogInv'
<1>0. Log!TypeOK /\ Log!ErrorOfThisStep
  BY DEF Log!LogInv
<1>1. /\ v5' = [v5 EXCEPT ![t] = "ended"]
      /\ UNCHANGED <<v1, v2, v3, v4, v6, v7, v8, v9, v10, v11>>
  BY DEF Log!CallsSucceed, Log!Go, Log!config
<1>2. Log!TypeOK'
  BY <1>0, <1>1 DEF Log!TypeOK
<1>3. Log!ErrorOfThisStep'
  <2>1. \A u \in Threads : v5'[u] = "calls" => v5[u] = "calls"
    BY <1>0, <1>1 DEF Log!TypeOK
  <2> QED
    BY <1>0, <1>1, <2>1 DEF Log!ErrorOfThisStep
<1> QED
  BY <1>1, <1>2, <1>3, LogOutside

\* The step is logged without a message.
LEMMA LogStepEnds ==
  ASSUME Log!LogInv, NEW t \in Threads, Log!StepEnds(t)
  PROVE  Log!LogInv'
<1>0. Log!TypeOK /\ Log!ErrorOfThisStep
  BY DEF Log!LogInv
<1>1. PICK level \in Log!Levels :
         /\ v8' = [v8 EXCEPT ![t] = [level |-> level, error |-> 0,
                                     of |-> v6[t], opens |-> FALSE]]
         /\ v9' = [v9 EXCEPT ![t] = "idle"] /\ v5' = [v5 EXCEPT ![t] = "gh_log"]
         /\ UNCHANGED <<v1, v2, v3, v4, v6, v7, v10, v11>>
  <2>1. PICK optional \in BOOLEAN, slow \in BOOLEAN :
          Log!Log(t, Log!StepLevel(v5[t] = "failed", optional, slow), 0, "idle")
    BY DEF Log!StepEnds
  <2>2. Log!StepLevel(v5[t] = "failed", optional, slow) \in Log!Levels
    BY DEF Log!StepLevel
  <2>3. v5[t] # "opens" /\ UNCHANGED <<v1, v2, v3, v4, v6, v7, v10, v11>>
    BY DEF Log!StepEnds, Log!config
  <2> QED
    BY <2>1, <2>2, <2>3 DEF Log!Log, Log!Go
<1> DEFINE r == [level |-> level, error |-> 0, of |-> v6[t], opens |-> FALSE]
<1>2. r \in Log!Rec
  <2>1. v6[t] \in 0..MaxSteps /\ MaxSteps \in Nat
    BY <1>0, PartsAssumption DEF Log!TypeOK, Log!LogAssumption
  <2> QED
    BY <2>1 DEF Log!Rec
<1>5. Log!MessageOf(r)
  BY DEF Log!MessageOf
<1>6. v8' = [v8 EXCEPT ![t] = r]
  BY <1>1
<1> HIDE DEF r
<1>3. Log!TypeOK'
  BY <1>0, <1>1, <1>2, <1>6 DEF Log!TypeOK
<1>4. Log!ErrorOfThisStep'
  <2>1. \A u \in Threads : /\ u = t => v8'[u] = r /\ v5'[u] = "gh_log"
                           /\ u # t => v8'[u] = v8[u] /\ v5'[u] = v5[u]
    BY <1>0, <1>1, <1>6 DEF Log!TypeOK
  <2> QED
    BY <1>0, <1>1, <1>5, <2>1 DEF Log!ErrorOfThisStep
<1> QED
  BY <1>1, <1>3, <1>4, LogOutside

\* pthread_once: one thread gets in while the log is not configured, and the
\* others get past it when it is.
LEMMA LogOnce ==
  ASSUME Log!LogInv, NEW t \in Threads, Log!Once(t)
  PROVE  Log!LogInv'
<1>0. Log!TypeOK /\ Log!ConfiguredOnce
  BY DEF Log!LogInv
<1>1. /\ \/ v2 = "no" /\ v2' = "busy" /\ v5' = [v5 EXCEPT ![t] = "init"]
         \/ v2 = "done" /\ v2' = "done" /\ v5' = [v5 EXCEPT ![t] = "test"]
      /\ UNCHANGED <<v1, v3, v4, v6, v7, v8, v9, v10, v11>>
  BY DEF Log!Once, Log!Go
<1>2. Log!TypeOK'
  BY <1>0, <1>1 DEF Log!TypeOK
<1>3. Log!ConfiguredOnce'
  <2>1. CASE v2 = "no"
    <3>1. \A u \in Threads : v5[u] \notin {"init", "test"}
      BY <1>0, <2>1 DEF Log!ConfiguredOnce
    <3>2. \A u \in Threads : v5'[u] = IF u = t THEN "init" ELSE v5[u]
      BY <1>0, <1>1, <2>1 DEF Log!TypeOK
    <3> QED
      BY <1>0, <1>1, <2>1, <3>1, <3>2 DEF Log!ConfiguredOnce
  <2>2. CASE v2 = "done"
    <3>1. \A u \in Threads : v5'[u] = IF u = t THEN "test" ELSE v5[u]
      BY <1>0, <1>1, <2>2 DEF Log!TypeOK
    <3> QED
      BY <1>0, <1>1, <2>2, <3>1 DEF Log!ConfiguredOnce
  <2> QED
    BY <1>1, <2>1, <2>2
<1>4. Log!ErrorOfThisStep'
  <2>1. \A u \in Threads : v5'[u] = "calls" => v5[u] = "calls"
    BY <1>0, <1>1 DEF Log!TypeOK
  <2> QED
    BY <1>1, <2>1 DEF Log!LogInv, Log!ErrorOfThisStep
<1>5. Log!ConfiguredFirst' /\ Log!LinesEnd' /\ Log!MessageOfThisStep'
  BY <1>1 DEF Log!LogInv, Log!ConfiguredFirst, Log!LinesEnd, Log!MessageOfThisStep
<1> QED
  BY <1>2, <1>3, <1>4, <1>5 DEF Log!LogInv

\* gh_log_init_once starts from the defaults: it is alone in there.
LEMMA LogInitOnce ==
  ASSUME Log!LogInv, NEW t \in Threads, Log!InitOnce(t)
  PROVE  Log!LogInv'
<1>0. Log!TypeOK /\ Log!ConfiguredOnce
  BY DEF Log!LogInv
<1>1. /\ v5[t] = "init" /\ v5' = [v5 EXCEPT ![t] = "test"] /\ v2' = "done"
      /\ v3' = Log!gh_log_parse_level(v1.level, v3)
      /\ v4' = IF v1.file = "ok" THEN "file" ELSE "stderr"
      /\ UNCHANGED <<v1, v6, v7, v8, v9, v10, v11>>
  BY DEF Log!InitOnce, Log!Go
<1>2. Log!TypeOK'
  BY <1>0, <1>1 DEF Log!TypeOK, Log!gh_log_parse_level
<1>3. Log!ConfiguredOnce'
  <2>1. v3 = Log!INFO /\ \A u \in Threads : u # t => v5[u] # "init"
    BY <1>0, <1>1 DEF Log!ConfiguredOnce
  <2>2. \A u \in Threads : v5'[u] = IF u = t THEN "test" ELSE v5[u]
    BY <1>0, <1>1 DEF Log!TypeOK
  <2> QED
    BY <1>1, <2>1, <2>2 DEF Log!ConfiguredOnce
<1>4. Log!ErrorOfThisStep'
  <2>1. \A u \in Threads : v5'[u] = "calls" => v5[u] = "calls"
    BY <1>0, <1>1 DEF Log!TypeOK
  <2> QED
    BY <1>1, <2>1 DEF Log!LogInv, Log!ErrorOfThisStep
<1>5. Log!ConfiguredFirst' /\ Log!LinesEnd' /\ Log!MessageOfThisStep'
  BY <1>1 DEF Log!LogInv, Log!ConfiguredFirst, Log!LinesEnd, Log!MessageOfThisStep
<1> QED
  BY <1>2, <1>3, <1>4, <1>5 DEF Log!LogInv

\* gh_log returns to where it was called, never into a step's calls; nobody is
\* let into its tests by it.
LEMMA LogReturn ==
  ASSUME Log!LogInv, NEW t \in Threads, Log!Return(t),
         UNCHANGED <<v1, v2, v3, v4, v6, v7>>
  PROVE  /\ v5' \in [Threads -> Log!Places] /\ v8' \in [Threads -> Log!Rec]
         /\ v9' \in [Threads -> {"idle", "failed"}]
         /\ Log!ConfiguredOnce' /\ Log!ErrorOfThisStep'
<1>0. Log!TypeOK /\ Log!ConfiguredOnce /\ Log!ErrorOfThisStep
  BY DEF Log!LogInv
<1>1. \A u \in Threads : v5'[u] = IF u = t THEN v9[t] ELSE v5[u]
  BY <1>0 DEF Log!Return, Log!Go, Log!TypeOK
<1>2. v9[t] \in {"idle", "failed"}
  BY <1>0 DEF Log!TypeOK
<1>3. Log!ConfiguredOnce'
  BY <1>0, <1>1, <1>2 DEF Log!ConfiguredOnce
<1>4. Log!NoRec \in Log!Rec /\ Log!MessageOf(Log!NoRec)
  BY PartsAssumption DEF Log!NoRec, Log!Rec, Log!MessageOf, Log!LogAssumption
<1>5. v8' = [v8 EXCEPT ![t] = Log!NoRec] /\ v9' = [v9 EXCEPT ![t] = "idle"]
  BY DEF Log!Return
<1>6. Log!ErrorOfThisStep'
  <2>1. \A u \in Threads : v8'[u] = IF u = t THEN Log!NoRec ELSE v8[u]
    BY <1>0, <1>5 DEF Log!TypeOK
  <2> QED
    BY <1>0, <1>1, <1>2, <1>4, <2>1 DEF Log!ErrorOfThisStep
<1>7. v8' \in [Threads -> Log!Rec] /\ v9' \in [Threads -> {"idle", "failed"}]
  BY <1>0, <1>4, <1>5 DEF Log!TypeOK
<1>8. v5' \in [Threads -> Log!Places]
  BY <1>0, <1>2 DEF Log!Return, Log!Go, Log!TypeOK
<1> QED
  BY <1>3, <1>6, <1>7, <1>8

\* A record is dropped by the configured level.
LEMMA LogTooLow ==
  ASSUME Log!LogInv, NEW t \in Threads, Log!TooLow(t)
  PROVE  Log!LogInv'
<1>0. Log!TypeOK /\ Log!ConfiguredOnce
  BY DEF Log!LogInv
<1>1. /\ v5[t] = "test" /\ v8[t].level < v3
      /\ v10' = <<>> /\ v11' = {v8[t].level}
      /\ UNCHANGED <<v1, v2, v3, v4, v6, v7>>
  BY DEF Log!TooLow, Log!config
<1>2. v8[t].level \in Log!Levels
  BY <1>0 DEF Log!TypeOK, Log!Rec
<1>3. /\ v5' \in [Threads -> Log!Places] /\ v8' \in [Threads -> Log!Rec]
      /\ v9' \in [Threads -> {"idle", "failed"}]
      /\ Log!ConfiguredOnce' /\ Log!ErrorOfThisStep'
  BY <1>1, LogReturn DEF Log!TooLow
<1>4. Log!TypeOK'
  BY <1>0, <1>1, <1>2, <1>3 DEF Log!TypeOK
<1>5. Log!ConfiguredFirst' /\ Log!LinesEnd' /\ Log!MessageOfThisStep'
  <2>1. v3 = Log!gh_log_parse_level(v1.level, Log!INFO)
    BY <1>0, <1>1 DEF Log!ConfiguredOnce
  <2> QED
    BY <1>1, <2>1 DEF Log!ConfiguredFirst, Log!LinesEnd, Log!MessageOfThisStep
<1> QED
  BY <1>3, <1>4, <1>5 DEF Log!LogInv

\* What is cut to a buffer fits it, and is not nothing.
LEMMA LogLine ==
  ASSUME NEW len \in Lengths
  PROVE  Log!Line(len) \in [size : 1..(BufSize - 1), newline : BOOLEAN]
BY PartsAssumption DEF Log!Line, Log!Least, Log!LogAssumption

\* A record is written where and because the configuration says so.
LEMMA LogWrite ==
  ASSUME Log!LogInv, NEW t \in Threads, Log!Write(t)
  PROVE  Log!LogInv'
<1>0. Log!TypeOK /\ Log!ConfiguredOnce /\ Log!ErrorOfThisStep
  BY DEF Log!LogInv
<1>1. PICK len \in Lengths :
         v10' = <<[to |-> v4, rec |-> v8[t], line |-> Log!Line(len)]>>
  BY DEF Log!Write
<1>2. /\ v5[t] = "test" /\ v8[t].level >= v3 /\ v11' = {}
      /\ UNCHANGED <<v1, v2, v3, v4, v6, v7>>
  BY DEF Log!Write, Log!config
<1>3. /\ v5' \in [Threads -> Log!Places] /\ v8' \in [Threads -> Log!Rec]
      /\ v9' \in [Threads -> {"idle", "failed"}]
      /\ Log!ConfiguredOnce' /\ Log!ErrorOfThisStep'
  BY <1>2, LogReturn DEF Log!Write
<1>4. [to |-> v4, rec |-> v8[t], line |-> Log!Line(len)] \in Log!Written
  BY <1>0, LogLine DEF Log!TypeOK, Log!Written
<1>5. v10' \in Seq(Log!Written)
  BY <1>1, <1>4
<1>6. Log!TypeOK'
  BY <1>0, <1>2, <1>3, <1>5 DEF Log!TypeOK
<1>7. /\ Len(v10') = 1 /\ v10'[1].to = v4 /\ v10'[1].rec = v8[t]
      /\ v10'[1].line.newline = TRUE
  BY <1>1 DEF Log!Line
<1>8. Log!ConfiguredFirst'
  <2>1. /\ v3 = Log!gh_log_parse_level(v1.level, Log!INFO)
        /\ v4 = IF v1.file = "ok" THEN "file" ELSE "stderr"
    BY <1>0, <1>2 DEF Log!ConfiguredOnce
  <2> QED
    BY <1>2, <1>7, <2>1 DEF Log!LogInv, Log!ConfiguredFirst
<1>9. Log!LinesEnd' /\ Log!MessageOfThisStep'
  BY <1>0, <1>7 DEF Log!ErrorOfThisStep, Log!LinesEnd, Log!MessageOfThisStep
<1> QED
  BY <1>3, <1>6, <1>8, <1>9 DEF Log!LogInv

HIDE DEF Log!Levels, Log!DEBUG, Log!INFO, Log!WARN, Log!ERROR, Log!OFF, Log!Places

\* A step that changes nothing of the log leaves the invariant.
LEMMA LogUnchanged ==
  ASSUME Log!LogInv, UNCHANGED Log!vars
  PROVE  Log!LogInv'
BY DEF Log!LogInv, Log!vars, Log!config, Log!TypeOK, Log!ConfiguredOnce,
       Log!ErrorOfThisStep, Log!ConfiguredFirst, Log!LinesEnd, Log!MessageOfThisStep

\* Every step of a thread keeps the invariant.
LEMMA LogNext ==
  ASSUME Log!LogInv, Log!Next
  PROVE  Log!LogInv'
BY LogBegin, LogCallFails, LogCallsSucceed, LogStepEnds, LogOpen, LogOpenFails,
   LogOpenSucceeds, LogOnce, LogInitOnce, LogTooLow, LogWrite
   DEF Log!Next

\* gh_log judges by the configuration it read once, writes whole lines and, in
\* the line of a step, reports an error of that step, on any threads; in the line
\* of an opening the error may be that of an earlier step.
THEOREM LogsSound == Safety => []LogSound
<1> DEFINE Inv == part = "log" => Log!LogInv
<1>1. Init => Inv
  BY LogInit DEF Init
<1>2. Inv /\ [Next]_all => Inv'
  <2> SUFFICES ASSUME Inv, [Next]_all, part' = "log" PROVE Log!LogInv'
    OBVIOUS
  <2>1. CASE LogStep
    BY <2>1, LogNext DEF LogStep
  <2>2. CASE UNCHANGED all
    BY <2>2, LogUnchanged DEF all, Log!vars, Log!config
  <2>3. ~RoutinesStep /\ ~MessageStep /\ ~CaptureStep /\ ~BufferStep /\ ~RecordsStep
    BY DEF RoutinesStep, MessageStep, CaptureStep, BufferStep, RecordsStep
  <2> QED
    BY <2>1, <2>2, <2>3 DEF Next
<1>3. Inv => LogSound
  BY DEF LogSound, Log!LogInv
<1> QED
  BY <1>1, <1>2, <1>3, PTL DEF Safety

-----------------------------------------------------------------------------
(* The status buffers: version is v1, asked v2, info v3, stack v4, shown   *)
(* v5, left v6.                                                            *)

\* The innermost buffer, and the others.
LEMMA BufferStack ==
  ASSUME NEW S, NEW s \in Seq(S), s # <<>>
  PROVE  /\ Len(s) \in Nat \ {0} /\ s[Len(s)] \in S
         /\ SubSeq(s, 1, Len(s) - 1) \in Seq(S)
         /\ Len(SubSeq(s, 1, Len(s) - 1)) = Len(s) - 1
         /\ \A i \in 1..(Len(s) - 1) : SubSeq(s, 1, Len(s) - 1)[i] = s[i]
<1>1. Len(s) \in Nat \ {0}
  OBVIOUS
<1>2. s[Len(s)] \in S
  BY <1>1
<1>3. \A n \in 0..Len(s) : /\ SubSeq(s, 1, n) \in Seq(S) /\ Len(SubSeq(s, 1, n)) = n
                          /\ \A i \in 1..n : SubSeq(s, 1, n)[i] = s[i]
  OBVIOUS
<1>4. Len(s) - 1 \in 0..Len(s)
  BY <1>1
<1> QED
  BY <1>1, <1>2, <1>3, <1>4

\* A list of requests without the i-th is one of the same requests.
LEMMA BufferRemove ==
  ASSUME NEW S, NEW s \in Seq(S), NEW i \in 1..Len(s)
  PROVE  LET t == SubSeq(s, 1, i - 1) \o SubSeq(s, i + 1, Len(s)) IN
         /\ t \in Seq(S)
         /\ \A j \in 1..Len(t) : \E k \in 1..Len(s) : t[j] = s[k]
<1> DEFINE a == SubSeq(s, 1, i - 1)
           b == SubSeq(s, i + 1, Len(s))
<1>1. /\ a \in Seq(S) /\ Len(a) = i - 1
      /\ \A j \in 1..(i - 1) : a[j] = s[j]
  OBVIOUS
<1>2. /\ b \in Seq(S) /\ Len(b) = Len(s) - i
      /\ \A j \in 1..(Len(s) - i) : b[j] = s[i + j]
  OBVIOUS
<1> HIDE DEF a, b
<1>3. /\ a \o b \in Seq(S) /\ Len(a \o b) = Len(s) - 1
      /\ \A j \in 1..(Len(s) - 1) :
            (a \o b)[j] = IF j <= i - 1 THEN a[j] ELSE b[j - (i - 1)]
  <2>1. \A x, y \in Seq(S) :
          /\ x \o y \in Seq(S) /\ Len(x \o y) = Len(x) + Len(y)
          /\ \A j \in 1..(Len(x) + Len(y)) :
                (x \o y)[j] = IF j <= Len(x) THEN x[j] ELSE y[j - Len(x)]
    OBVIOUS
  <2>2. (i - 1) + (Len(s) - i) = Len(s) - 1
    OBVIOUS
  <2>3. /\ a \o b \in Seq(S) /\ Len(a \o b) = Len(a) + Len(b)
        /\ \A j \in 1..(Len(a) + Len(b)) :
              (a \o b)[j] = IF j <= Len(a) THEN a[j] ELSE b[j - Len(a)]
    BY <1>1, <1>2, <2>1, Zenon
  <2>4. Len(a) = i - 1 /\ Len(a) + Len(b) = Len(s) - 1
    BY <1>1, <1>2, <2>2
  <2> QED
    BY <2>3, <2>4, Zenon
<1>4. ASSUME NEW j \in 1..(Len(s) - 1)
      PROVE  \E k \in 1..Len(s) : (a \o b)[j] = s[k]
  <2>1. CASE j <= i - 1
    BY <1>1, <1>3, <2>1
  <2>2. CASE ~(j <= i - 1)
    <3>1. /\ j - (i - 1) \in 1..(Len(s) - i) /\ i + (j - (i - 1)) = j + 1
          /\ j + 1 \in 1..Len(s)
      BY <2>2
    <3>2. (a \o b)[j] = s[j + 1]
      BY <1>2, <1>3, <2>2, <3>1
    <3> QED
      BY <3>1, <3>2
  <2> QED
    BY <2>1, <2>2
<1> QED
  BY <1>3, <1>4 DEF a, b

\* Nothing is asked, drawn or shown.
LEMMA BufferInit == Buffer!Init => Buffer!BufferInv
<1> SUFFICES ASSUME Buffer!Init PROVE Buffer!BufferInv
  OBVIOUS
<1>1. Buffer!TypeOK
  <2>1. 0 \in Buffer!Versions
    BY PartsAssumption DEF Buffer!BufferAssumption, Buffer!Versions
  <2>2. /\ v1 = [r \in Roots |-> 0] /\ v2 = [r \in Roots |-> <<>>]
        /\ v3 = None /\ v4 = <<>> /\ v6 = FALSE
        /\ v5 = [r \in Roots |-> [s \in 1..Sections |-> None]]
    BY DEF Buffer!Init
  <2>3. v1 \in [Roots -> Buffer!Versions]
    BY <2>1, <2>2
  <2>4. v2 \in [Roots -> Seq(Buffer!Versions)] /\ v4 \in Seq(Buffer!Draw)
    BY <2>2
  <2>5. v5 \in [Roots -> [1..Sections -> Buffer!Shown \cup {None}]]
    BY <2>2
  <2> QED
    BY <2>2, <2>3, <2>4, <2>5 DEF Buffer!TypeOK
<1>2. Buffer!Past /\ Buffer!AnswerOfTop /\ Buffer!OwnRepository
  BY DEF Buffer!Init, Buffer!Past, Buffer!AnswerOfTop, Buffer!OwnRepository
<1> QED
  BY <1>1, <1>2 DEF Buffer!BufferInv

\* What is known of a repository stays known when it changes.
LEMMA BufferChange ==
  ASSUME Buffer!BufferInv, NEW r \in Roots, Buffer!Change(r)
  PROVE  Buffer!BufferInv'
<1>0. Buffer!TypeOK /\ Buffer!Past
  BY DEF Buffer!BufferInv
<1>1. /\ v1[r] < MaxVersion /\ v1' = [v1 EXCEPT ![r] = @ + 1]
      /\ UNCHANGED <<v2, v3, v4, v5, v6>>
  BY DEF Buffer!Change
<1>2. v1 \in [Roots -> 0..MaxVersion] /\ MaxVersion \in Nat
  BY <1>0, PartsAssumption DEF Buffer!TypeOK, Buffer!Versions, Buffer!BufferAssumption
<1>3. v1' \in [Roots -> 0..MaxVersion] /\ \A q \in Roots : v1[q] <= v1'[q]
  BY <1>1, <1>2
<1>4. Buffer!TypeOK'
  BY <1>0, <1>1, <1>3 DEF Buffer!TypeOK, Buffer!Versions
<1>5. Buffer!Past'
  <2>1. \A n \in 0..MaxVersion, q \in Roots : n <= v1[q] => n <= v1'[q]
    BY <1>2, <1>3
  <2> DEFINE V == 0..MaxVersion
  <2>2. \A q \in Roots : \A i \in 1..Len(v2[q]) : v2[q][i] \in 0..MaxVersion
    <3>1. \A q \in Roots : v2[q] \in Seq(V)
      BY <1>0 DEF Buffer!TypeOK, Buffer!Versions
    <3> HIDE DEF V
    <3>2. \A s \in Seq(V) : \A i \in 1..Len(s) : s[i] \in V
      OBVIOUS
    <3> QED
      BY <3>1, <3>2, Zenon DEF V
  <2>3. \A i \in 1..Len(v4) : v4[i].since \in 0..MaxVersion /\ v4[i].root \in Roots
    <3>1. \A i \in 1..Len(v4) : v4[i] \in Buffer!Draw
      BY <1>0 DEF Buffer!TypeOK
    <3> QED
      BY <3>1 DEF Buffer!Draw, Buffer!Versions
  <2>4. v3 # None => /\ v3.root \in Roots
                     /\ \A s \in 1..Sections : v3.data[s] \in 0..MaxVersion
    BY <1>0 DEF Buffer!TypeOK, Buffer!Answers, Buffer!Versions
  <2>5. \A q \in Roots : \A s \in 1..Sections : v5[q][s] # None =>
            v5[q][s].root \in Roots /\ v5[q][s].version \in 0..MaxVersion
    BY <1>0 DEF Buffer!TypeOK, Buffer!Shown, Buffer!Versions
  <2> QED
    BY <1>0, <1>1, <2>1, <2>2, <2>3, <2>4, <2>5 DEF Buffer!Past
<1>6. Buffer!AnswerOfTop' /\ Buffer!OwnRepository'
  BY <1>1 DEF Buffer!BufferInv, Buffer!AnswerOfTop, Buffer!OwnRepository, Buffer!Top
<1> QED
  BY <1>4, <1>5, <1>6 DEF Buffer!BufferInv

\* A request is made at the version its repository has.
LEMMA BufferNew ==
  ASSUME Buffer!BufferInv, NEW r \in Roots, Buffer!magit_status_new(r)
  PROVE  Buffer!BufferInv'
<1>0. Buffer!TypeOK /\ Buffer!Past
  BY DEF Buffer!BufferInv
<1>1. /\ v2' = [v2 EXCEPT ![r] = Append(@, v1[r])]
      /\ UNCHANGED <<v1, v3, v4, v5, v6>>
  BY DEF Buffer!magit_status_new
<1>2. v2[r] \in Seq(Buffer!Versions) /\ v1[r] \in Buffer!Versions
  BY <1>0 DEF Buffer!TypeOK
<1>3. /\ Append(v2[r], v1[r]) \in Seq(Buffer!Versions)
      /\ Len(Append(v2[r], v1[r])) = Len(v2[r]) + 1
      /\ \A i \in 1..(Len(v2[r]) + 1) :
            Append(v2[r], v1[r])[i] = IF i = Len(v2[r]) + 1 THEN v1[r] ELSE v2[r][i]
  BY <1>2
<1>4. Buffer!TypeOK'
  BY <1>0, <1>1, <1>3 DEF Buffer!TypeOK
<1>5. \A q \in Roots : \A i \in 1..Len(v2'[q]) : v2'[q][i] <= v1[q]
  <2>1. \A n \in Buffer!Versions : n <= n
    BY PartsAssumption DEF Buffer!Versions, Buffer!BufferAssumption
  <2>2. \A i \in 1..(Len(v2[r]) + 1) : i # Len(v2[r]) + 1 => i \in 1..Len(v2[r])
    BY <1>2
  <2>3. \A q \in Roots : q = r => v2'[q] = Append(v2[r], v1[r])
    BY <1>0, <1>1 DEF Buffer!TypeOK
  <2>4. \A q \in Roots : q # r => v2'[q] = v2[q]
    BY <1>0, <1>1 DEF Buffer!TypeOK
  <2> QED
    BY <1>0, <1>2, <1>3, <2>1, <2>2, <2>3, <2>4 DEF Buffer!Past
<1>6. Buffer!Past'
  BY <1>0, <1>1, <1>5 DEF Buffer!Past
<1>7. Buffer!AnswerOfTop' /\ Buffer!OwnRepository'
  BY <1>1 DEF Buffer!BufferInv, Buffer!AnswerOfTop, Buffer!OwnRepository, Buffer!Top
<1> QED
  BY <1>4, <1>6, <1>7 DEF Buffer!BufferInv

\* A buffer that is blank shows nothing wrong.
LEMMA BufferBlank ==
  ASSUME Buffer!BufferInv, NEW r \in Roots, v5' = [v5 EXCEPT ![r] = Buffer!Blank],
         v1' = v1
  PROVE  /\ v5' \in [Roots -> [1..Sections -> Buffer!Shown \cup {None}]]
         /\ \A q \in Roots : \A s \in 1..Sections :
               v5'[q][s] # None => v5'[q][s].version <= v1'[v5'[q][s].root]
         /\ Buffer!OwnRepository'
<1>0. Buffer!TypeOK /\ Buffer!Past /\ Buffer!OwnRepository
  BY DEF Buffer!BufferInv
<1>1. \A q \in Roots : /\ q # r => v5'[q] = v5[q]
                       /\ q = r => \A s \in 1..Sections : v5'[q][s] = None
  BY <1>0 DEF Buffer!TypeOK, Buffer!Blank
<1>2. Buffer!Blank \in [1..Sections -> Buffer!Shown \cup {None}]
  BY DEF Buffer!Blank
<1>3. v5' \in [Roots -> [1..Sections -> Buffer!Shown \cup {None}]]
  BY <1>0, <1>2 DEF Buffer!TypeOK
<1>4. \A q \in Roots : \A s \in 1..Sections :
         v5'[q][s] # None => v5'[q][s].version <= v1'[v5'[q][s].root]
  BY <1>0, <1>1 DEF Buffer!Past
<1>5. Buffer!OwnRepository'
  BY <1>0, <1>1 DEF Buffer!OwnRepository
<1> QED
  BY <1>3, <1>4, <1>5

\* The callback draws the buffer the answer is for, from that answer, which is
\* no older than its request.
LEMMA BufferCallback ==
  ASSUME Buffer!BufferInv, NEW r \in Roots, NEW i \in DOMAIN v2[r],
         NEW data \in Buffer!Data(r, v2[r][i]), Buffer!Callback(r, i, data)
  PROVE  Buffer!BufferInv'
<1>0. Buffer!TypeOK /\ Buffer!Past
  BY DEF Buffer!BufferInv
<1> DEFINE draw == [root |-> r, setup |-> TRUE, next |-> 1, since |-> v2[r][i]]
           rest == SubSeq(v2[r], 1, i - 1) \o SubSeq(v2[r], i + 1, Len(v2[r]))
<1>1. /\ v3' = [root |-> r, data |-> data] /\ v6' = FALSE /\ v4' = Append(v4, draw)
      /\ v5' = [v5 EXCEPT ![r] = Buffer!Blank] /\ v2' = [v2 EXCEPT ![r] = rest]
      /\ v1' = v1
  BY DEF Buffer!Callback
<1>2. /\ v2[r] \in Seq(Buffer!Versions) /\ i \in 1..Len(v2[r])
      /\ v2[r][i] \in Buffer!Versions /\ v1[r] \in Buffer!Versions
      /\ v2[r][i] <= v1[r]
  BY <1>0 DEF Buffer!TypeOK, Buffer!Past
<1>3. /\ data \in [1..Sections -> Buffer!Versions]
      /\ \A s \in 1..Sections : v2[r][i] <= data[s] /\ data[s] <= v1[r]
  BY <1>2, PartsAssumption, SMTT(30) DEF Buffer!Data, Buffer!Versions, Buffer!BufferAssumption
<1>4. draw \in Buffer!Draw
  BY <1>2, PartsAssumption DEF Buffer!Draw, Buffer!BufferAssumption
<1>5. /\ rest \in Seq(Buffer!Versions)
      /\ \A j \in 1..Len(rest) : \E k \in 1..Len(v2[r]) : rest[j] = v2[r][k]
  BY <1>2, BufferRemove
<1>6. draw.root = r /\ draw.setup /\ draw.since = v2[r][i]
  OBVIOUS
<1> HIDE DEF draw, rest
<1>7. /\ v4 \in Seq(Buffer!Draw) /\ v4' \in Seq(Buffer!Draw)
      /\ Len(v4') = Len(v4) + 1 /\ v4'[Len(v4) + 1] = draw
      /\ \A k \in 1..Len(v4) : v4'[k] = v4[k]
  BY <1>0, <1>1, <1>4 DEF Buffer!TypeOK
<1>8. Buffer!TypeOK'
  <2>1. [root |-> r, data |-> data] \in Buffer!Answers
    BY <1>3 DEF Buffer!Answers
  <2> QED
    BY <1>0, <1>1, <1>5, <1>7, <2>1, BufferBlank DEF Buffer!TypeOK
<1>9. Buffer!Past'
  <2>1. \A q \in Roots : \A j \in 1..Len(v2'[q]) : v2'[q][j] <= v1'[q]
    <3>1. \A q \in Roots : /\ q = r => v2'[q] = rest
                           /\ q # r => v2'[q] = v2[q]
      BY <1>0, <1>1 DEF Buffer!TypeOK
    <3> QED
      BY <1>0, <1>1, <1>5, <3>1 DEF Buffer!Past
  <2>2. \A k \in 1..Len(v4') : v4'[k].since <= v1'[v4'[k].root]
    <3>1. \A k \in 1..Len(v4') : k \in 1..Len(v4) \/ k = Len(v4) + 1
      BY <1>7
    <3> QED
      BY <1>0, <1>1, <1>2, <1>6, <1>7, <3>1 DEF Buffer!Past
  <2>3. \A s \in 1..Sections : v3'.data[s] <= v1'[v3'.root]
    BY <1>1, <1>3
  <2> QED
    BY <1>1, <2>1, <2>2, <2>3, BufferBlank DEF Buffer!Past
<1>10. Buffer!AnswerOfTop'
  <2>1. v4' # <<>> /\ Buffer!Top' = draw
    BY <1>7 DEF Buffer!Top
  <2>2. v3'.root = r /\ \A s \in 1..Sections : v3'.data[s] >= v2[r][i]
    BY <1>1, <1>2, <1>3 DEF Buffer!Versions
  <2> QED
    BY <1>6, <2>1, <2>2 DEF Buffer!AnswerOfTop
<1> QED
  BY <1>1, <1>8, <1>9, <1>10, BufferBlank DEF Buffer!BufferInv

\* A refresh starts between commands, where an answer that is there has been
\* left by an error.
LEMMA BufferRefresh ==
  ASSUME Buffer!BufferInv, NEW r \in Roots, Buffer!magit_refresh(r)
  PROVE  Buffer!BufferInv'
<1>0. Buffer!TypeOK /\ Buffer!Past /\ Buffer!AnswerOfTop
  BY DEF Buffer!BufferInv
<1> DEFINE draw == [root |-> r, setup |-> FALSE, next |-> 1, since |-> v1[r]]
<1>1. /\ v4 = <<>> /\ v4' = <<draw>> /\ v5' = [v5 EXCEPT ![r] = Buffer!Blank]
      /\ UNCHANGED <<v1, v2, v3, v6>>
  BY DEF Buffer!magit_refresh, Buffer!Idle
<1>2. v1[r] \in Buffer!Versions /\ v1[r] <= v1[r]
  BY <1>0, PartsAssumption DEF Buffer!TypeOK, Buffer!Versions, Buffer!BufferAssumption
<1>3. draw \in Buffer!Draw /\ draw.since = v1[r] /\ draw.root = r
  BY <1>2, PartsAssumption DEF Buffer!Draw, Buffer!BufferAssumption
<1> HIDE DEF draw
<1>4. v4' \in Seq(Buffer!Draw) /\ \A k \in 1..Len(v4') : v4'[k] = draw
  BY <1>1, <1>3
<1>5. Buffer!TypeOK'
  BY <1>0, <1>1, <1>4, BufferBlank DEF Buffer!TypeOK
<1>6. Buffer!Past'
  <2>1. \A k \in 1..Len(v4') : v4'[k].since <= v1'[v4'[k].root]
    BY <1>1, <1>2, <1>3, <1>4
  <2>2. v3' # None => \A s \in 1..Sections : v3'.data[s] <= v1'[v3'.root]
    BY <1>0, <1>1 DEF Buffer!Past
  <2>3. \A q \in Roots : \A k \in 1..Len(v2'[q]) : v2'[q][k] <= v1'[q]
    BY <1>0, <1>1 DEF Buffer!Past
  <2> QED
    BY <1>1, <2>1, <2>2, <2>3, BufferBlank DEF Buffer!Past
<1>7. Buffer!AnswerOfTop'
  BY <1>0, <1>1 DEF Buffer!AnswerOfTop
<1> QED
  BY <1>1, <1>5, <1>6, <1>7, BufferBlank DEF Buffer!BufferInv

\* The source of a section: the answer, which is the top's own unless an error
\* has left it, or git in the top's repository.
LEMMA BufferSource ==
  ASSUME Buffer!BufferInv, v4 # <<>>, Buffer!Top.next <= Sections
  PROVE  LET top == Buffer!Top
             from == Buffer!Source(top.root, top.next) IN
         /\ top \in Buffer!Draw /\ top.next \in 1..Sections
         /\ from \in Buffer!Shown /\ from.version <= v1[from.root]
         /\ ~from.left => from.root = top.root
         /\ ~v6 => from.version >= top.since
<1>0. Buffer!TypeOK /\ Buffer!Past /\ Buffer!AnswerOfTop
  BY DEF Buffer!BufferInv
<1> DEFINE top == Buffer!Top
<1>1. top \in Buffer!Draw /\ top.since <= v1[top.root]
  <2>1. v4 \in Seq(Buffer!Draw)
    BY <1>0 DEF Buffer!TypeOK
  <2>2. Len(v4) \in 1..Len(v4) /\ v4[Len(v4)] \in Buffer!Draw
    BY <2>1, BufferStack
  <2> QED
    BY <1>0, <2>2 DEF Buffer!Past, Buffer!Top
<1>2. /\ top.next \in 1..(Sections + 1) /\ top.root \in Roots /\ Sections \in Nat
      /\ top.since \in Buffer!Versions /\ v1 \in [Roots -> Buffer!Versions]
      /\ v6 \in BOOLEAN /\ MaxVersion \in Nat
  BY <1>0, <1>1, PartsAssumption
     DEF Buffer!Draw, Buffer!BufferAssumption, Buffer!TypeOK
<1>3. top.next \in 1..Sections
  BY <1>2
<1>4. CASE v3 # None
  <2>1. v3 \in Buffer!Answers /\ v3.data[top.next] <= v1[v3.root]
    BY <1>0, <1>3, <1>4 DEF Buffer!TypeOK, Buffer!Past
  <2>2. v3.root \in Roots /\ v3.data[top.next] \in Buffer!Versions
    BY <1>3, <2>1 DEF Buffer!Answers
  <2>3. ~v6 => v3.root = top.root /\ v3.data[top.next] >= top.since
    BY <1>0, <1>3, <1>4 DEF Buffer!AnswerOfTop
  <2>4. Buffer!Source(top.root, top.next)
           = [root |-> v3.root, version |-> v3.data[top.next], left |-> v6]
    BY <1>4 DEF Buffer!Source
  <2> HIDE DEF top
  <2> QED
    BY <1>1, <1>2, <1>3, <2>1, <2>2, <2>3, <2>4 DEF Buffer!Shown, top
<1>5. CASE v3 = None
  <2>1. Buffer!Source(top.root, top.next)
           = [root |-> top.root, version |-> v1[top.root], left |-> FALSE]
    BY <1>5 DEF Buffer!Source
  <2>2. v1[top.root] \in Buffer!Versions /\ v1[top.root] <= v1[top.root]
    BY <1>2 DEF Buffer!Versions
  <2>3. v1[top.root] >= top.since
    BY <1>1, <1>2, <2>2 DEF Buffer!Versions
  <2> HIDE DEF top
  <2> QED
    BY <1>1, <1>2, <1>3, <2>1, <2>2, <2>3 DEF Buffer!Shown, top
<1> QED
  BY <1>4, <1>5

\* A section is drawn; the rest of the stack stays.
LEMMA BufferInsert ==
  ASSUME Buffer!BufferInv, Buffer!Insert
  PROVE  Buffer!BufferInv'
<1>0. Buffer!TypeOK /\ Buffer!Past /\ Buffer!AnswerOfTop /\ Buffer!OwnRepository
  BY DEF Buffer!BufferInv
<1> DEFINE top == Buffer!Top
           from == Buffer!Source(top.root, top.next)
           next == [top EXCEPT !.next = @ + 1]
<1>1. /\ v4 # <<>> /\ top.next <= Sections
      /\ v5' = [v5 EXCEPT ![top.root][top.next] = from]
      /\ v4' = Append(Buffer!Pop, next) /\ UNCHANGED <<v1, v2, v3, v6>>
  BY DEF Buffer!Insert, Buffer!Idle
<1>2. /\ top \in Buffer!Draw /\ top.next \in 1..Sections
      /\ from \in Buffer!Shown /\ from.version <= v1[from.root]
      /\ ~from.left => from.root = top.root
  BY <1>1, BufferSource
<1>3. /\ next \in Buffer!Draw /\ next.root = top.root /\ next.setup = top.setup
      /\ next.since = top.since
  BY <1>2, PartsAssumption DEF Buffer!Draw, Buffer!BufferAssumption
<1>4. /\ v4 \in Seq(Buffer!Draw) /\ top = v4[Len(v4)] /\ Len(v4) \in Nat \ {0}
      /\ Buffer!Pop \in Seq(Buffer!Draw) /\ Len(Buffer!Pop) = Len(v4) - 1
      /\ \A i \in 1..(Len(v4) - 1) : Buffer!Pop[i] = v4[i]
  BY <1>0, <1>1, BufferStack DEF Buffer!TypeOK, Buffer!Pop, Buffer!Top
<1>5. top.root \in Roots
  BY <1>2 DEF Buffer!Draw
<1> HIDE DEF top, from, next
<1>6. /\ v4' \in Seq(Buffer!Draw) /\ Len(v4') = Len(v4) /\ v4'[Len(v4)] = next
      /\ \A i \in 1..(Len(v4) - 1) : v4'[i] = v4[i]
  BY <1>1, <1>3, <1>4
<1>7. \A q \in Roots : \A s \in 1..Sections :
         v5'[q][s] = IF q = top.root /\ s = top.next THEN from ELSE v5[q][s]
  BY <1>0, <1>1, <1>2, <1>5 DEF Buffer!TypeOK
<1>8. v5' \in [Roots -> [1..Sections -> Buffer!Shown \cup {None}]]
  BY <1>0, <1>1, <1>2, <1>5 DEF Buffer!TypeOK
<1>9. Buffer!TypeOK'
  BY <1>0, <1>1, <1>6, <1>8 DEF Buffer!TypeOK
<1>10. Buffer!Past'
  <2>1. \A i \in 1..Len(v4') : v4'[i].since <= v1[v4'[i].root]
    <3>1. \A i \in 1..Len(v4) : i = Len(v4) \/ i \in 1..(Len(v4) - 1)
      BY <1>4
    <3>2. \A i \in 1..Len(v4) : v4[i].since <= v1[v4[i].root]
      BY <1>0 DEF Buffer!Past
    <3>3. Len(v4) \in 1..Len(v4)
      BY <1>4
    <3> QED
      BY <1>3, <1>4, <1>6, <3>1, <3>2, <3>3
  <2>2. \A q \in Roots : \A s \in 1..Sections :
           v5'[q][s] # None => v5'[q][s].version <= v1[v5'[q][s].root]
    BY <1>0, <1>2, <1>7 DEF Buffer!Past
  <2> QED
    BY <1>0, <1>1, <2>1, <2>2 DEF Buffer!Past
<1>11. Buffer!AnswerOfTop'
  <2>1. Buffer!Top' = next /\ v4' # <<>>
    BY <1>4, <1>6 DEF Buffer!Top
  <2> QED
    BY <1>0, <1>1, <1>3, <2>1 DEF Buffer!AnswerOfTop, top
<1>12. Buffer!OwnRepository'
  BY <1>0, <1>2, <1>7 DEF Buffer!OwnRepository
<1> QED
  BY <1>9, <1>10, <1>11, <1>12 DEF Buffer!BufferInv

\* Taking a buffer from the stack leaves versions known.
LEMMA BufferPop ==
  ASSUME Buffer!BufferInv, v4 # <<>>, v4' = Buffer!Pop, UNCHANGED <<v1, v2, v5>>,
         v3' \in {v3, None}, v6' \in BOOLEAN, Buffer!AnswerOfTop'
  PROVE  Buffer!BufferInv'
<1>0. Buffer!TypeOK /\ Buffer!Past /\ Buffer!OwnRepository
  BY DEF Buffer!BufferInv
<1>1. /\ v4' \in Seq(Buffer!Draw) /\ Len(v4') = Len(v4) - 1 /\ Len(v4) \in Nat
      /\ \A i \in 1..(Len(v4) - 1) : v4'[i] = v4[i]
  BY <1>0, BufferStack DEF Buffer!TypeOK, Buffer!Pop
<1>2. Buffer!TypeOK'
  BY <1>0, <1>1 DEF Buffer!TypeOK
<1>3. Buffer!Past'
  <2>1. \A i \in 1..Len(v4') : v4'[i].since <= v1[v4'[i].root]
    <3>1. \A i \in 1..(Len(v4) - 1) : i \in 1..Len(v4)
      BY <1>1
    <3> QED
      BY <1>0, <1>1, <3>1 DEF Buffer!Past
  <2> QED
    BY <1>0, <2>1 DEF Buffer!Past
<1>4. Buffer!OwnRepository'
  BY <1>0 DEF Buffer!OwnRepository
<1> QED
  BY <1>2, <1>3, <1>4 DEF Buffer!BufferInv

\* A setup takes its answer with it; a refresh had none.
LEMMA BufferFinish ==
  ASSUME Buffer!BufferInv, Buffer!Finish
  PROVE  Buffer!BufferInv'
<1>0. Buffer!TypeOK /\ Buffer!AnswerOfTop
  BY DEF Buffer!BufferInv
<1>1. v4 # <<>> /\ v4' = Buffer!Pop /\ UNCHANGED <<v1, v2, v5>>
  BY DEF Buffer!Finish, Buffer!Idle
<1>2. CASE Buffer!Top.setup
  BY <1>1, <1>2, BufferPop DEF Buffer!Finish, Buffer!AnswerOfTop
<1>3. CASE ~Buffer!Top.setup
  <2>1. v3' = v3 /\ v6' = v6 /\ v6 \in BOOLEAN
    BY <1>0, <1>3 DEF Buffer!Finish, Buffer!TypeOK
  <2>2. Buffer!AnswerOfTop'
    BY <1>0, <1>3, <2>1 DEF Buffer!AnswerOfTop
  <2> QED
    BY <1>1, <2>1, <2>2, BufferPop
<1> QED
  BY <1>2, <1>3

\* An error leaves the answer that is there, and left says so.
LEMMA BufferSignals ==
  ASSUME Buffer!BufferInv, Buffer!Signals
  PROVE  Buffer!BufferInv'
<1>1. /\ v4 # <<>> /\ v4' = Buffer!Pop /\ UNCHANGED <<v1, v2, v3, v5>>
      /\ v6' = (v6 \/ v3 # None)
  BY DEF Buffer!Signals, Buffer!Idle
<1>2. Buffer!AnswerOfTop'
  BY <1>1 DEF Buffer!AnswerOfTop
<1> QED
  BY <1>1, <1>2, BufferPop

\* A step of another part changes nothing of it.
LEMMA BufferUnchanged ==
  ASSUME Buffer!BufferInv, UNCHANGED Buffer!vars
  PROVE  Buffer!BufferInv'
BY DEF Buffer!BufferInv, Buffer!vars, Buffer!TypeOK, Buffer!Past, Buffer!AnswerOfTop,
       Buffer!OwnRepository, Buffer!Top

\* Every step of the client keeps the invariant.
LEMMA BufferNext ==
  ASSUME Buffer!BufferInv, Buffer!Next
  PROVE  Buffer!BufferInv'
BY BufferInsert, BufferFinish, BufferSignals, BufferChange, BufferNew, BufferRefresh,
   BufferCallback
   DEF Buffer!Next

\* Only Insert shows anything, and what it shows is no older than what the top
\* of the stack was started for.
LEMMA BufferDraws ==
  ASSUME Buffer!BufferInv, Buffer!Next
  PROVE  Buffer!DrawsFresh
<1> SUFFICES ASSUME NEW r \in Roots, NEW s \in 1..Sections,
                    v5'[r][s] # v5[r][s], v5'[r][s] # None, ~v6
             PROVE  v5'[r][s].version >= Buffer!Top.since
  BY DEF Buffer!DrawsFresh
<1>1. v5 \in [Roots -> [1..Sections -> Buffer!Shown \cup {None}]]
  BY DEF Buffer!BufferInv, Buffer!TypeOK
<1>2. CASE Buffer!Insert
  <2> DEFINE top == Buffer!Top
             from == Buffer!Source(top.root, top.next)
  <2>1. /\ v4 # <<>> /\ top.next <= Sections
        /\ v5' = [v5 EXCEPT ![top.root][top.next] = from]
    BY <1>2 DEF Buffer!Insert, Buffer!Idle
  <2>2. top \in Buffer!Draw /\ top.next \in 1..Sections /\ from.version >= top.since
    BY <2>1, BufferSource
  <2>3. top.root \in Roots
    BY <2>2 DEF Buffer!Draw
  <2> HIDE DEF top, from
  <2>4. v5'[r][s] = from
    BY <1>1, <2>1, <2>2, <2>3
  <2> QED
    BY <2>2, <2>4 DEF top
<1>3. ASSUME NEW q \in Roots, v5' = [v5 EXCEPT ![q] = Buffer!Blank]
      PROVE  FALSE
  BY <1>1, <1>3 DEF Buffer!Blank
<1>4. CASE v5' = v5
  BY <1>4
<1>5. \/ Buffer!Insert \/ v5' = v5
      \/ \E q \in Roots : v5' = [v5 EXCEPT ![q] = Buffer!Blank]
  BY DEF Buffer!Next, Buffer!Finish, Buffer!Signals, Buffer!Change,
         Buffer!magit_status_new, Buffer!magit_refresh, Buffer!Callback
<1> QED
  BY <1>2, <1>3, <1>4, <1>5

\* The invariant holds whatever else the run does.
LEMMA BufferHolds == Safety => [](part = "buffer" => Buffer!BufferInv)
<1> DEFINE Inv == part = "buffer" => Buffer!BufferInv
<1>1. Init => Inv
  BY BufferInit DEF Init
<1>2. Inv /\ [Next]_all => Inv'
  <2> SUFFICES ASSUME Inv, [Next]_all, part' = "buffer" PROVE Buffer!BufferInv'
    OBVIOUS
  <2>1. CASE BufferStep
    BY <2>1, BufferNext DEF BufferStep
  <2>2. CASE UNCHANGED all
    BY <2>2, BufferUnchanged DEF all, Buffer!vars
  <2>3. ~RoutinesStep /\ ~MessageStep /\ ~CaptureStep /\ ~LogStep /\ ~RecordsStep
    BY DEF RoutinesStep, MessageStep, CaptureStep, LogStep, RecordsStep
  <2> QED
    BY <2>1, <2>2, <2>3 DEF Next
<1> QED
  BY <1>1, <1>2, PTL DEF Safety

\* A status buffer shows its own repository, and git-info-for-hooks is nil
\* between commands unless an error has left an answer in it.
THEOREM BuffersOwn == Safety => []BufferOwn
<1>1. (part = "buffer" => Buffer!BufferInv) => BufferOwn
  BY DEF BufferOwn, Buffer!BufferInv, Buffer!ClearedAtTop, Buffer!AnswerOfTop, Buffer!Idle
<1> QED
  BY <1>1, BufferHolds, PTL

\* No section is drawn from data older than its command.
THEOREM BuffersFresh == Safety => BufferFresh
<1> DEFINE Inv == part = "buffer" => Buffer!BufferInv
           Fresh == part = "buffer" => Buffer!DrawsFresh
<1>1. Inv /\ [Next]_all => [Fresh]_all
  <2> SUFFICES ASSUME Inv, Next, part = "buffer" PROVE Buffer!DrawsFresh
    BY DEF Fresh
  <2>1. BufferStep
    BY DEF Next, RoutinesStep, MessageStep, CaptureStep, LogStep, BufferStep, RecordsStep
  <2> QED
    BY <2>1, BufferDraws DEF BufferStep
<1> QED
  BY <1>1, BufferHolds, PTL DEF Safety, BufferFresh

-----------------------------------------------------------------------------
(* One message in the MessagePack layer: pc is v1, g_repo v2,              *)
(* g_dot_git_dir v3, left v4, id v5, cmd v6, pwd v7, made v8, live v9,     *)
(* misused v10, req v11, result v12, reply v13, header v14, size v15.      *)

(* The names of what a message allocates.                                  *)

\* The strings of the pwd keys, by their place.
LEMMA MessagePlaces ==
  1..Len(Message!Pwds) = {1, 2} /\ 0..Len(Message!Pwds) = {0, 1, 2}
BY DEF Message!Pwds

\* They are two, and differ.
LEMMA MessagePwds ==
  Message!Pwds[1] = "first_pwd" /\ Message!Pwds[2] = "second_pwd"
BY DEF Message!Pwds

\* So a place is known by its string.
LEMMA MessagePwdsDiffer ==
  ASSUME NEW i, NEW j, i = 1 \/ i = 2, j = 1 \/ j = 2, Message!Pwds[i] = Message!Pwds[j]
  PROVE  i = j
BY MessagePwds

\* And there is no other.
LEMMA MessagePwdStrings ==
  {Message!Pwds[i] : i \in 1..Len(Message!Pwds)} = {"first_pwd", "second_pwd"}
<1>1. {Message!Pwds[i] : i \in 1..Len(Message!Pwds)} = {Message!Pwds[i] : i \in {1, 2}}
  BY MessagePlaces
<1>2. {Message!Pwds[i] : i \in {1, 2}} = {Message!Pwds[1], Message!Pwds[2]}
  OBVIOUS
<1> QED
  BY <1>1, <1>2, MessagePwds

\* No other object has the name of a field.
LEMMA MessageNames ==
  /\ Message!NULL = "NULL"
  /\ "pwd" \in Message!git_root_req_T /\ "pwd" \in Message!FreedFields
  /\ "repo_path" \in Message!git_root_req_T /\ "dot_git_dir" \in Message!git_root_req_T
  /\ \A x \in {"NULL", "first_pwd", "second_pwd", "data", "g_repo", "g_dot_git_dir",
               "out"} : x \notin Message!git_root_req_T
  /\ \A f \in Message!git_root_req_T : f \in Message!FreedFields \/ f \in Message!Forgotten
  /\ Message!FreedFields \subseteq Message!git_root_req_T
<1>1. \A x \in {"NULL", "first_pwd", "second_pwd", "data", "g_repo", "g_dot_git_dir",
                "out"} : x \notin Message!git_root_req_T
  BY DEF Message!git_root_req_T, Message!TaskFields, Message!StepFields,
         Message!GateFields
<1>2. /\ "pwd" \in Message!git_root_req_T /\ "repo_path" \in Message!git_root_req_T
      /\ "dot_git_dir" \in Message!git_root_req_T
  BY DEF Message!git_root_req_T
<1>3. "pwd" \notin Message!Forgotten
  BY DEF Message!Forgotten
<1> QED
  BY <1>1, <1>2, <1>3 DEF Message!FreedFields, Message!NULL

\* What the worker sets are fields, and none of them is the pwd.
LEMMA MessageFields ==
  LET set == {"repo"} \cup Message!TaskFields \cup Message!StepFields
                      \cup Message!GateFields IN
  set \subseteq Message!git_root_req_T \ {"pwd"}
BY DEF Message!git_root_req_T, Message!TaskFields, Message!StepFields,
       Message!GateFields

\* Every field, and every string of a pwd key, is an object.
LEMMA MessageObjects ==
  /\ Message!git_root_req_T \subseteq Message!Objects
  /\ {"data", "g_repo", "g_dot_git_dir", "out", "first_pwd", "second_pwd"}
       \subseteq Message!Objects
  /\ \A x \in Message!Objects :
       \/ x \in Message!git_root_req_T
       \/ x \in {"data", "g_repo", "g_dot_git_dir", "out", "first_pwd", "second_pwd"}
<1> QED
  BY MessagePwdStrings DEF Message!Objects

-----------------------------------------------------------------------------
(* What holds between any two steps.                                       *)

\* The bounds of a message.
LEMMA MessageBounds ==
  0 \in 0..MaxPairs /\ MaxPairs \in Nat /\ 0 \in 0..1 /\ 0 \in 0..2
BY PartsAssumption DEF Message!MessageAssumption

\* The string of the last pwd key, however many there were.
LEMMA MessageLastPwd ==
  ASSUME v8 \in 0..Len(Message!Pwds)
  PROVE  \/ v8 = 0 /\ Message!LastPwd = "NULL"
         \/ v8 = 1 /\ Message!LastPwd = "first_pwd"
         \/ v8 = 2 /\ Message!LastPwd = "second_pwd"
<1>1. v8 = 0 \/ v8 = 1 \/ v8 = 2
  BY MessagePlaces
<1> QED
  BY <1>1, MessagePwds DEF Message!LastPwd, Message!NULL

\* What the type and the ownership of the strings say together, with the
\* strings told apart.
LEMMA MessageState ==
  ASSUME Message!MessageInv
  PROVE  /\ v10 = {} /\ "NULL" \notin v9
         /\ \/ v8 = 0 /\ Message!LastPwd = "NULL"
            \/ v8 = 1 /\ Message!LastPwd = "first_pwd"
            \/ v8 = 2 /\ Message!LastPwd = "second_pwd"
         /\ "first_pwd" \in v9 => v8 = 1 \/ v8 = 2
         /\ "second_pwd" \in v9 => v8 = 2
<1>1. v10 = {} /\ v9 \subseteq Message!Objects /\ v8 \in 0..Len(Message!Pwds)
  BY DEF Message!TypeOK, Message!MessageInv
<1>2. "NULL" \notin v9
  BY <1>1, MessageObjects, MessageNames
<1>3. \A i \in 1..Len(Message!Pwds) : Message!Pwds[i] \in v9 => i <= v8
  BY DEF Message!PwdOwned, Message!MessageInv
<1>4. 1 \in 1..Len(Message!Pwds) /\ 2 \in 1..Len(Message!Pwds)
  BY MessagePlaces
<1>5. ("first_pwd" \in v9 => 1 <= v8) /\ ("second_pwd" \in v9 => 2 <= v8)
  BY <1>3, <1>4, MessagePwds
<1>6. ("first_pwd" \in v9 => v8 = 1 \/ v8 = 2) /\ ("second_pwd" \in v9 => v8 = 2)
  <2>1. v8 = 0 \/ v8 = 1 \/ v8 = 2
    BY <1>1, MessageLastPwd
  <2> QED
    BY <1>5, <2>1
<1> QED
  BY <1>1, <1>2, <1>6, MessageLastPwd

\* The first message finds nothing allocated.
LEMMA MessageInit == Message!Init => Message!MessageInv
<1> SUFFICES ASSUME Message!Init PROVE Message!MessageInv
  OBVIOUS
<1> USE MessageNames DEF Message!Init
<1>1. Message!TypeOK
  <2>1. v4 \in 0..MaxPairs /\ v8 \in 0..Len(Message!Pwds)
    BY MessageBounds, MessagePlaces
  <2>2. v11 \in [Message!git_root_req_T -> Message!Objects \cup {Message!NULL}]
    OBVIOUS
  <2>3. v9 \subseteq Message!Objects /\ v10 \subseteq Message!Objects
    OBVIOUS
  <2>4. v5 \in 0..1 /\ v6 \in 0..2
    BY MessageBounds
  <2>5. v7 \in Message!Objects \cup {Message!NULL}
    OBVIOUS
  <2>6. v12 \in {-1, 0} /\ v15 \in Sizes \cup {0}
    OBVIOUS
  <2> QED
    BY <2>1, <2>2, <2>3, <2>4, <2>5, <2>6 DEF Message!TypeOK
<1>2. Message!GlobalsOwned /\ Message!ReplyMade /\ v10 = {}
  BY DEF Message!GlobalsOwned, Message!ReplyMade
<1>3. Message!FieldsOwned
  BY DEF Message!FieldsOwned, Message!Given, Message!Over
<1>4. Message!PwdOwned
  BY DEF Message!PwdOwned, Message!LastPwd, Message!Given, Message!Over
<1> QED
  BY <1>1, <1>2, <1>3, <1>4 DEF Message!MessageInv

\* Every return of msgpack_handler_recv frees the string of the last pwd key,
\* which is the only one it owns.
LEMMA MessageReturn ==
  ASSUME Message!MessageInv, v1 \in {"recv", "pairs"}, Message!Return
  PROVE  Message!MessageInv'
<1>0. /\ Message!TypeOK /\ v10 = {} /\ Message!GlobalsOwned /\ Message!PwdOwned
      /\ Message!FieldsOwned /\ Message!ReplyMade
  BY DEF Message!MessageInv
<1> USE <1>0, MessageNames
<1>1. v7 = Message!LastPwd /\ v7 \in v9 \cup {"NULL"}
  BY DEF Message!PwdOwned, Message!LastPwd, Message!Over
<1>2. v7 \in {"NULL", "first_pwd", "second_pwd"}
  BY <1>1, MessageState
<1>3. /\ v1' = "done" /\ v9' = v9 \ {v7} /\ v10' = {}
      /\ UNCHANGED <<v2, v3, v4, v5, v6, v7, v8, v11, v12, v13, v14, v15>>
  BY <1>1 DEF Message!Return, Message!Free, Message!globals, Message!recv, Message!sent
<1>4. Message!TypeOK'
  BY <1>3 DEF Message!TypeOK
<1>5. Message!GlobalsOwned'
  BY <1>2, <1>3 DEF Message!GlobalsOwned
<1>6. Message!PwdOwned'
  <2>1. Message!LastPwd' = v7 /\ v7 \notin v9'
    BY <1>1, <1>3 DEF Message!LastPwd
  <2> QED
    BY <1>3, <2>1 DEF Message!PwdOwned, Message!Given, Message!Over
<1>7. Message!FieldsOwned'
  BY <1>3 DEF Message!FieldsOwned, Message!Given, Message!Over
<1>8. Message!ReplyMade'
  BY <1>3 DEF Message!ReplyMade, Message!Over
<1> QED
  BY <1>3, <1>4, <1>5, <1>6, <1>7, <1>8 DEF Message!MessageInv

\* git_root_request_cleanup frees every string the request owns, each once:
\* the fields it lists point to different strings or to none.
LEMMA MessageCleanup ==
  ASSUME Message!MessageInv, v1 \in Message!Given, Message!git_root_request_cleanup
  PROVE  /\ v10' = {} /\ v9' \subseteq v9 /\ "data" \notin v9'
         /\ Message!LastPwd \notin v9'
         /\ \A f \in Message!git_root_req_T : f \in v9' => f \in Message!Forgotten
         /\ \A x \in {"g_repo", "g_dot_git_dir", "out"} : x \in v9' <=> x \in v9
<1>0. Message!PwdOwned /\ Message!FieldsOwned
  BY DEF Message!MessageInv
<1>s. /\ v10 = {} /\ "NULL" \notin v9
      /\ Message!LastPwd \in {"NULL", "first_pwd", "second_pwd"}
  BY MessageState
<1> USE MessageNames
<1>1. /\ \A x : x \in v9' <=> /\ x \in v9 /\ x # "data"
                              /\ ~ \E f \in Message!FreedFields : x = v11[f]
      /\ \A x : x \in v10' <=> \/ x \in v10
                               \/ /\ x \notin v9 /\ x # "NULL"
                                  /\ \/ x = "data"
                                     \/ \E f \in Message!FreedFields : x = v11[f]
  BY DEF Message!git_root_request_cleanup, Message!Free
<1>2. /\ v1 \notin Message!Over /\ "data" \in v9
      /\ v11["pwd"] = Message!LastPwd /\ Message!LastPwd \in v9 \cup {"NULL"}
  BY <1>0 DEF Message!PwdOwned, Message!FieldsOwned, Message!Given, Message!Over
<1>3. \A f \in Message!git_root_req_T \ {"pwd"} :
         v11[f] \in {"NULL", f} /\ (f \in v9 <=> v11[f] = f)
  BY <1>0, <1>2 DEF Message!FieldsOwned
<1>4. \A f \in Message!FreedFields : v11[f] \in v9 \cup {"NULL"}
  BY <1>2, <1>3
<1>5. v10' = {}
  <2> SUFFICES ASSUME NEW x \in v10' PROVE FALSE
    OBVIOUS
  <2>1. /\ x \notin v9 /\ x # "NULL"
        /\ x = "data" \/ \E f \in Message!FreedFields : x = v11[f]
    BY <1>s, <1>1
  <2> QED
    BY <1>2, <1>4, <2>1
<1>6. v9' \subseteq v9 /\ "data" \notin v9' /\ Message!LastPwd \notin v9'
  BY <1>s, <1>1, <1>2
<1>7. ASSUME NEW f \in Message!git_root_req_T, f \in v9'
      PROVE  f \in Message!Forgotten
  <2>1. f # "pwd"
    BY <1>0, <1>6, <1>7 DEF Message!FieldsOwned
  <2>2. v11[f] = f
    BY <1>3, <1>6, <1>7, <2>1
  <2> QED
    BY <1>1, <1>7, <2>2
<1>8. ASSUME NEW x \in {"g_repo", "g_dot_git_dir", "out"}
      PROVE  x \in v9' <=> x \in v9
  <2>1. \A f \in Message!FreedFields : x # v11[f]
    BY <1>s, <1>2, <1>3
  <2> QED
    BY <1>1, <2>1
<1> QED
  BY <1>5, <1>6, <1>7, <1>8

\* So a request that ends that way leaves only what the cleanup forgets.
LEMMA MessageCleaned ==
  ASSUME Message!MessageInv, v1 \in Message!Given, Message!git_root_request_cleanup,
         v1' = "done", UNCHANGED <<v2, v3, v4, v5, v6, v7, v8, v11, v12>>,
         v15' \in Sizes \cup {0}, Message!ReplyMade'
  PROVE  Message!MessageInv'
<1>0. /\ Message!TypeOK /\ Message!GlobalsOwned /\ Message!PwdOwned
      /\ Message!FieldsOwned
  BY DEF Message!MessageInv
<1> USE <1>0, MessageNames, MessageCleanup
<1>1. Message!TypeOK'
  <2>1. v9' \subseteq Message!Objects /\ v10' \subseteq Message!Objects
    BY DEF Message!TypeOK
  <2> QED
    BY <2>1 DEF Message!TypeOK
<1>2. Message!GlobalsOwned'
  <2>1. v1 # "start" /\ v1 # "stopped"
    BY DEF Message!Given
  <2> QED
    BY <2>1 DEF Message!GlobalsOwned
<1>3. Message!PwdOwned'
  <2>1. Message!LastPwd' = Message!LastPwd
    BY DEF Message!LastPwd
  <2> QED
    BY <2>1 DEF Message!PwdOwned, Message!Given, Message!Over
<1>4. Message!FieldsOwned'
  <2>1. "pwd" \notin v9'
    BY DEF Message!FieldsOwned
  <2> QED
    BY <2>1 DEF Message!FieldsOwned, Message!Given, Message!Over
<1> QED
  BY <1>1, <1>2, <1>3, <1>4 DEF Message!MessageInv

-----------------------------------------------------------------------------
(* The steps.                                                              *)

\* Nothing is allocated without a repository.
LEMMA MessageNoRepo ==
  ASSUME Message!MessageInv, Message!NoRepo
  PROVE  Message!MessageInv'
<1>0. /\ Message!TypeOK /\ v10 = {} /\ Message!GlobalsOwned /\ Message!PwdOwned
      /\ Message!FieldsOwned /\ Message!ReplyMade
  BY DEF Message!MessageInv
<1> USE <1>0, MessageNames DEF Message!NoRepo, Message!globals, Message!recv, Message!sent
<1>1. Message!TypeOK'
  BY DEF Message!TypeOK
<1>2. Message!GlobalsOwned'
  BY DEF Message!GlobalsOwned
<1>3. Message!PwdOwned'
  BY DEF Message!PwdOwned, Message!LastPwd, Message!Given, Message!Over
<1>4. Message!FieldsOwned'
  BY DEF Message!FieldsOwned, Message!Given, Message!Over
<1>5. v10' = {} /\ Message!ReplyMade'
  BY DEF Message!ReplyMade, Message!Over, Message!buf_create, Message!append_key_val,
         Message!res
<1> QED
  BY <1>1, <1>2, <1>3, <1>4, <1>5 DEF Message!MessageInv

\* git_handler_repo_init: the globals name what it allocated.
LEMMA MessageRepoInit ==
  ASSUME Message!MessageInv, Message!RepoInit
  PROVE  Message!MessageInv'
<1>0. /\ Message!TypeOK /\ v10 = {} /\ Message!GlobalsOwned /\ Message!PwdOwned
      /\ Message!FieldsOwned /\ Message!ReplyMade
  BY DEF Message!MessageInv
<1> USE <1>0, MessageNames DEF Message!RepoInit, Message!globals, Message!recv,
     Message!sent, Message!Hold
<1>1. Message!TypeOK'
  <2>1. v2' \in {"NULL", "g_repo"} /\ v3' \in {"NULL", "g_dot_git_dir"} /\ v10' = v10
        /\ v9' \subseteq v9 \cup {"g_repo", "g_dot_git_dir", "out"}
        /\ v1' \in {"recv", "failed"}
    OBVIOUS
  <2>2. v9' \subseteq Message!Objects
    BY <2>1, MessageObjects DEF Message!TypeOK
  <2> QED
    BY <2>1, <2>2 DEF Message!TypeOK
<1>2. Message!GlobalsOwned'
  BY DEF Message!GlobalsOwned
<1>3. Message!PwdOwned'
  <2>1. v1 = "start" /\ v1' \in {"recv", "failed"} /\ v8 = 0 /\ v7 = "NULL"
    BY DEF Message!PwdOwned
  <2>2. v9 = {} /\ v9' \subseteq {"g_repo", "g_dot_git_dir", "out"}
    BY DEF Message!GlobalsOwned
  <2>3. \A i \in 1..Len(Message!Pwds) : Message!Pwds[i] \notin v9'
    BY <2>2, MessagePwds, MessagePlaces
  <2>4. Message!LastPwd' = Message!NULL
    BY <2>1 DEF Message!LastPwd
  <2> QED
    BY <2>1, <2>3, <2>4 DEF Message!PwdOwned, Message!Given, Message!Over
<1>4. Message!FieldsOwned'
  BY DEF Message!FieldsOwned, Message!Given, Message!Over
<1>5. v10' = {} /\ Message!ReplyMade'
  BY DEF Message!ReplyMade, Message!Over, Message!buf_create, Message!append_key_val,
         Message!res
<1> QED
  BY <1>1, <1>2, <1>3, <1>4, <1>5 DEF Message!MessageInv

\* git_handler_repo_deinit frees what the globals name.
LEMMA MessageRepoDeinit ==
  ASSUME Message!MessageInv, Message!RepoDeinit
  PROVE  Message!MessageInv'
<1>0. /\ Message!TypeOK /\ v10 = {} /\ Message!GlobalsOwned /\ Message!PwdOwned
      /\ Message!FieldsOwned /\ Message!ReplyMade
  BY DEF Message!MessageInv
<1> USE <1>0, MessageNames DEF Message!RepoDeinit, Message!globals, Message!recv,
     Message!sent, Message!Free
<1>1. Message!TypeOK'
  <2>1. v9' \subseteq v9 /\ v10' \subseteq {"g_repo", "g_dot_git_dir"}
    BY DEF Message!GlobalsOwned
  <2> QED
    BY <2>1, MessageObjects DEF Message!TypeOK
<1>2. Message!GlobalsOwned'
  BY DEF Message!GlobalsOwned
<1>3. Message!PwdOwned'
  <2>1. v9' \subseteq v9
    OBVIOUS
  <2>2. Message!LastPwd' = Message!LastPwd
    BY DEF Message!LastPwd
  <2>3. \A i \in 1..Len(Message!Pwds) : Message!Pwds[i] \in v9' => i <= v8
    BY DEF Message!PwdOwned
  <2> QED
    BY <2>1, <2>2, <2>3 DEF Message!PwdOwned, Message!Given, Message!Over
<1>4. Message!FieldsOwned'
  BY DEF Message!FieldsOwned, Message!Given, Message!Over
<1>5. v10' = {} /\ Message!ReplyMade'
  <2>1. v10' = {}
    BY DEF Message!GlobalsOwned
  <2> QED
    BY <2>1 DEF Message!ReplyMade, Message!Over, Message!buf_create,
         Message!append_key_val,
         Message!res
<1> QED
  BY <1>1, <1>2, <1>3, <1>4, <1>5 DEF Message!MessageInv

\* msgpack_handler_recv reads a map, or returns.
LEMMA MessageRecv ==
  ASSUME Message!MessageInv, Message!Recv
  PROVE  Message!MessageInv'
<1>1. CASE Message!Return
  BY <1>1, MessageReturn DEF Message!Recv
<1>2. CASE v1' = "pairs" /\ v4' \in 0..MaxPairs
          /\ UNCHANGED <<v2, v3, v5, v6, v7, v8, v9, v10, v11, v12, v13, v14, v15>>
  <2>0. /\ Message!TypeOK /\ v10 = {} /\ Message!GlobalsOwned /\ Message!PwdOwned
        /\ Message!FieldsOwned /\ Message!ReplyMade /\ v1 = "recv"
    BY DEF Message!MessageInv, Message!Recv
  <2>1. Message!TypeOK'
    BY <1>2, <2>0 DEF Message!TypeOK
  <2>2. Message!GlobalsOwned' /\ v10' = {} /\ Message!ReplyMade'
    BY <1>2, <2>0 DEF Message!GlobalsOwned, Message!ReplyMade, Message!Over
  <2>3. Message!PwdOwned'
    BY <1>2, <2>0 DEF Message!PwdOwned, Message!LastPwd, Message!Given, Message!Over
  <2>4. Message!FieldsOwned'
    BY <1>2, <2>0 DEF Message!FieldsOwned, Message!Given, Message!Over
  <2> QED
    BY <2>1, <2>2, <2>3, <2>4 DEF Message!MessageInv
<1> QED
  BY <1>1, <1>2 DEF Message!Recv, Message!globals, Message!sent

\* A pair was declared, so the count stays in its range.
LEMMA MessagePair ==
  ASSUME Message!TypeOK, Message!Pair
  PROVE  v1 = "pairs" /\ v4' \in 0..MaxPairs
BY MessageBounds DEF Message!TypeOK, Message!Pair

\* The id.
LEMMA MessageKeyId ==
  ASSUME Message!MessageInv, Message!KeyId
  PROVE  Message!MessageInv'
<1>0. /\ Message!TypeOK /\ v10 = {} /\ Message!GlobalsOwned /\ Message!PwdOwned
      /\ Message!FieldsOwned /\ Message!ReplyMade
  BY DEF Message!MessageInv
<1> USE <1>0, MessageNames DEF Message!KeyId, Message!globals, Message!recv,
     Message!sent, Message!Pair
<1>1. Message!TypeOK'
  BY MessagePair DEF Message!TypeOK
<1>2. Message!GlobalsOwned'
  BY DEF Message!GlobalsOwned
<1>3. Message!PwdOwned'
  BY DEF Message!PwdOwned, Message!LastPwd, Message!Given, Message!Over
<1>4. Message!FieldsOwned'
  BY DEF Message!FieldsOwned, Message!Given, Message!Over
<1>5. v10' = {} /\ Message!ReplyMade'
  BY DEF Message!ReplyMade, Message!Over, Message!buf_create, Message!append_key_val,
         Message!res
<1> QED
  BY <1>1, <1>2, <1>3, <1>4, <1>5 DEF Message!MessageInv

\* The command.
LEMMA MessageKeyCmd ==
  ASSUME Message!MessageInv, Message!KeyCmd
  PROVE  Message!MessageInv'
<1>0. /\ Message!TypeOK /\ v10 = {} /\ Message!GlobalsOwned /\ Message!PwdOwned
      /\ Message!FieldsOwned /\ Message!ReplyMade
  BY DEF Message!MessageInv
<1> USE <1>0, MessageNames DEF Message!KeyCmd, Message!globals, Message!recv,
     Message!sent, Message!Pair
<1>1. Message!TypeOK'
  BY MessagePair DEF Message!TypeOK
<1>2. Message!GlobalsOwned'
  BY DEF Message!GlobalsOwned
<1>3. Message!PwdOwned'
  BY DEF Message!PwdOwned, Message!LastPwd, Message!Given, Message!Over
<1>4. Message!FieldsOwned'
  BY DEF Message!FieldsOwned, Message!Given, Message!Over
<1>5. v10' = {} /\ Message!ReplyMade'
  BY DEF Message!ReplyMade, Message!Over, Message!buf_create, Message!append_key_val,
         Message!res
<1> QED
  BY <1>1, <1>2, <1>3, <1>4, <1>5 DEF Message!MessageInv

\* A key that says nothing.
LEMMA MessageKeyOther ==
  ASSUME Message!MessageInv, Message!KeyOther
  PROVE  Message!MessageInv'
<1>0. /\ Message!TypeOK /\ v10 = {} /\ Message!GlobalsOwned /\ Message!PwdOwned
      /\ Message!FieldsOwned /\ Message!ReplyMade
  BY DEF Message!MessageInv
<1> USE <1>0, MessageNames DEF Message!KeyOther, Message!globals, Message!recv,
     Message!sent, Message!Pair
<1>1. Message!TypeOK'
  BY MessagePair DEF Message!TypeOK
<1>2. Message!GlobalsOwned'
  BY DEF Message!GlobalsOwned
<1>3. Message!PwdOwned'
  BY DEF Message!PwdOwned, Message!LastPwd, Message!Given, Message!Over
<1>4. Message!FieldsOwned'
  BY DEF Message!FieldsOwned, Message!Given, Message!Over
<1>5. v10' = {} /\ Message!ReplyMade'
  BY DEF Message!ReplyMade, Message!Over, Message!buf_create, Message!append_key_val,
         Message!res
<1> QED
  BY <1>1, <1>2, <1>3, <1>4, <1>5 DEF Message!MessageInv

\* A pwd key: the string made for it is live, and another than those before.
LEMMA MessageKeyPwd ==
  ASSUME Message!MessageInv, Message!KeyPwd
  PROVE  Message!MessageInv'
<1>0. /\ Message!TypeOK /\ v10 = {} /\ Message!GlobalsOwned /\ Message!PwdOwned
      /\ Message!FieldsOwned /\ Message!ReplyMade
  BY DEF Message!MessageInv
<1>1. /\ v1 = "pairs" /\ v4' \in 0..MaxPairs
      /\ UNCHANGED <<v1, v2, v3, v5, v6, v10, v11, v12, v13, v14, v15>>
  BY <1>0, MessagePair DEF Message!KeyPwd, Message!Pair, Message!Hold, Message!globals,
     Message!sent
<1>2. /\ v8' = v8 + 1 /\ v8 < Len(Message!Pwds)
      /\ v7' = Message!Pwds[v8'] /\ v9' = v9 \cup {v7'}
  BY DEF Message!KeyPwd, Message!Hold
<1>3. v8' \in 1..Len(Message!Pwds)
  <2>1. v8 \in 0..Len(Message!Pwds)
    BY <1>0 DEF Message!TypeOK
  <2>2. v8 = 0 \/ v8 = 1 \/ v8 = 2
    BY <2>1, MessagePlaces
  <2>3. ~ v8 < Len(Message!Pwds) \/ v8 + 1 \in 1..Len(Message!Pwds)
    BY <2>2 DEF Message!Pwds
  <2> QED
    BY <1>2, <2>3
<1>4. v7' \in {"first_pwd", "second_pwd"} /\ Message!LastPwd' = v7'
  <2>1. v8' = 1 \/ v8' = 2
    BY <1>3, MessagePlaces
  <2>2. v7' = Message!Pwds[1] \/ v7' = Message!Pwds[2]
    BY <1>2, <2>1
  <2>3. v8' # 0
    BY <2>1
  <2> QED
    BY <1>2, <2>2, <2>3, MessagePwds DEF Message!LastPwd
<1>5. Message!TypeOK'
  <2>1. v7' \in Message!Objects /\ v9' \subseteq Message!Objects
    BY <1>0, <1>2, <1>4, MessageObjects DEF Message!TypeOK
  <2>2. v8' \in 0..Len(Message!Pwds)
    BY <1>3, MessagePlaces
  <2> QED
    BY <1>0, <1>1, <2>1, <2>2 DEF Message!TypeOK
<1>6. Message!GlobalsOwned'
  BY <1>0, <1>1, <1>2, <1>4 DEF Message!GlobalsOwned
<1>7. Message!PwdOwned'
  <2>1. \A i \in 1..Len(Message!Pwds) : Message!Pwds[i] \in v9' => i <= v8'
    <3> SUFFICES ASSUME NEW i \in 1..Len(Message!Pwds), Message!Pwds[i] \in v9'
                 PROVE  i <= v8'
      OBVIOUS
    <3>1. i = 1 \/ i = 2
      BY MessagePlaces
    <3>2. v8' = 1 \/ v8' = 2
      BY <1>3, MessagePlaces
    <3>3. CASE Message!Pwds[i] \in v9
      <4>1. i <= v8
        BY <1>0, <3>3 DEF Message!PwdOwned
      <4>2. v8 = 0 \/ v8 = 1 \/ v8 = 2
        BY MessageState
      <4> QED
        BY <1>2, <3>1, <4>1, <4>2
    <3>4. CASE Message!Pwds[i] = Message!Pwds[v8']
      <4>1. i = v8'
        BY <3>1, <3>2, <3>4, MessagePwdsDiffer
      <4> QED
        BY <3>1, <4>1
    <3> QED
      BY <1>2, <3>3, <3>4
  <2>2. v7' \in v9'
    BY <1>2
  <2> QED
    BY <1>1, <1>4, <2>1, <2>2 DEF Message!PwdOwned, Message!Given, Message!Over
<1>8. Message!FieldsOwned'
  <2>1. \A f \in Message!git_root_req_T \cup {"data"} : f # v7'
    BY <1>4, MessageNames
  <2>2. \A f \in Message!git_root_req_T \cup {"data"} : f \in v9' <=> f \in v9
    BY <1>2, <2>1
  <2> QED
    BY <1>0, <1>1, <2>2, MessageNames DEF Message!FieldsOwned, Message!Given, Message!Over
<1>9. v10' = {} /\ Message!ReplyMade'
  BY <1>0, <1>1 DEF Message!ReplyMade, Message!Over
<1> QED
  BY <1>5, <1>6, <1>7, <1>8, <1>9 DEF Message!MessageInv

\* A bad pair, and a message no command is known for, only return.
LEMMA MessageBadPair ==
  ASSUME Message!MessageInv, Message!BadPair \/ Message!NoDispatch
  PROVE  Message!MessageInv'
BY MessageReturn DEF Message!BadPair, Message!NoDispatch

\* The request takes the string over.
LEMMA MessageDispatch ==
  ASSUME Message!MessageInv, Message!Dispatch
  PROVE  Message!MessageInv'
<1>0. /\ Message!TypeOK /\ v10 = {} /\ Message!GlobalsOwned /\ Message!PwdOwned
      /\ Message!FieldsOwned /\ Message!ReplyMade
  BY DEF Message!MessageInv
<1> USE <1>0, MessageNames DEF Message!Dispatch, Message!globals, Message!recv,
     Message!sent, Message!CMD_GIT_STATUS
<1>1. Message!TypeOK'
  <2>1. v11' \in [Message!git_root_req_T -> Message!Objects \cup {Message!NULL}]
    BY DEF Message!TypeOK
  <2> QED
    BY <2>1 DEF Message!TypeOK
<1>2. Message!GlobalsOwned'
  BY DEF Message!GlobalsOwned
<1>3. Message!PwdOwned'
  <2>1. Message!LastPwd' = Message!LastPwd /\ v11'["pwd"] = v7
    BY DEF Message!LastPwd, Message!TypeOK
  <2> QED
    BY <2>1 DEF Message!PwdOwned, Message!Given, Message!Over
<1>4. Message!FieldsOwned'
  <2>1. \A f \in Message!git_root_req_T \ {"pwd"} : v11'[f] = v11[f]
    BY DEF Message!TypeOK
  <2> QED
    BY <2>1 DEF Message!FieldsOwned, Message!Given, Message!Over
<1>5. v10' = {} /\ Message!ReplyMade'
  BY DEF Message!ReplyMade, Message!Over
<1> QED
  BY <1>1, <1>2, <1>3, <1>4, <1>5 DEF Message!MessageInv

\* calloc fails: the string is left.
LEMMA MessageNoMemory ==
  ASSUME Message!MessageInv, Message!NoMemory
  PROVE  Message!MessageInv'
<1>0. /\ Message!TypeOK /\ v10 = {} /\ Message!GlobalsOwned /\ Message!PwdOwned
      /\ Message!FieldsOwned /\ Message!ReplyMade
  BY DEF Message!MessageInv
<1> USE <1>0, MessageNames DEF Message!NoMemory, Message!globals, Message!recv,
     Message!sent
<1>1. Message!TypeOK'
  <2>1. v11' \in [Message!git_root_req_T -> Message!Objects \cup {Message!NULL}]
    BY DEF Message!TypeOK
  <2> QED
    BY <2>1 DEF Message!TypeOK
<1>2. Message!GlobalsOwned'
  BY DEF Message!GlobalsOwned
<1>3. Message!PwdOwned'
  <2>1. Message!LastPwd' = Message!LastPwd /\ v11'["pwd"] = Message!NULL
    BY DEF Message!LastPwd, Message!TypeOK
  <2> QED
    BY <2>1 DEF Message!PwdOwned, Message!Given, Message!Over
<1>4. Message!FieldsOwned'
  <2>1. \A f \in Message!git_root_req_T \ {"pwd"} : f \notin v9
    BY DEF Message!FieldsOwned, Message!Given, Message!Over
  <2> QED
    BY <2>1 DEF Message!FieldsOwned, Message!Given, Message!Over
<1>5. v10' = {} /\ Message!ReplyMade'
  BY DEF Message!ReplyMade, Message!Over
<1> QED
  BY <1>1, <1>2, <1>3, <1>4, <1>5 DEF Message!MessageInv

\* The request data is allocated.
LEMMA MessageCalloc ==
  ASSUME Message!MessageInv, Message!Calloc
  PROVE  Message!MessageInv'
<1>0. /\ Message!TypeOK /\ v10 = {} /\ Message!GlobalsOwned /\ Message!PwdOwned
      /\ Message!FieldsOwned /\ Message!ReplyMade
  BY DEF Message!MessageInv
<1> USE <1>0, MessageNames DEF Message!Calloc, Message!globals, Message!recv,
     Message!sent, Message!Hold
<1>1. Message!TypeOK'
  BY MessageObjects DEF Message!TypeOK
<1>2. Message!GlobalsOwned'
  BY DEF Message!GlobalsOwned
<1>3. Message!PwdOwned'
  <2>1. Message!LastPwd \in {"NULL", "first_pwd",
       "second_pwd"} /\ Message!LastPwd' = Message!LastPwd
    BY MessageState DEF Message!LastPwd
  <2>2. \A i \in 1..Len(Message!Pwds) : Message!Pwds[i] \in v9' <=> Message!Pwds[i] \in v9
    BY MessagePwds, MessagePlaces
  <2>3. Message!LastPwd \in v9' \cup {"NULL"}
    BY DEF Message!PwdOwned, Message!Over
  <2> QED
    BY <2>1, <2>2, <2>3 DEF Message!PwdOwned, Message!Given, Message!Over
<1>4. Message!FieldsOwned'
  BY DEF Message!FieldsOwned, Message!Given, Message!Over
<1>5. v10' = {} /\ Message!ReplyMade'
  BY DEF Message!ReplyMade, Message!Over, Message!buf_create, Message!append_key_val,
         Message!res
<1> QED
  BY <1>1, <1>2, <1>3, <1>4, <1>5 DEF Message!MessageInv

\* A request that is not queued is cleaned up.
LEMMA MessageNotQueued ==
  ASSUME Message!MessageInv, Message!NotQueued
  PROVE  Message!MessageInv'
<1>1. v1 \in Message!Given /\ v1' = "done"
  BY DEF Message!NotQueued, Message!Given
<1>2. UNCHANGED <<v2, v3, v4, v5, v6, v7, v8, v11, v12, v13, v14, v15>>
  BY DEF Message!NotQueued, Message!globals, Message!recv, Message!sent
<1>3. v15' \in Sizes \cup {0}
  BY <1>2 DEF Message!MessageInv, Message!TypeOK
<1>4. Message!ReplyMade'
  BY <1>1, <1>2 DEF Message!MessageInv, Message!ReplyMade, Message!Given, Message!Over
<1> QED
  BY <1>1, <1>2, <1>3, <1>4, MessageCleaned DEF Message!NotQueued

\* Setting fields of the request: each then owns a string of its name.
LEMMA MessageSet ==
  ASSUME Message!MessageInv, NEW fields \in SUBSET (Message!git_root_req_T \ {"pwd"}),
         v1 \in Message!Given, v1' \in Message!Given, Message!Set(fields),
         UNCHANGED <<v2, v3, v4, v5, v6, v7, v8, v13, v14, v15>>, v12' \in {-1, 0}
  PROVE  Message!MessageInv'
<1>0. /\ Message!TypeOK /\ v10 = {} /\ Message!GlobalsOwned /\ Message!PwdOwned
      /\ Message!FieldsOwned /\ Message!ReplyMade
  BY DEF Message!MessageInv
<1> USE <1>0, MessageNames
<1>1. /\ v11' = [f \in Message!git_root_req_T |-> IF f \in fields THEN f ELSE v11[f]]
      /\ v9' = v9 \cup fields /\ v10' = v10
  BY DEF Message!Set, Message!Hold
<1>2. /\ \A f \in Message!git_root_req_T : v11'[f] = IF f \in fields THEN f ELSE v11[f]
      /\ v11' \in [Message!git_root_req_T -> Message!Objects \cup {Message!NULL}]
  BY <1>1, MessageObjects DEF Message!TypeOK
<1>3. Message!TypeOK'
  <2>1. v9' \subseteq Message!Objects /\ v10' \subseteq Message!Objects
    BY <1>1, MessageObjects DEF Message!TypeOK
  <2> QED
    BY <1>2, <2>1 DEF Message!TypeOK, Message!Given
<1>4. Message!GlobalsOwned'
  <2>1. \A x \in {"g_repo", "g_dot_git_dir", "out"} : x \in v9' <=> x \in v9
    BY <1>1
  <2>2. v1 \notin {"start", "stopped"} /\ v1' \notin {"start", "stopped"}
    BY DEF Message!Given
  <2> QED
    BY <2>1, <2>2 DEF Message!GlobalsOwned
<1>5. Message!PwdOwned'
  <2>1. \A x \in {"first_pwd", "second_pwd"} : x \in v9' <=> x \in v9
    BY <1>1
  <2>2. \A i \in 1..Len(Message!Pwds) : Message!Pwds[i] \in {"first_pwd", "second_pwd"}
    BY MessagePwds, MessagePlaces
  <2>3. v11'["pwd"] = v11["pwd"] /\ Message!LastPwd' = Message!LastPwd
    BY <1>2 DEF Message!LastPwd
  <2>4. Message!LastPwd \in v9' \cup {Message!NULL}
    BY <1>1 DEF Message!PwdOwned, Message!Given, Message!Over
  <2>5. \A i \in 1..Len(Message!Pwds) : Message!Pwds[i] \in v9' => i <= v8
    BY <2>1, <2>2 DEF Message!PwdOwned
  <2> QED
    BY <2>3, <2>4, <2>5 DEF Message!PwdOwned, Message!Given, Message!Over
<1>6. Message!FieldsOwned'
  <2>1. "pwd" \notin v9' /\ "data" \in v9'
    BY <1>1 DEF Message!FieldsOwned
  <2>2. \A f \in Message!git_root_req_T \ {"pwd"} :
           v11[f] \in {Message!NULL, f} /\ (f \in v9 <=> v11[f] = f)
    BY DEF Message!FieldsOwned, Message!Given, Message!Over
  <2>3. \A f \in Message!git_root_req_T \ {"pwd"} :
           v11'[f] \in {Message!NULL, f} /\ (f \in v9' <=> v11'[f] = f)
    BY <1>1, <1>2, <2>2
  <2> QED
    BY <2>1, <2>3 DEF Message!FieldsOwned, Message!Given, Message!Over
<1>7. v10' = {} /\ Message!ReplyMade'
  BY <1>1 DEF Message!ReplyMade, Message!Given, Message!Over
<1> QED
  BY <1>3, <1>4, <1>5, <1>6, <1>7 DEF Message!MessageInv

\* The paths the request needs, and then what the worker finds.
LEMMA MessageFills ==
  ASSUME Message!MessageInv, Message!Fill \/ Message!WorkerEnds
  PROVE  Message!MessageInv'
<1>1. CASE Message!Fill
  <2>1. PICK fields \in SUBSET (Message!git_root_req_T \ {"pwd"}) : Message!Set(fields)
    BY <1>1, MessageNames DEF Message!Fill
  <2>2. v1 \in Message!Given /\ v1' \in Message!Given
    BY <1>1 DEF Message!Fill, Message!Given
  <2>3. UNCHANGED <<v2, v3, v4, v5, v6, v7, v8, v12, v13, v14, v15>>
    BY <1>1 DEF Message!Fill, Message!globals, Message!recv, Message!sent
  <2>4. v12' \in {-1, 0}
    BY <2>3 DEF Message!MessageInv, Message!TypeOK
  <2> QED
    BY <2>1, <2>2, <2>3, <2>4, MessageSet
<1>2. CASE Message!WorkerEnds
  <2>1. PICK fields \in SUBSET (Message!git_root_req_T \ {"pwd"}) : Message!Set(fields)
    BY <1>2, MessageFields DEF Message!WorkerEnds
  <2>2. v1 \in Message!Given /\ v1' \in Message!Given
    BY <1>2 DEF Message!WorkerEnds, Message!Given
  <2>3. UNCHANGED <<v2, v3, v4, v5, v6, v7, v8, v13, v14, v15>>
    BY <1>2 DEF Message!WorkerEnds, Message!globals, Message!recv, Message!sent
  <2>4. v12' \in {-1, 0}
    BY <1>2 DEF Message!WorkerEnds, Message!gate_result, Message!MessageInv,
         Message!TypeOK
  <2> QED
    BY <2>1, <2>2, <2>3, <2>4, MessageSet
<1> QED
  BY <1>1, <1>2

\* The worker is queued.
LEMMA MessageQueued ==
  ASSUME Message!MessageInv, Message!Queued
  PROVE  Message!MessageInv'
<1>0. /\ Message!TypeOK /\ v10 = {} /\ Message!GlobalsOwned /\ Message!PwdOwned
      /\ Message!FieldsOwned /\ Message!ReplyMade
  BY DEF Message!MessageInv
<1> USE <1>0, MessageNames DEF Message!Queued, Message!globals, Message!recv, Message!sent
<1>1. Message!TypeOK'
  BY DEF Message!TypeOK
<1>2. Message!GlobalsOwned'
  BY DEF Message!GlobalsOwned
<1>3. Message!PwdOwned'
  BY DEF Message!PwdOwned, Message!LastPwd, Message!Given, Message!Over
<1>4. Message!FieldsOwned'
  BY DEF Message!FieldsOwned, Message!Given, Message!Over
<1>5. v10' = {} /\ Message!ReplyMade'
  BY DEF Message!ReplyMade, Message!Over, Message!buf_create, Message!append_key_val,
         Message!res
<1> QED
  BY <1>1, <1>2, <1>3, <1>4, <1>5 DEF Message!MessageInv

\* The worker could not open the repository.
LEMMA MessageWorkerFails ==
  ASSUME Message!MessageInv, Message!WorkerFails
  PROVE  Message!MessageInv'
<1>0. /\ Message!TypeOK /\ v10 = {} /\ Message!GlobalsOwned /\ Message!PwdOwned
      /\ Message!FieldsOwned /\ Message!ReplyMade
  BY DEF Message!MessageInv
<1> USE <1>0, MessageNames DEF Message!WorkerFails, Message!globals, Message!recv,
     Message!sent
<1>1. Message!TypeOK'
  BY DEF Message!TypeOK
<1>2. Message!GlobalsOwned'
  BY DEF Message!GlobalsOwned
<1>3. Message!PwdOwned'
  BY DEF Message!PwdOwned, Message!LastPwd, Message!Given, Message!Over
<1>4. Message!FieldsOwned'
  BY DEF Message!FieldsOwned, Message!Given, Message!Over
<1>5. v10' = {} /\ Message!ReplyMade'
  BY DEF Message!ReplyMade, Message!Over, Message!buf_create, Message!append_key_val,
         Message!res
<1> QED
  BY <1>1, <1>2, <1>3, <1>4, <1>5 DEF Message!MessageInv

\* after_git_root: a response is made of the request that is then cleaned up.
LEMMA MessageAfter ==
  ASSUME Message!MessageInv, Message!AfterDrops \/ Message!AfterSends
  PROVE  Message!MessageInv'
<1>0. v1 \in Message!Given /\ v1' = "done" /\ Message!git_root_request_cleanup
  BY DEF Message!AfterDrops, Message!AfterSends, Message!Given
<1>1. UNCHANGED <<v2, v3, v4, v5, v6, v7, v8, v11, v12>>
  BY DEF Message!AfterDrops, Message!AfterSends, Message!globals, Message!recv
<1>2. CASE Message!AfterDrops
  <2>1. UNCHANGED <<v13, v14, v15>>
    BY <1>2 DEF Message!AfterDrops, Message!sent
  <2>2. v15' \in Sizes \cup {0}
    BY <2>1 DEF Message!MessageInv, Message!TypeOK
  <2>3. Message!ReplyMade'
    BY <1>0, <2>1 DEF Message!MessageInv, Message!ReplyMade, Message!Given, Message!Over
  <2> QED
    BY <1>0, <1>1, <2>2, <2>3, MessageCleaned
<1>3. CASE Message!AfterSends
  <2>1. v13' = Message!buf_create /\ v15' \in Sizes /\ v14' = Message!length_header(v15')
    BY <1>3 DEF Message!AfterSends
  <2>2. Message!buf_create' = Message!buf_create
    BY <1>1 DEF Message!buf_create, Message!append_key_val, Message!res
  <2>3. Message!ReplyMade'
    BY <1>0, <2>1, <2>2 DEF Message!ReplyMade, Message!Over
  <2> QED
    BY <1>0, <1>1, <2>1, <2>3, MessageCleaned
<1> QED
  BY <1>2, <1>3

\* Every step of a message keeps the invariant.
LEMMA MessageNext ==
  ASSUME Message!MessageInv, Message!Next
  PROVE  Message!MessageInv'
BY MessageNoRepo, MessageRepoInit, MessageRepoDeinit, MessageRecv, MessageKeyId,
   MessageKeyCmd, MessageKeyPwd, MessageKeyOther, MessageBadPair, MessageDispatch,
   MessageNoMemory, MessageCalloc, MessageNotQueued, MessageFills, MessageQueued,
   MessageWorkerFails, MessageAfter
   DEF Message!Next

\* A step of another part changes nothing of it.
LEMMA MessageUnchanged ==
  ASSUME Message!MessageInv,
         UNCHANGED <<v1, v2, v3, v4, v5, v6, v7, v8, v9, v10, v11, v12, v13, v14, v15>>
  PROVE  Message!MessageInv'
<1>1. Message!TypeOK' /\ v10' = {}
  BY DEF Message!MessageInv, Message!TypeOK
<1>2. Message!GlobalsOwned' /\ Message!PwdOwned'
  BY DEF Message!MessageInv, Message!GlobalsOwned, Message!PwdOwned, Message!LastPwd
<1>3. Message!FieldsOwned'
  BY DEF Message!MessageInv, Message!FieldsOwned
<1>4. Message!ReplyMade'
  BY DEF Message!MessageInv, Message!ReplyMade, Message!buf_create,
       Message!append_key_val,
         Message!res
<1> QED
  BY <1>1, <1>2, <1>3, <1>4 DEF Message!MessageInv

\* What is left at the end is what the code forgets.
LEMMA MessageProperties ==
  ASSUME Message!MessageInv
  PROVE  Message!TypeOK /\ Message!FreedOnce /\ Message!NothingElseLeaks
<1>0. /\ Message!TypeOK /\ v10 = {} /\ Message!GlobalsOwned /\ Message!PwdOwned
      /\ Message!FieldsOwned
  BY DEF Message!MessageInv
<1>1. Message!NothingElseLeaks
  <2> DEFINE Older == {Message!Pwds[i] : i \in 1..(v8 - 1)}
             Last == {Message!Pwds[i] : i \in {j \in {v8} : j > 0 /\ v5 # 0
                          /\ v6 = Message!CMD_GIT_STATUS /\ v11["pwd"] = Message!NULL}}
             Dir == IF v3 = Message!NULL THEN {"out"} ELSE {}
  <2> SUFFICES ASSUME v1 = "stopped", NEW x \in v9
               PROVE  x \in Older \cup Last \cup Message!Forgotten \cup Dir
    BY DEF Message!NothingElseLeaks
  <2>1. x \in Message!Objects /\ v1 \in Message!Over /\ v1 \notin Message!Given
    BY <1>0 DEF Message!TypeOK, Message!Over, Message!Given
  <2>2. CASE x \in Message!git_root_req_T
    BY <1>0, <2>1, <2>2 DEF Message!FieldsOwned
  <2>3. CASE x = "data" \/ x = "g_repo" \/ x = "g_dot_git_dir"
    BY <1>0, <2>1, <2>3 DEF Message!FieldsOwned, Message!GlobalsOwned
  <2>4. CASE x = "out"
    BY <1>0, <2>4 DEF Message!GlobalsOwned
  <2>5. CASE x = "first_pwd" \/ x = "second_pwd"
    <3>1. /\ \/ v8 = 0 /\ Message!LastPwd = "NULL"
             \/ v8 = 1 /\ Message!LastPwd = "first_pwd"
             \/ v8 = 2 /\ Message!LastPwd = "second_pwd"
          /\ "first_pwd" \in v9 => v8 = 1 \/ v8 = 2
          /\ "second_pwd" \in v9 => v8 = 2
      BY MessageState
    <3>2. ASSUME x = Message!LastPwd
          PROVE  v5 # 0 /\ v6 = Message!CMD_GIT_STATUS /\ v11["pwd"] = Message!NULL
      BY <1>0, <2>1, <3>2 DEF Message!PwdOwned
    <3>3. CASE v8 = 0
      BY <2>5, <3>1, <3>3
    <3>4. CASE v8 = 1
      <4>1. x = "first_pwd" /\ x = Message!LastPwd
        BY <2>5, <3>1, <3>4
      <4>2. x = Message!Pwds[v8]
        BY <3>4, <4>1, MessagePwds
      <4> QED
        BY <3>2, <3>4, <4>1, <4>2
    <3>5. CASE v8 = 2
      <4>1. 1..(v8 - 1) = {1}
        BY <3>5
      <4>2. CASE x = "first_pwd"
        BY <4>1, <4>2, MessagePwds
      <4>3. CASE x = "second_pwd"
        <5>1. x = Message!LastPwd
          BY <3>1, <3>5, <4>3
        <5>2. x = Message!Pwds[v8]
          BY <3>5, <4>3, MessagePwds
        <5> QED
          BY <3>2, <3>5, <5>1, <5>2
      <4> QED
        BY <2>5, <4>2, <4>3
    <3> QED
      BY <3>1, <3>3, <3>4, <3>5
  <2> QED
    BY <2>1, <2>2, <2>3, <2>4, <2>5, MessageObjects
<1> QED
  BY <1>0, <1>1 DEF Message!FreedOnce

-----------------------------------------------------------------------------
(* The response, as the client reads it.                                   *)

\* The keys msgpack_handler_buf_create appends, in order: each but the third.
LEMMA MessageAppendedLen == Len(Message!appended) = 28
BY DEF Message!appended

\* The pair at each place has the key of that place, from the fourth on.
LEMMA MessageAppended ==
  \A i \in 1..28 : Message!appended[i] = (IF i <= 3 THEN i - 1 ELSE i)
<1> SUFFICES ASSUME NEW i \in 1..28
             PROVE  Message!appended[i] = (IF i <= 3 THEN i - 1 ELSE i)
  OBVIOUS
<1>1. i = 1 \/ i = 2 \/ i = 3 \/ i \in 4..28
  OBVIOUS
<1>2. CASE i \in 4..28
  BY <1>2 DEF Message!appended
<1> QED
  BY <1>1, <1>2 DEF Message!appended

\* A response has a pair for each of these keys.
LEMMA MessagePairs ==
  ASSUME v13 = Message!buf_create
  PROVE  /\ Len(v13) = 28
         /\ \A i \in 1..28 : v13[i] = Message!append_key_val(IF i <= 3 THEN i - 1 ELSE i)
         /\ \A i \in 1..28 : v13[i][1] = (IF i <= 3 THEN i - 1 ELSE i)
<1>1. v13 = [i \in 1..28 |-> Message!append_key_val(Message!appended[i])]
  BY MessageAppendedLen DEF Message!buf_create
<1>2. Len(v13) = 28
  BY <1>1
<1>3. \A i \in 1..28 : v13[i] = Message!append_key_val(Message!appended[i])
  BY <1>1
<1>4. \A i \in 1..28 : v13[i] = Message!append_key_val(IF i <= 3 THEN i - 1 ELSE i)
  BY <1>3, MessageAppended
<1>5. \A k : Message!append_key_val(k)[1] = k
  BY DEF Message!append_key_val
<1> QED
  BY <1>2, <1>4, <1>5

\* The cardinality of StatusMessage is the library's.
LEMMA MessageCardinality == \A S : Message!Cardinality(S) = Cardinality(S)
BY DEF Message!Cardinality, Cardinality

\* There are 29 numbers from the id to the last key, and one is not sent.
LEMMA MessageCount == Cardinality((0..28) \ {3}) = 28
<1>1. 0 \in Int /\ 28 \in Int /\ ~ 0 > 28 /\ 28 - 0 + 1 = 29
  OBVIOUS
<1>2. IsFiniteSet(0..28) /\ Cardinality(0..28) = 28 - 0 + 1
  BY <1>1, FS_Interval, Zenon
<1>3. Cardinality(0..28) = 29
  BY <1>1, <1>2, Zenon
<1>4. Cardinality((0..28) \ {3}) = Cardinality(0..28) - 1
  <2>1. 3 \in 0..28
    OBVIOUS
  <2> QED
    BY <1>2, <2>1, FS_RemoveElement, Zenon
<1> QED
  BY <1>3, <1>4

\* They are as many as the map declares, and no key comes twice.
LEMMA MessageDeclares ==
  ASSUME v13 = Message!buf_create
  PROVE  Message!PairsAsDeclared
<1> DEFINE keys == {v13[i][1] : i \in 1..Len(v13)}
<1>1. keys = (0..28) \ {3}
  <2>1. \A i \in 1..28 : v13[i][1] \in (0..28) \ {3}
    BY MessagePairs
  <2>2. ASSUME NEW k \in (0..28) \ {3}
        PROVE  \E i \in 1..28 : v13[i][1] = k
    <3>1. CASE k < 3
      <4>1. k + 1 \in 1..28 /\ v13[k + 1][1] = k
        BY <3>1, MessagePairs
      <4> QED
        BY <4>1
    <3>2. CASE k > 3
      <4>1. k \in 1..28 /\ v13[k][1] = k
        BY <3>2, MessagePairs
      <4> QED
        BY <4>1
    <3> QED
      BY <3>1, <3>2
  <2>3. keys = {v13[i][1] : i \in 1..28}
    BY MessagePairs
  <2> HIDE DEF keys
  <2>4. keys \subseteq (0..28) \ {3}
    BY <2>1, <2>3
  <2>5. (0..28) \ {3} \subseteq keys
    BY <2>2, <2>3
  <2> QED
    BY <2>4, <2>5
<1>4. Len(v13) = 28 /\ Cardinality(keys) = 28
  BY <1>1, MessageCount, MessagePairs
<1> HIDE DEF keys
<1>5. Len(v13) = Message!declared /\ Message!Cardinality(keys) = Message!declared
  BY <1>4, MessageCardinality DEF Message!declared
<1> QED
  BY <1>5 DEF Message!PairsAsDeclared, keys

\* The results a client may ask for: all that after_git_root passes on.
ResultFields == Message!git_root_req_T
                  \ {"pwd", "repo_path", "repo", "subj", "upstream_branch_master"}

\* Each has a key of its own, which is neither the extension's nor is_bare's,
\* and is copied to the response.
LEMMA MessageKeys ==
  /\ \A f \in ResultFields : \E k \in 1..28 : f = Message!MAGIT_RES_KEY[k]
  /\ Message!MAGIT_RES_KEY[3] \notin ResultFields
  /\ Message!MAGIT_RES_KEY[18] \notin ResultFields
<1> USE DEF ResultFields, Message!git_root_req_T, Message!MAGIT_RES_KEY,
            Message!TaskFields, Message!StepFields, Message!GateFields
<1>1. \A f \in ResultFields : \E k \in 1..28 : f = Message!MAGIT_RES_KEY[k]
  OBVIOUS
<1>2. Message!MAGIT_RES_KEY[3] \notin ResultFields
  OBVIOUS
<1>3. Message!MAGIT_RES_KEY[18] \notin ResultFields
  OBVIOUS
<1> QED
  BY <1>1, <1>2, <1>3

\* Only one key has a number for its value.
LEMMA MessageBareKey == \A k \in 1..28 : Message!MAGIT_RES_KEY[k] = "is_bare" => k = 18
BY DEF Message!MAGIT_RES_KEY

\* after_git_root copies each of these results.
LEMMA MessageRes ==
  \A f \in ResultFields : \E i \in 1..Len(Message!res_inits) : Message!res_inits[i] = f
BY DEF ResultFields, Message!git_root_req_T, Message!res_inits, Message!TaskFields,
       Message!StepFields, Message!GateFields

\* The client's numbers are the server's keys.
LEMMA MessageEnum ==
  \A f : Message!magit_info_enum(f) = (CHOOSE k \in 1..28 : f = Message!MAGIT_RES_KEY[k])
BY DEF Message!magit_info_enum, Message!MAGIT_RES_KEY

\* What the client finds under its number for a result is that result.
LEMMA MessageResults ==
  ASSUME v13 = Message!buf_create
  PROVE  Message!ResultsArrive
<1> SUFFICES ASSUME NEW f \in ResultFields
             PROVE  Message!magit_info_get(Message!magit_info_enum(f)) = v11[f]
  BY DEF Message!ResultsArrive, ResultFields
<1> DEFINE k == Message!magit_info_enum(f)
<1>1. k \in 1..28 /\ f = Message!MAGIT_RES_KEY[k]
  <2>1. \E j \in 1..28 : f = Message!MAGIT_RES_KEY[j]
    BY MessageKeys
  <2> QED
    BY <2>1, MessageEnum
<1> HIDE DEF k
<1>2. k # 3 /\ k # 18 /\ k # 0
  BY <1>1, MessageKeys
<1>3. Message!append_key_val(k) = <<k, v11[f]>>
  <2>1. Message!MAGIT_RES_KEY[k] # "is_bare"
    BY <1>1, <1>2, MessageBareKey
  <2>2. Message!res(f) = v11[f]
    BY MessageRes DEF Message!res
  <2> QED
    BY <1>1, <1>2, <2>1, <2>2 DEF Message!append_key_val
<1> DEFINE at == {i \in 1..Len(v13) : v13[i][1] = k}
           i0 == IF k < 3 THEN k + 1 ELSE k
<1>4. Len(v13) = 28
  BY MessagePairs
<1>5. i0 \in 1..28 /\ (IF i0 <= 3 THEN i0 - 1 ELSE i0) = k
  BY <1>1, <1>2
<1>6. \A i \in 1..28 : (IF i <= 3 THEN i - 1 ELSE i) = k => i = i0
  BY <1>1, <1>2
<1> HIDE DEF i0
<1>7. at = {i0}
  BY <1>4, <1>5, <1>6, MessagePairs
<1>8. v13[i0] = <<k, v11[f]>>
  BY <1>3, <1>5, MessagePairs
<1> HIDE DEF at
<1>9. (CHOOSE i \in at : \A j \in at : i <= j) = i0
  <2>1. i0 <= i0
    BY <1>5
  <2> QED
    BY <1>7, <2>1
<1>10. Message!magit_info_get(k) = v13[i0][2]
  BY <1>7, <1>9 DEF Message!magit_info_get, at
<1> QED
  BY <1>8, <1>10 DEF k

\* A number's bytes, most significant first, stand for it.
LEMMA MessageDigit ==
  ASSUME NEW n \in Nat
  PROVE  n \div 256 \in Nat /\ n % 256 = n - 256 * (n \div 256)
BY SMT

\* The weights of the four bytes.
LEMMA MessagePowers ==
  /\ 256^(4 - 1) = 16777216 /\ 256^(4 - 2) = 65536 /\ 256^(4 - 3) = 256 /\ 256^(4 - 4) = 1
  /\ 256^3 = 16777216 /\ 256^2 = 65536
BY SMT

\* Each byte is a digit of what the byte before leaves.
LEMMA MessageShifts ==
  ASSUME NEW n \in Nat
  PROVE  /\ n \div 1 = n
         /\ n \div 65536 = (n \div 256) \div 256
         /\ n \div 16777216 = ((n \div 256) \div 256) \div 256
         /\ n < 256 => n % 256 = n
<1>1. n \div 1 = n
  BY SMT
<1>2. n \div 65536 = (n \div 256) \div 256
  BY SMT
<1>3. n \div 16777216 = ((n \div 256) \div 256) \div 256
  BY SMT
<1>4. n < 256 => n % 256 = n
  BY SMT
<1> QED
  BY <1>1, <1>2, <1>3, <1>4, SMT

\* The digits with their weights add up to the number.
LEMMA MessageSum ==
  ASSUME NEW n \in Int, NEW a \in Int, NEW b \in Int, NEW c \in Int, NEW w, NEW x, NEW y,
         NEW z, w = n - 256 * a, x = a - 256 * b, y = b - 256 * c, z = c
  PROVE  z * 16777216 + y * 65536 + x * 256 + w = n
BY SMT

\* Four bytes are enough for a length of 32 bits.
LEMMA MessageBytes ==
  ASSUME NEW n \in Nat, n \div 16777216 < 256, NEW w, NEW x, NEW y, NEW z,
         w = n % 256, x = (n \div 256) % 256, y = (n \div 65536) % 256,
         z = (n \div 16777216) % 256
  PROVE  z * 16777216 + y * 65536 + x * 256 + w = n
<1> DEFINE a == n \div 256
           b == a \div 256
           c == b \div 256
<1>1. a \in Nat /\ w = n - 256 * a
  BY MessageDigit
<1>2. b \in Nat /\ x = a - 256 * b
  BY MessageDigit, <1>1
<1>3. c \in Nat /\ b % 256 = b - 256 * c
  BY MessageDigit, <1>2
<1>4. n \div 65536 = b /\ n \div 16777216 = c
  BY MessageShifts, SMT
<1>5. c % 256 = c
  BY MessageShifts, <1>3, <1>4, SMT
<1>6. y = b - 256 * c /\ z = c
  BY <1>3, <1>4, <1>5, SMT
<1>7. n \in Int /\ a \in Int /\ b \in Int /\ c \in Int
  BY <1>1, <1>2, <1>3
<1> HIDE DEF a, b, c
<1> QED
  BY <1>1, <1>2, <1>6, <1>7, MessageSum, SMT

\* The filter reads the length that was written: the length fits four bytes.
LEMMA MessageLength ==
  ASSUME v15 \in Sizes, v14 = Message!length_header(v15)
  PROVE  Message!LengthArrives
<1>1. v15 \in Nat /\ v15 \div 16777216 < 256
  BY PartsAssumption, MessagePowers, SMT DEF Message!MessageAssumption
<1>2. \A i \in 1..4 : v14[i] = (v15 \div 256^(4 - i)) % 256
  BY DEF Message!length_header
<1>3. /\ v14[1] = (v15 \div 256^(4 - 1)) % 256 /\ v14[2] = (v15 \div 256^(4 - 2)) % 256
      /\ v14[3] = (v15 \div 256^(4 - 3)) % 256 /\ v14[4] = (v15 \div 256^(4 - 4)) % 256
  BY <1>2
<1>4. /\ v14[1] = (v15 \div 16777216) % 256 /\ v14[2] = (v15 \div 65536) % 256
      /\ v14[3] = (v15 \div 256) % 256 /\ v14[4] = v15 % 256
  BY <1>1, <1>3, MessagePowers, MessageShifts, SMT
<1>5. v14[1] * 16777216 + v14[2] * 65536 + v14[3] * 256 + v14[4] = v15
  BY <1>1, <1>4, MessageBytes, SMT
<1> QED
  BY <1>5, MessagePowers, SMT DEF Message!LengthArrives, Message!magit_server_filter_len

\* So a response, once there is one, is read as it was written.
LEMMA MessageReads ==
  ASSUME Message!MessageInv
  PROVE  Message!PairsAsDeclared /\ Message!ResultsArrive /\ Message!LengthArrives
<1>1. CASE v13 = <<>> /\ v14 = <<>>
  BY <1>1 DEF Message!PairsAsDeclared, Message!ResultsArrive, Message!LengthArrives
<1>2. CASE v13 = Message!buf_create /\ v15 \in Sizes /\ v14 = Message!length_header(v15)
  BY <1>2, MessageDeclares, MessageResults, MessageLength
<1> QED
  BY <1>1, <1>2 DEF Message!MessageInv, Message!ReplyMade

-----------------------------------------------------------------------------
(* The theorems.                                                           *)

\* The invariant holds whatever else the run does.
LEMMA MessageHolds == Safety => [](part = "message" => Message!MessageInv)
<1> DEFINE Inv == part = "message" => Message!MessageInv
<1>1. Init => Inv
  BY MessageInit DEF Init
<1>2. Inv /\ [Next]_all => Inv'
  <2> SUFFICES ASSUME Inv, [Next]_all, part' = "message" PROVE Message!MessageInv'
    OBVIOUS
  <2>1. CASE MessageStep
    BY <2>1, MessageNext DEF MessageStep
  <2>2. CASE UNCHANGED all
    BY <2>2, MessageUnchanged DEF all
  <2>3. ~RoutinesStep /\ ~CaptureStep /\ ~LogStep /\ ~BufferStep /\ ~RecordsStep
    BY DEF RoutinesStep, CaptureStep, LogStep, BufferStep, RecordsStep
  <2> QED
    BY <2>1, <2>2, <2>3 DEF Next
<1> QED
  BY <1>1, <1>2, PTL DEF Safety

\* msgpack_handler_recv, the request and git_root_request_cleanup never free one
\* string twice, and none stays behind but those the code forgets.
THEOREM MessagesOwned == Safety => []MessageOwned
<1>1. (part = "message" => Message!MessageInv) => MessageOwned
  BY MessageProperties DEF MessageOwned
<1> QED
  BY <1>1, MessageHolds, PTL

\* The client reads from a response of any length the results the request has:
\* msgpack_handler_send and magit-server-filter agree on the length, the count
\* of pairs and the keys.
THEOREM MessagesArrive == Safety => []MessageArrives
<1>1. (part = "message" => Message!MessageInv) => MessageArrives
  BY MessageReads DEF MessageArrives
<1> QED
  BY <1>1, MessageHolds, PTL

-----------------------------------------------------------------------------
(* The routines of git_handler.c: routine is v1, pc v2, ptr v3, rc v4, out *)
(* v5, count v6, items v7, broken v8, failed v9.                           *)
(*                                                                         *)
(* Held says, of each place of a routine, which handles "may" be live      *)
(* there, which "must" be, and which pointers are "sound", never           *)
(* dangling.                                                               *)

Held_config_list_z(k, h, p) ==
    \/ /\ k = "may"
       /\ \/ h = "iter" /\ p \in 3 .. 6
          \/ h = "config" /\ p \in (2 .. 7) \cup {10}
    \/ /\ k = "must"
       /\ \/ h = "iter" /\ p \in 3 .. 5
          \/ h = "config" /\ p \in {2}
    \/ /\ k = "sound"
       /\ \/ h = "iter" /\ p \in 3 .. 6
          \/ h = "config" /\ p \in (2 .. 7) \cup {10}

Held_head_subject(k, h, p) ==
    \/ /\ k = "may"
       /\ \/ h = "obj" /\ p \in 3 .. 5
          \/ h = "head" /\ p \in {2, 3, 7}
    \/ /\ k = "must"
       /\ \/ h = "obj" /\ p \in {3, 4}
          \/ h = "head" /\ p \in {2}
    \/ /\ k = "sound"
       /\ \/ h = "obj" /\ p \in 3 .. 5
          \/ h = "head" /\ p \in {2, 3, 7}

Held_tag_desc(k, h, p) ==
    \/ /\ k = "may"
       /\ \/ h = "walker" /\ p \in 6 .. 47
          \/ h = "commit" /\ p \in (10 .. 36) \cup (42 .. 46) \cup {40}
          \/ h = "head_ref" /\ p \in {2, 3, 49}
          \/ h = "head_obj" /\ p \in {3, 4}
          \/ h = "tag_names" /\ p \in (12 .. 25) \cup (27 .. 35)
          \/ h = "tag_ref" /\ p \in (17 .. 19) \cup {31, 33}
          \/ h = "tag" /\ p \in (19 .. 21) \cup {29}
          \/ h = "tag_commit" /\ p \in (21 .. 24) \cup {27}
          \/ h = "tag_name" /\ p \in (24 .. 26) \cup (42 .. 44)
    \/ /\ k = "must"
       /\ \/ h = "head_ref" /\ p \in {2}
          \/ h = "tag_names" /\ p \in (12 .. 22) \cup (27 .. 34)
          \/ h = "tag_ref" /\ p \in {17, 18}
          \/ h = "tag" /\ p \in {19, 20}
          \/ h = "tag_commit" /\ p \in {21, 22}
          \/ h = "tag_name" /\ p \in {43}
    \/ /\ k = "sound"
       /\ \/ h = "walker" /\ p \in 1 .. 47
          \/ h = "commit" /\ p \in (10 .. 22) \cup (27 .. 36) \cup {40}
          \/ h = "head_ref" /\ p \in {2, 3, 49}
          \/ h = "head_obj" /\ p \in {3, 4}
          \/ h = "tag_names" /\ p \in (12 .. 25) \cup (27 .. 35)
          \/ h = "tag_ref" /\ p \in (17 .. 19) \cup {31, 33}
          \/ h = "tag" /\ p \in (19 .. 21) \cup {29}
          \/ h = "tag_commit" /\ p \in (21 .. 24) \cup {27}
          \/ h = "tag_name" /\ p \in {43, 44}

Held_tag_desc_if_match(k, h, p) ==
    \/ /\ k = "may"
       /\ \/ h = "match" /\ p \in 3 .. 6
          \/ h = "head" /\ p \in {2, 3, 9}
    \/ /\ k = "must"
       /\ \/ h = "match" /\ p \in {5}
          \/ h = "head" /\ p \in {2}
    \/ /\ k = "sound"
       /\ \/ h = "match" /\ p \in {5, 6}
          \/ h = "head" /\ p \in {2, 3, 9}

Held_worktrees_porcelain(k, h, p) ==
    \/ /\ k = "may"
       /\ \/ h = "head_ref" /\ p \in {3, 4, 14}
          \/ h = "names" /\ p \in 6 .. 21
          \/ h = "wt" /\ p \in 11 .. 19
          \/ h = "wt_repo" /\ p \in 13 .. 15
          \/ h = "lock_reason" /\ p \in {17}
    \/ /\ k = "must"
       /\ \/ h = "head_ref" /\ p \in {3}
          \/ h = "names" /\ p \in 6 .. 20
          \/ h = "wt" /\ p \in 11 .. 18
          \/ h = "wt_repo" /\ p \in {13}
    \/ /\ k = "sound"
       /\ \/ h = "head_ref" /\ p \in {3, 4, 14}
          \/ h = "names" /\ p \in 6 .. 21
          \/ h = "wt" /\ p \in 11 .. 19
          \/ h = "wt_repo" /\ p \in 13 .. 15
          \/ h = "lock_reason" /\ p \in 10 .. 17

Held_config_show_untracked_files(k, h, p) ==
    \/ /\ k = "may"
       /\ \/ h = "config" /\ p \in 2 .. 5
          \/ h = "value" /\ p \in {3, 4}
    \/ k = "must" /\ h = "value" /\ p \in {3}
    \/ /\ k = "sound"
       /\ \/ h = "config" /\ p \in 2 .. 5
          \/ h = "value" /\ p \in 1 .. 4

Held_status_porcelain_z(k, h, p) ==
    \/ k = "may" /\ h = "status" /\ p \in 2 .. 6
    \/ k = "must" /\ h = "status" /\ p \in 2 .. 5
    \/ k = "sound" /\ h = "status" /\ p \in 2 .. 6

Held_diff_patch(k, h, p) ==
    \/ /\ k = "may"
       /\ \/ h = "diff" /\ p \in 2 .. 6
          \/ h = "buf" /\ p \in {4, 5}
    \/ /\ k = "must"
       /\ \/ h = "diff" /\ p \in {2, 3}
          \/ h = "buf" /\ p \in {4}
    \/ /\ k = "sound"
       /\ \/ h = "diff" /\ p \in 1 .. 6
          \/ h = "buf" /\ p \in 1 .. 5

Held_staged(k, h, p) ==
    \/ /\ k = "may"
       /\ \/ h = "index" /\ p \in 2 .. 13
          \/ h = "head_ref" /\ p \in 4 .. 12
          \/ h = "head_obj" /\ p \in 5 .. 11
          \/ h = "diff" /\ p \in 6 .. 10
          \/ h = "buf" /\ p \in {8, 9}
    \/ /\ k = "must"
       /\ \/ h = "index" /\ p \in 2 .. 5
          \/ h = "head_ref" /\ p \in {4}
          \/ h = "diff" /\ p \in {6, 7}
          \/ h = "buf" /\ p \in {8}
    \/ /\ k = "sound"
       /\ \/ h = "index" /\ p \in 2 .. 13
          \/ h = "head_ref" /\ p \in 1 .. 12
          \/ h = "head_obj" /\ p \in 1 .. 11
          \/ h = "diff" /\ p \in 1 .. 10
          \/ h = "buf" /\ p \in 1 .. 9

Held_branch_list(k, h, p) ==
    \/ /\ k = "may"
       /\ \/ h = "ref" /\ p \in (3 .. 5) \cup {8}
          \/ h = "iter" /\ p \in 2 .. 12
    \/ k = "must" /\ h = "ref" /\ p \in {3, 4}
    \/ /\ k = "sound"
       /\ \/ h = "ref" /\ p \in (3 .. 5) \cup {8}
          \/ h = "iter" /\ p \in 2 .. 12

Held_rev_parse_verify(k, h, p) ==
    \/ k = "may" /\ h = "obj" /\ p \in {2, 3}
    \/ k = "must" /\ h = "obj" /\ p \in {2}
    \/ k = "sound" /\ h = "obj" /\ p \in {2, 3}

Held_log(k, h, p) ==
    \/ /\ k = "may"
       /\ \/ h = "walker" /\ p \in 2 .. 14
          \/ h = "commit" /\ p \in {7, 8}
    \/ k = "must" /\ h = "commit" /\ p \in {7}
    \/ /\ k = "sound"
       /\ \/ h = "walker" /\ p \in 1 .. 14
          \/ h = "commit" /\ p \in (1 .. 8) \cup (10 .. 13)

Held_rev_parse_short_head(k, h, p) ==
    \/ /\ k = "may"
       /\ \/ h = "obj" /\ p \in 2 .. 5
          \/ h = "sid" /\ p \in {3, 4}
    \/ /\ k = "must"
       /\ \/ h = "obj" /\ p \in {2}
          \/ h = "sid" /\ p \in {3}
    \/ /\ k = "sound"
       /\ \/ h = "obj" /\ p \in 1 .. 5
          \/ h = "sid" /\ p \in 1 .. 4

Held_origin_head(k, h, p) ==
    \/ k = "may" /\ h = "ref" /\ p \in 2 .. 7
    \/ k = "must" /\ h = "ref" /\ p \in 2 .. 4
    \/ k = "sound" /\ h = "ref" /\ p \in 1 .. 7

Held_upstream_branch_master(k, h, p) ==
    \/ /\ k = "may"
       /\ \/ h = "branch" /\ p \in 2 .. 6
          \/ h = "upstream" /\ p \in 3 .. 5
    \/ /\ k = "must"
       /\ \/ h = "branch" /\ p \in {2}
          \/ h = "upstream" /\ p \in {3, 4}
    \/ /\ k = "sound"
       /\ \/ h = "branch" /\ p \in 1 .. 6
          \/ h = "upstream" /\ p \in 1 .. 5

Held_rev_head(k, h, p) ==
    \/ k = "may" /\ h = "head" /\ p \in (2 .. 4) \cup {6, 7}
    \/ k = "must" /\ h = "head" /\ p \in {2, 3}
    \/ k = "sound" /\ h = "head" /\ p \in (2 .. 4) \cup {6, 7}

Held_symbolic_ref_short_head(k, h, p) ==
    \/ /\ k = "may"
       /\ \/ h = "head_ref" /\ p \in (2 .. 7) \cup {9, 10, 13}
          \/ h = "resolved" /\ p \in {5, 6}
    \/ /\ k = "must"
       /\ \/ h = "head_ref" /\ p \in (2 .. 4) \cup {9}
          \/ h = "resolved" /\ p \in {5}
    \/ /\ k = "sound"
       /\ \/ h = "head_ref" /\ p \in (2 .. 7) \cup {9, 10, 13}
          \/ h = "resolved" /\ p \in {5, 6}

Held_branch_upstream_name(k, h, p) ==
    \/ /\ k = "may"
       /\ \/ h = "branch" /\ p \in {2, 3, 8}
          \/ h = "upstream" /\ p \in 3 .. 6
    \/ /\ k = "must"
       /\ \/ h = "branch" /\ p \in {2}
          \/ h = "upstream" /\ p \in 3 .. 5
    \/ /\ k = "sound"
       /\ \/ h = "branch" /\ p \in {2, 3, 8}
          \/ h = "upstream" /\ p \in 3 .. 6

Held_branch_record(k, h, p) ==
    \/ /\ k = "may"
       /\ \/ h = "commit" /\ p \in 8 .. 10
          \/ h = "up_buf" /\ p \in 3 .. 11
    \/ k = "must" /\ h = "up_buf" /\ p \in {5, 6}
    \/ /\ k = "sound"
       /\ \/ h = "commit" /\ p \in 1 .. 10
          \/ h = "up_buf" /\ p \in 1 .. 11

Held_tag_cb(k, h, p) ==
    \/ /\ k = "may"
       /\ \/ h = "obj" /\ p \in 2 .. 7
          \/ h = "commit" /\ p \in 3 .. 6
          \/ h = "match" /\ p \in {5}
    \/ /\ k = "must"
       /\ \/ h = "obj" /\ p \in {2}
          \/ h = "commit" /\ p \in {3}
    \/ /\ k = "sound"
       /\ \/ h = "obj" /\ p \in 2 .. 7
          \/ h = "commit" /\ p \in 1 .. 6

Held_commit_graph(k, h, p) ==
    \/ /\ k = "may"
       /\ \/ h = "odb" /\ p \in (2 .. 8) \cup {11, 14, 15, 18, 19}
          \/ h = "path" /\ p \in {4, 5, 14}
          \/ h = "cgraph" /\ p \in (5 .. 7) \cup {18}
    \/ k = "must" /\ h = "cgraph" /\ p \in {5, 6}
    \/ /\ k = "sound"
       /\ \/ h = "odb" /\ p \in (2 .. 8) \cup {11, 14, 15, 18, 19}
          \/ h = "path" /\ p \in {4, 5, 14}
          \/ h = "cgraph" /\ p \in {5, 6, 18}

Held(name, k, h, p) ==
    \/ name = "config_list_z" /\ Held_config_list_z(k, h, p)
    \/ name = "head_subject" /\ Held_head_subject(k, h, p)
    \/ name = "tag_desc" /\ Held_tag_desc(k, h, p)
    \/ name = "tag_desc_if_match" /\ Held_tag_desc_if_match(k, h, p)
    \/ name = "worktrees_porcelain" /\ Held_worktrees_porcelain(k, h, p)
    \/ name = "config_show_untracked_files" /\ Held_config_show_untracked_files(k, h, p)
    \/ name = "status_porcelain_z" /\ Held_status_porcelain_z(k, h, p)
    \/ name = "diff_patch" /\ Held_diff_patch(k, h, p)
    \/ name = "staged" /\ Held_staged(k, h, p)
    \/ name = "branch_list" /\ Held_branch_list(k, h, p)
    \/ name = "rev_parse_verify" /\ Held_rev_parse_verify(k, h, p)
    \/ name = "log" /\ Held_log(k, h, p)
    \/ name = "rev_parse_short_head" /\ Held_rev_parse_short_head(k, h, p)
    \/ name = "origin_head" /\ Held_origin_head(k, h, p)
    \/ name = "upstream_branch_master" /\ Held_upstream_branch_master(k, h, p)
    \/ name = "rev_head" /\ Held_rev_head(k, h, p)
    \/ name = "symbolic_ref_short_head" /\ Held_symbolic_ref_short_head(k, h, p)
    \/ name = "branch_upstream_name" /\ Held_branch_upstream_name(k, h, p)
    \/ name = "branch_record" /\ Held_branch_record(k, h, p)
    \/ name = "tag_cb" /\ Held_tag_cb(k, h, p)
    \/ name = "commit_graph" /\ Held_commit_graph(k, h, p)

-----------------------------------------------------------------------------
(* What a step of a routine must do for the table to hold at the next.     *)

\* Nothing is taken or dropped between two places; a call takes g; a step drops
\* g, which is then not relied on.
Stays(name, p, q) ==
    \A h \in Routines!Handles :
        /\ Held(name, "may", h, p) => Held(name, "may", h, q)
        /\ Held(name, "must", h, q) => Held(name, "must", h, p)
        /\ Held(name, "sound", h, q) => Held(name, "sound", h, p)

Gains(name, p, q, g) ==
    \A h \in Routines!Handles :
        /\ Held(name, "may", h, p) \/ h = g => Held(name, "may", h, q)
        /\ Held(name, "must", h, q) => Held(name, "must", h, p) \/ h = g
        /\ Held(name, "sound", h, q) => Held(name, "sound", h, p) \/ h = g

Drops(name, p, q, g) ==
    /\ \A h \in Routines!Handles \ {g} :
          /\ Held(name, "may", h, p) => Held(name, "may", h, q)
          /\ Held(name, "must", h, q) => Held(name, "must", h, p)
          /\ Held(name, "sound", h, q) => Held(name, "sound", h, p)
    /\ ~Held(name, "must", g, q)

\* Where a test that the handle is set falls through, and where it skips.
Set(name, p, q, g) ==
    \A h \in Routines!Handles :
        /\ Held(name, "may", h, p) => Held(name, "may", h, q)
        /\ Held(name, "must", h, q) => Held(name, "must", h, p) \/ h = g
        /\ Held(name, "sound", h, q) => Held(name, "sound", h, p) \/ h = g

Unset(name, p, q, g) ==
    \A h \in Routines!Handles :
        /\ Held(name, "may", h, p) /\ h # g => Held(name, "may", h, q)
        /\ Held(name, "must", h, q) => Held(name, "must", h, p)
        /\ Held(name, "sound", h, q) => Held(name, "sound", h, p)

\* The places of a routine, and those with a label.
Places(name) == 1 .. Len(Routines!Steps(name))
Labelled(name, l) == {q \in Places(name) : Routines!Steps(name)[q].at = l}

\* The steps that call libgit2, or advance a loop, and those that may jump.
Called == {"try", "ask", "find", "next", "more"}
Jumping == Called \cup {"goto", "if", "limit"}

\* The step s at place p: it reads what must be live, frees what is sound (one
\* free of get_tag_desc excepted), overwrites nothing that may be live, and
\* each place it leads to expects what it leaves; the last place holds nothing.
FlowOf(name, p, s) ==
    /\ p = 1 => \A h \in Routines!Handles : ~Held(name, "must", h, p)
    /\ s.at = "exit" <=> p = Len(Routines!Steps(name))
    /\ s.at = "exit" => \A h \in Routines!Handles : ~Held(name, "may", h, p)
    /\ s.at = "exit" => s.op = "goto"
    /\ s.uses \in Routines!Handles => Held(name, "must", s.uses, p)
    /\ s.op \in {"free", "null", "give", "if"} => s.h \in Routines!Handles
    /\ s.op = "free" => \/ Held(name, "sound", s.h, p)
                        \/ name = "tag_desc" /\ p = 46 /\ s.h = "commit"
    /\ s.op \in Called \cup {"null"} /\ s.h \in Routines!Handles => ~Held(name, "may", s.h, p)
    /\ s.op = "limit" => name \in {"log", "tag_desc"}
    /\ s.op = "set" => s.h \in {"ok", "error"}
    /\ s.op \in Called => Gains(name, p, p + 1, s.h)
    /\ s.op \in Jumping => Labelled(name, s.to) # {}
    /\ s.op \in Jumping \ {"if"} => \A q \in Labelled(name, s.to) : Stays(name, p, q)
    /\ s.op = "find" => Labelled(name, s.miss) # {}
    /\ s.op = "find" => \A q \in Labelled(name, s.miss) : Stays(name, p, q)
    /\ s.op = "if" => Set(name, p, p + 1, s.h)
    /\ s.op = "if" => \A q \in Labelled(name, s.to) : Unset(name, p, q, s.h)
    /\ s.op \in {"limit", "put", "set", "finished", "count"} => Stays(name, p, p + 1)
    /\ s.op \in {"free", "null", "give"} => Drops(name, p, p + 1, s.h)
    /\ s.op = "free" => ~Held(name, "sound", s.h, p + 1)

Flow(name, p) == FlowOf(name, p, Routines!Steps(name)[p])

Flows(name) ==
    /\ Len(Routines!Steps(name)) \in Nat \ {0}
    /\ \A p \in Places(name) : Flow(name, p)

\* The limits are numbers.
LEMMA RoutinesLimits == LogLimit \in Nat /\ TagSearch \in Nat /\ MaxItems \in Nat
BY PartsAssumption DEF Routines!LimitsAssumption

\* Each routine, place by place: what its steps hold agrees with the table.
USE DEF Routines!Try, Routines!TryWith, Routines!Ask, Routines!AskWith, Routines!Find,
   Routines!Next_, Routines!More, Routines!Limit, Routines!If, Routines!Put, Routines!Free,
   Routines!Null, Routines!Give, Routines!Count, Routines!Goto, Routines!Ok, Routines!Error,
   Routines!Finished, Routines!Exit, Routines!Op, Routines!At

\* The steps of git_config_list_z, and where its labels are.
LEMMA Labels_config_list_z ==
  /\ Places("config_list_z") = 1 .. 11 /\ Len(Routines!Steps("config_list_z")) = 11
  /\ Labelled("config_list_z", "while") = {3}
  /\ Labelled("config_list_z", "over") = {6}
  /\ Labelled("config_list_z", "noiter") = {10}
  /\ Labelled("config_list_z", "exit") = {11}
<1>1. Routines!Steps("config_list_z") = Routines!git_config_list_z
  BY DEF Routines!Steps
<1>2. /\ Places("config_list_z") = 1 .. 11
      /\ Len(Routines!Steps("config_list_z")) = 11
  BY <1>1 DEF Places, Routines!git_config_list_z
<1>3. /\ Labelled("config_list_z", "while") = {3}
      /\ Labelled("config_list_z", "over") = {6}
      /\ Labelled("config_list_z", "noiter") = {10}
  <2>1. /\ \A i \in 1 .. 11 : Routines!git_config_list_z[i].at = "while" <=> i = 3
        /\ \A i \in 1 .. 11 : Routines!git_config_list_z[i].at = "over" <=> i = 6
        /\ \A i \in 1 .. 11 : Routines!git_config_list_z[i].at = "noiter" <=> i = 10
    BY DEF Routines!git_config_list_z
  <2> QED
    BY <1>1, <1>2, <2>1 DEF Labelled
<1>4. Labelled("config_list_z", "exit") = {11}
  <2>1. \A i \in 1 .. 11 : Routines!git_config_list_z[i].at = "exit" <=> i = 11
    BY DEF Routines!git_config_list_z
  <2> QED
    BY <1>1, <1>2, <2>1 DEF Labelled
<1> QED
  BY <1>1, <1>2, <1>3, <1>4

\* It uses, loses and frees nothing out of turn.
LEMMA Flow_config_list_z == Flows("config_list_z")
<1>1. \A k, h, p : Held("config_list_z", k, h, p) <=> Held_config_list_z(k, h, p)
  BY DEF Held
<1>2. /\ Places("config_list_z") = 1 .. 11
      /\ Len(Routines!Steps("config_list_z")) = 11
  BY Labels_config_list_z
<1>3. /\ Labelled("config_list_z", "while") = {3}
      /\ Labelled("config_list_z", "over") = {6}
      /\ Labelled("config_list_z", "noiter") = {10}
      /\ Labelled("config_list_z", "exit") = {11}
  BY Labels_config_list_z
<1> USE <1>1, <1>2 DEF Routines!git_config_list_z, Held_config_list_z, FlowOf, Stays, Gains,
   Drops, Set, Unset, Called, Jumping, Routines!Handles
<1>4. FlowOf("config_list_z", 1, Routines!git_config_list_z[1])
  BY <1>3
<1>5. FlowOf("config_list_z", 2, Routines!git_config_list_z[2])
  BY <1>3
<1>6. FlowOf("config_list_z", 3, Routines!git_config_list_z[3])
  BY <1>3
<1>7. FlowOf("config_list_z", 4, Routines!git_config_list_z[4])
  OBVIOUS
<1>8. FlowOf("config_list_z", 5, Routines!git_config_list_z[5])
  BY <1>3
<1>9. FlowOf("config_list_z", 6, Routines!git_config_list_z[6])
  OBVIOUS
<1>10. FlowOf("config_list_z", 7, Routines!git_config_list_z[7])
  OBVIOUS
<1>11. FlowOf("config_list_z", 8, Routines!git_config_list_z[8])
  OBVIOUS
<1>12. FlowOf("config_list_z", 9, Routines!git_config_list_z[9])
  BY <1>3
<1>13. FlowOf("config_list_z", 10, Routines!git_config_list_z[10])
  OBVIOUS
<1>14. FlowOf("config_list_z", 11, Routines!git_config_list_z[11])
  BY <1>3
<1> HIDE <1>1, <1>2 DEF Routines!git_config_list_z, Held_config_list_z, FlowOf, Stays, Gains,
   Drops, Set, Unset, Called, Jumping, Routines!Handles
<1>15. \A p \in 1 .. 11 : FlowOf("config_list_z", p, Routines!git_config_list_z[p])
  BY <1>4, <1>5, <1>6, <1>7, <1>8, <1>9, <1>10, <1>11, <1>12, <1>13, <1>14
<1>16. Routines!Steps("config_list_z") = Routines!git_config_list_z
  BY DEF Routines!Steps
<1>17. \A p \in Places("config_list_z") : Flow("config_list_z", p)
  BY <1>15, <1>16, <1>2 DEF Flow
<1>18. 11 \in Nat \ {0}
  OBVIOUS
<1> QED
  BY <1>17, <1>18, <1>2 DEF Flows

\* The steps of git_head_subject, and where its labels are.
LEMMA Labels_head_subject ==
  /\ Places("head_subject") = 1 .. 8 /\ Len(Routines!Steps("head_subject")) = 8
  /\ Labelled("head_subject", "unpeeled") = {7}
  /\ Labelled("head_subject", "exit") = {8}
<1>1. Routines!Steps("head_subject") = Routines!git_head_subject
  BY DEF Routines!Steps
<1>2. /\ Places("head_subject") = 1 .. 8
      /\ Len(Routines!Steps("head_subject")) = 8
  BY <1>1 DEF Places, Routines!git_head_subject
<1>3. /\ Labelled("head_subject", "unpeeled") = {7}
      /\ Labelled("head_subject", "exit") = {8}
  <2>1. /\ \A i \in 1 .. 8 : Routines!git_head_subject[i].at = "unpeeled" <=> i = 7
        /\ \A i \in 1 .. 8 : Routines!git_head_subject[i].at = "exit" <=> i = 8
    BY DEF Routines!git_head_subject
  <2> QED
    BY <1>1, <1>2, <2>1 DEF Labelled
<1> QED
  BY <1>1, <1>2, <1>3

\* It uses, loses and frees nothing out of turn.
LEMMA Flow_head_subject == Flows("head_subject")
<1>1. \A k, h, p : Held("head_subject", k, h, p) <=> Held_head_subject(k, h, p)
  BY DEF Held
<1>2. /\ Places("head_subject") = 1 .. 8
      /\ Len(Routines!Steps("head_subject")) = 8
  BY Labels_head_subject
<1>3. /\ Labelled("head_subject", "unpeeled") = {7}
      /\ Labelled("head_subject", "exit") = {8}
  BY Labels_head_subject
<1> USE <1>1, <1>2 DEF Routines!git_head_subject, Held_head_subject, FlowOf, Stays, Gains, Drops,
   Set, Unset, Called, Jumping, Routines!Handles
<1>4. FlowOf("head_subject", 1, Routines!git_head_subject[1])
  BY <1>3
<1>5. FlowOf("head_subject", 2, Routines!git_head_subject[2])
  BY <1>3
<1>6. FlowOf("head_subject", 3, Routines!git_head_subject[3])
  OBVIOUS
<1>7. FlowOf("head_subject", 4, Routines!git_head_subject[4])
  OBVIOUS
<1>8. FlowOf("head_subject", 5, Routines!git_head_subject[5])
  OBVIOUS
<1>9. FlowOf("head_subject", 6, Routines!git_head_subject[6])
  BY <1>3
<1>10. FlowOf("head_subject", 7, Routines!git_head_subject[7])
  OBVIOUS
<1>11. FlowOf("head_subject", 8, Routines!git_head_subject[8])
  BY <1>3
<1> HIDE <1>1, <1>2 DEF Routines!git_head_subject, Held_head_subject, FlowOf, Stays, Gains,
   Drops, Set, Unset, Called, Jumping, Routines!Handles
<1>12. \A p \in 1 .. 8 : FlowOf("head_subject", p, Routines!git_head_subject[p])
  BY <1>4, <1>5, <1>6, <1>7, <1>8, <1>9, <1>10, <1>11
<1>13. Routines!Steps("head_subject") = Routines!git_head_subject
  BY DEF Routines!Steps
<1>14. \A p \in Places("head_subject") : Flow("head_subject", p)
  BY <1>12, <1>13, <1>2 DEF Flow
<1>15. 8 \in Nat \ {0}
  OBVIOUS
<1> QED
  BY <1>14, <1>15, <1>2 DEF Flows

\* The steps of get_tag_desc, and where its labels are.
LEMMA Labels_tag_desc ==
  /\ Places("tag_desc") = 1 .. 52 /\ Len(Routines!Steps("tag_desc")) = 52
  /\ Labelled("tag_desc", "while") = {7}
  /\ Labelled("tag_desc", "for") = {12}
  /\ Labelled("tag_desc", "oom") = {24}
  /\ Labelled("tag_desc", "other") = {27}
  /\ Labelled("tag_desc", "nocommit") = {29}
  /\ Labelled("tag_desc", "lightweight") = {31}
  /\ Labelled("tag_desc", "symbolic") = {33}
  /\ Labelled("tag_desc", "untagged") = {35}
  /\ Labelled("tag_desc", "list") = {40}
  /\ Labelled("tag_desc", "found") = {42}
  /\ Labelled("tag_desc", "end") = {45}
  /\ Labelled("tag_desc", "out") = {46}
  /\ Labelled("tag_desc", "unpeeled") = {49}
  /\ Labelled("tag_desc", "empty") = {51}
  /\ Labelled("tag_desc", "exit") = {52}
<1>1. Routines!Steps("tag_desc") = Routines!get_tag_desc
  BY DEF Routines!Steps
<1>2. /\ Places("tag_desc") = 1 .. 52
      /\ Len(Routines!Steps("tag_desc")) = 52
  BY <1>1 DEF Places, Routines!get_tag_desc
<1>3. /\ Labelled("tag_desc", "while") = {7}
      /\ Labelled("tag_desc", "for") = {12}
      /\ Labelled("tag_desc", "oom") = {24}
  <2>1. /\ \A i \in 1 .. 52 : Routines!get_tag_desc[i].at = "while" <=> i = 7
        /\ \A i \in 1 .. 52 : Routines!get_tag_desc[i].at = "for" <=> i = 12
        /\ \A i \in 1 .. 52 : Routines!get_tag_desc[i].at = "oom" <=> i = 24
    BY DEF Routines!get_tag_desc
  <2> QED
    BY <1>1, <1>2, <2>1 DEF Labelled
<1>4. /\ Labelled("tag_desc", "other") = {27}
      /\ Labelled("tag_desc", "nocommit") = {29}
      /\ Labelled("tag_desc", "lightweight") = {31}
  <2>1. /\ \A i \in 1 .. 52 : Routines!get_tag_desc[i].at = "other" <=> i = 27
        /\ \A i \in 1 .. 52 : Routines!get_tag_desc[i].at = "nocommit" <=> i = 29
        /\ \A i \in 1 .. 52 : Routines!get_tag_desc[i].at = "lightweight" <=> i = 31
    BY DEF Routines!get_tag_desc
  <2> QED
    BY <1>1, <1>2, <2>1 DEF Labelled
<1>5. /\ Labelled("tag_desc", "symbolic") = {33}
      /\ Labelled("tag_desc", "untagged") = {35}
      /\ Labelled("tag_desc", "list") = {40}
  <2>1. /\ \A i \in 1 .. 52 : Routines!get_tag_desc[i].at = "symbolic" <=> i = 33
        /\ \A i \in 1 .. 52 : Routines!get_tag_desc[i].at = "untagged" <=> i = 35
        /\ \A i \in 1 .. 52 : Routines!get_tag_desc[i].at = "list" <=> i = 40
    BY DEF Routines!get_tag_desc
  <2> QED
    BY <1>1, <1>2, <2>1 DEF Labelled
<1>6. /\ Labelled("tag_desc", "found") = {42}
      /\ Labelled("tag_desc", "end") = {45}
      /\ Labelled("tag_desc", "out") = {46}
  <2>1. /\ \A i \in 1 .. 52 : Routines!get_tag_desc[i].at = "found" <=> i = 42
        /\ \A i \in 1 .. 52 : Routines!get_tag_desc[i].at = "end" <=> i = 45
        /\ \A i \in 1 .. 52 : Routines!get_tag_desc[i].at = "out" <=> i = 46
    BY DEF Routines!get_tag_desc
  <2> QED
    BY <1>1, <1>2, <2>1 DEF Labelled
<1>7. /\ Labelled("tag_desc", "unpeeled") = {49}
      /\ Labelled("tag_desc", "empty") = {51}
      /\ Labelled("tag_desc", "exit") = {52}
  <2>1. /\ \A i \in 1 .. 52 : Routines!get_tag_desc[i].at = "unpeeled" <=> i = 49
        /\ \A i \in 1 .. 52 : Routines!get_tag_desc[i].at = "empty" <=> i = 51
        /\ \A i \in 1 .. 52 : Routines!get_tag_desc[i].at = "exit" <=> i = 52
    BY DEF Routines!get_tag_desc
  <2> QED
    BY <1>1, <1>2, <2>1 DEF Labelled
<1> QED
  BY <1>1, <1>2, <1>3, <1>4, <1>5, <1>6, <1>7

\* It uses, loses and frees nothing out of turn.
LEMMA Flow_tag_desc == Flows("tag_desc")
<1>1. \A k, h, p : Held("tag_desc", k, h, p) <=> Held_tag_desc(k, h, p)
  BY DEF Held
<1>2. /\ Routines!get_tag_desc[1] = Routines!Try("head_ref", "empty")
      /\ Routines!get_tag_desc[2] = Routines!TryWith("head_obj", "head_ref", "unpeeled")
      /\ Routines!get_tag_desc[3] = Routines!Free("head_ref")
      /\ Routines!get_tag_desc[4] = Routines!Free("head_obj")
      /\ Routines!get_tag_desc[5] = Routines!Try("walker", "out")
      /\ Routines!get_tag_desc[6] = Routines!Try("-", "out")
      /\ Routines!get_tag_desc[7] = Routines!At("while", Routines!Next_("-", "found"))
      /\ Routines!get_tag_desc[8] = Routines!Limit("found")
      /\ Routines!get_tag_desc[9] = Routines!Try("commit", "while")
      /\ Routines!get_tag_desc[10] = Routines!Null("tag_names")
      /\ Routines!get_tag_desc[11] = Routines!Try("tag_names", "list")
      /\ Routines!get_tag_desc[12] = Routines!At("for", Routines!More("untagged"))
      /\ Routines!get_tag_desc[13] = Routines!Null("tag_ref")
  BY DEF Routines!get_tag_desc
<1>3. /\ Routines!get_tag_desc[14] = Routines!Null("tag")
      /\ Routines!get_tag_desc[15] = Routines!Null("tag_commit")
      /\ Routines!get_tag_desc[16] = Routines!TryWith("tag_ref", "tag_names", "for")
      /\ Routines!get_tag_desc[17] = Routines!AskWith("-", "tag_ref", "symbolic")
      /\ Routines!get_tag_desc[18] = Routines!TryWith("tag", "tag_ref", "lightweight")
      /\ Routines!get_tag_desc[19] = Routines!Free("tag_ref")
      /\ Routines!get_tag_desc[20] = Routines!TryWith("tag_commit", "tag", "nocommit")
      /\ Routines!get_tag_desc[21] = Routines!Free("tag")
      /\ Routines!get_tag_desc[22] = Routines!AskWith("-", "tag_commit", "other")
      /\ Routines!get_tag_desc[23] = Routines!Ask("tag_name", "oom")
      /\ Routines!get_tag_desc[24] = Routines!At("oom", Routines!Free("tag_commit"))
      /\ Routines!get_tag_desc[25] = Routines!Free("tag_names")
      /\ Routines!get_tag_desc[26] = Routines!Goto("found")
  BY DEF Routines!get_tag_desc
<1>4. /\ Routines!get_tag_desc[27] = Routines!At("other", Routines!Free("tag_commit"))
      /\ Routines!get_tag_desc[28] = Routines!Goto("for")
      /\ Routines!get_tag_desc[29] = Routines!At("nocommit", Routines!Free("tag"))
      /\ Routines!get_tag_desc[30] = Routines!Goto("for")
      /\ Routines!get_tag_desc[31] = Routines!At("lightweight", Routines!Free("tag_ref"))
      /\ Routines!get_tag_desc[32] = Routines!Goto("for")
      /\ Routines!get_tag_desc[33] = Routines!At("symbolic", Routines!Free("tag_ref"))
      /\ Routines!get_tag_desc[34] = Routines!Goto("for")
      /\ Routines!get_tag_desc[35] = Routines!At("untagged", Routines!Free("tag_names"))
      /\ Routines!get_tag_desc[36] = Routines!Free("commit")
      /\ Routines!get_tag_desc[37] = Routines!Null("commit")
      /\ Routines!get_tag_desc[38] = Routines!Count
      /\ Routines!get_tag_desc[39] = Routines!Goto("while")
  BY DEF Routines!get_tag_desc
<1>5. /\ Routines!get_tag_desc[40] = Routines!At("list", Routines!Free("commit"))
      /\ Routines!get_tag_desc[41] = Routines!Goto("while")
      /\ Routines!get_tag_desc[42] = Routines!At("found", Routines!If("tag_name", "end"))
      /\ Routines!get_tag_desc[43] = Routines!Put("tag_name")
      /\ Routines!get_tag_desc[44] = Routines!Free("tag_name")
      /\ Routines!get_tag_desc[45] = Routines!At("end", Routines!Ok)
      /\ Routines!get_tag_desc[46] = Routines!At("out", Routines!Free("commit"))
      /\ Routines!get_tag_desc[47] = Routines!Free("walker")
      /\ Routines!get_tag_desc[48] = Routines!Goto("exit")
      /\ Routines!get_tag_desc[49] = Routines!At("unpeeled", Routines!Free("head_ref"))
      /\ Routines!get_tag_desc[50] = Routines!Goto("exit")
      /\ Routines!get_tag_desc[51] = Routines!At("empty", Routines!Ok)
      /\ Routines!get_tag_desc[52] = Routines!Exit
  BY DEF Routines!get_tag_desc
<1>6. /\ Places("tag_desc") = 1 .. 52
      /\ Len(Routines!Steps("tag_desc")) = 52
  BY Labels_tag_desc
<1>7. /\ Labelled("tag_desc", "while") = {7}
      /\ Labelled("tag_desc", "for") = {12}
      /\ Labelled("tag_desc", "oom") = {24}
      /\ Labelled("tag_desc", "other") = {27}
  BY Labels_tag_desc
<1>8. /\ Labelled("tag_desc", "nocommit") = {29}
      /\ Labelled("tag_desc", "lightweight") = {31}
      /\ Labelled("tag_desc", "symbolic") = {33}
      /\ Labelled("tag_desc", "untagged") = {35}
  BY Labels_tag_desc
<1>9. /\ Labelled("tag_desc", "list") = {40}
      /\ Labelled("tag_desc", "found") = {42}
      /\ Labelled("tag_desc", "end") = {45}
      /\ Labelled("tag_desc", "out") = {46}
  BY Labels_tag_desc
<1>10. /\ Labelled("tag_desc", "unpeeled") = {49}
       /\ Labelled("tag_desc", "empty") = {51}
       /\ Labelled("tag_desc", "exit") = {52}
  BY Labels_tag_desc
<1> USE <1>1, <1>6 DEF Held_tag_desc, FlowOf, Stays, Gains, Drops, Set, Unset, Called, Jumping,
   Routines!Handles
<1>11. FlowOf("tag_desc", 1, Routines!Try("head_ref", "empty"))
  BY <1>10
<1>12. FlowOf("tag_desc", 2, Routines!TryWith("head_obj", "head_ref", "unpeeled"))
  BY <1>10
<1>13. FlowOf("tag_desc", 3, Routines!Free("head_ref"))
  OBVIOUS
<1>14. FlowOf("tag_desc", 4, Routines!Free("head_obj"))
  OBVIOUS
<1>15. FlowOf("tag_desc", 5, Routines!Try("walker", "out"))
  BY <1>9
<1>16. FlowOf("tag_desc", 6, Routines!Try("-", "out"))
  BY <1>9
<1>17. FlowOf("tag_desc", 7, Routines!At("while", Routines!Next_("-", "found")))
  BY <1>9
<1>18. FlowOf("tag_desc", 8, Routines!Limit("found"))
  BY <1>9
<1>19. FlowOf("tag_desc", 9, Routines!Try("commit", "while"))
  BY <1>7
<1>20. FlowOf("tag_desc", 10, Routines!Null("tag_names"))
  OBVIOUS
<1>21. FlowOf("tag_desc", 11, Routines!Try("tag_names", "list"))
  BY <1>9
<1>22. FlowOf("tag_desc", 12, Routines!At("for", Routines!More("untagged")))
  BY <1>8
<1>23. FlowOf("tag_desc", 13, Routines!Null("tag_ref"))
  OBVIOUS
<1>24. FlowOf("tag_desc", 14, Routines!Null("tag"))
  OBVIOUS
<1>25. FlowOf("tag_desc", 15, Routines!Null("tag_commit"))
  OBVIOUS
<1>26. FlowOf("tag_desc", 16, Routines!TryWith("tag_ref", "tag_names", "for"))
  BY <1>7
<1>27. FlowOf("tag_desc", 17, Routines!AskWith("-", "tag_ref", "symbolic"))
  BY <1>8
<1>28. FlowOf("tag_desc", 18, Routines!TryWith("tag", "tag_ref", "lightweight"))
  BY <1>8
<1>29. FlowOf("tag_desc", 19, Routines!Free("tag_ref"))
  OBVIOUS
<1>30. FlowOf("tag_desc", 20, Routines!TryWith("tag_commit", "tag", "nocommit"))
  BY <1>8
<1>31. FlowOf("tag_desc", 21, Routines!Free("tag"))
  OBVIOUS
<1>32. FlowOf("tag_desc", 22, Routines!AskWith("-", "tag_commit", "other"))
  BY <1>7
<1>33. FlowOf("tag_desc", 23, Routines!Ask("tag_name", "oom"))
  BY <1>7
<1>34. FlowOf("tag_desc", 24, Routines!At("oom", Routines!Free("tag_commit")))
  OBVIOUS
<1>35. FlowOf("tag_desc", 25, Routines!Free("tag_names"))
  OBVIOUS
<1>36. FlowOf("tag_desc", 26, Routines!Goto("found"))
  BY <1>9
<1>37. FlowOf("tag_desc", 27, Routines!At("other", Routines!Free("tag_commit")))
  OBVIOUS
<1>38. FlowOf("tag_desc", 28, Routines!Goto("for"))
  BY <1>7
<1>39. FlowOf("tag_desc", 29, Routines!At("nocommit", Routines!Free("tag")))
  OBVIOUS
<1>40. FlowOf("tag_desc", 30, Routines!Goto("for"))
  BY <1>7
<1>41. FlowOf("tag_desc", 31, Routines!At("lightweight", Routines!Free("tag_ref")))
  OBVIOUS
<1>42. FlowOf("tag_desc", 32, Routines!Goto("for"))
  BY <1>7
<1>43. FlowOf("tag_desc", 33, Routines!At("symbolic", Routines!Free("tag_ref")))
  OBVIOUS
<1>44. FlowOf("tag_desc", 34, Routines!Goto("for"))
  BY <1>7
<1>45. FlowOf("tag_desc", 35, Routines!At("untagged", Routines!Free("tag_names")))
  OBVIOUS
<1>46. FlowOf("tag_desc", 36, Routines!Free("commit"))
  OBVIOUS
<1>47. FlowOf("tag_desc", 37, Routines!Null("commit"))
  OBVIOUS
<1>48. FlowOf("tag_desc", 38, Routines!Count)
  OBVIOUS
<1>49. FlowOf("tag_desc", 39, Routines!Goto("while"))
  BY <1>7
<1>50. FlowOf("tag_desc", 40, Routines!At("list", Routines!Free("commit")))
  OBVIOUS
<1>51. FlowOf("tag_desc", 41, Routines!Goto("while"))
  BY <1>7
<1>52. FlowOf("tag_desc", 42, Routines!At("found", Routines!If("tag_name", "end")))
  BY <1>9
<1>53. FlowOf("tag_desc", 43, Routines!Put("tag_name"))
  OBVIOUS
<1>54. FlowOf("tag_desc", 44, Routines!Free("tag_name"))
  OBVIOUS
<1>55. FlowOf("tag_desc", 45, Routines!At("end", Routines!Ok))
  OBVIOUS
<1>56. FlowOf("tag_desc", 46, Routines!At("out", Routines!Free("commit")))
  OBVIOUS
<1>57. FlowOf("tag_desc", 47, Routines!Free("walker"))
  OBVIOUS
<1>58. FlowOf("tag_desc", 48, Routines!Goto("exit"))
  BY <1>10
<1>59. FlowOf("tag_desc", 49, Routines!At("unpeeled", Routines!Free("head_ref")))
  OBVIOUS
<1>60. FlowOf("tag_desc", 50, Routines!Goto("exit"))
  BY <1>10
<1>61. FlowOf("tag_desc", 51, Routines!At("empty", Routines!Ok))
  OBVIOUS
<1>62. FlowOf("tag_desc", 52, Routines!Exit)
  BY <1>10
<1> HIDE <1>1, <1>6 DEF Held_tag_desc, FlowOf, Stays, Gains, Drops, Set, Unset, Called, Jumping,
   Routines!Handles
<1>63. \A p \in 1 .. 13 : FlowOf("tag_desc", p, Routines!get_tag_desc[p])
  BY <1>2, <1>11, <1>12, <1>13, <1>14, <1>15, <1>16, <1>17, <1>18, <1>19,
     <1>20, <1>21, <1>22, <1>23
<1>64. \A p \in 14 .. 26 : FlowOf("tag_desc", p, Routines!get_tag_desc[p])
  BY <1>3, <1>24, <1>25, <1>26, <1>27, <1>28, <1>29, <1>30, <1>31, <1>32,
     <1>33, <1>34, <1>35, <1>36
<1>65. \A p \in 27 .. 39 : FlowOf("tag_desc", p, Routines!get_tag_desc[p])
  BY <1>4, <1>37, <1>38, <1>39, <1>40, <1>41, <1>42, <1>43, <1>44, <1>45,
     <1>46, <1>47, <1>48, <1>49
<1>66. \A p \in 40 .. 52 : FlowOf("tag_desc", p, Routines!get_tag_desc[p])
  BY <1>5, <1>50, <1>51, <1>52, <1>53, <1>54, <1>55, <1>56, <1>57, <1>58,
     <1>59, <1>60, <1>61, <1>62
<1>67. \A p \in 1 .. 52 : FlowOf("tag_desc", p, Routines!get_tag_desc[p])
  BY <1>63, <1>64, <1>65, <1>66
<1>68. Routines!Steps("tag_desc") = Routines!get_tag_desc
  BY DEF Routines!Steps
<1>69. \A p \in Places("tag_desc") : Flow("tag_desc", p)
  BY <1>67, <1>68, <1>6 DEF Flow
<1>70. 52 \in Nat \ {0}
  OBVIOUS
<1> QED
  BY <1>69, <1>70, <1>6 DEF Flows

\* The steps of get_tag_desc_if_match, and where its labels are.
LEMMA Labels_tag_desc_if_match ==
  /\ Places("tag_desc_if_match") = 1 .. 10 /\ Len(Routines!Steps("tag_desc_if_match")) = 10
  /\ Labelled("tag_desc_if_match", "none") = {3}
  /\ Labelled("tag_desc_if_match", "end") = {7}
  /\ Labelled("tag_desc_if_match", "failed") = {9}
  /\ Labelled("tag_desc_if_match", "exit") = {10}
<1>1. Routines!Steps("tag_desc_if_match") = Routines!get_tag_desc_if_match
  BY DEF Routines!Steps
<1>2. /\ Places("tag_desc_if_match") = 1 .. 10
      /\ Len(Routines!Steps("tag_desc_if_match")) = 10
  BY <1>1 DEF Places, Routines!get_tag_desc_if_match
<1>3. /\ Labelled("tag_desc_if_match", "none") = {3}
      /\ Labelled("tag_desc_if_match", "end") = {7}
      /\ Labelled("tag_desc_if_match", "failed") = {9}
  <2>1. /\ \A i \in 1 .. 10 : Routines!get_tag_desc_if_match[i].at = "none" <=> i = 3
        /\ \A i \in 1 .. 10 : Routines!get_tag_desc_if_match[i].at = "end" <=> i = 7
        /\ \A i \in 1 .. 10 : Routines!get_tag_desc_if_match[i].at = "failed" <=> i = 9
    BY DEF Routines!get_tag_desc_if_match
  <2> QED
    BY <1>1, <1>2, <2>1 DEF Labelled
<1>4. Labelled("tag_desc_if_match", "exit") = {10}
  <2>1. \A i \in 1 .. 10 : Routines!get_tag_desc_if_match[i].at = "exit" <=> i = 10
    BY DEF Routines!get_tag_desc_if_match
  <2> QED
    BY <1>1, <1>2, <2>1 DEF Labelled
<1> QED
  BY <1>1, <1>2, <1>3, <1>4

\* It uses, loses and frees nothing out of turn.
LEMMA Flow_tag_desc_if_match == Flows("tag_desc_if_match")
<1>1. \A k, h, p : Held("tag_desc_if_match", k, h, p) <=> Held_tag_desc_if_match(k, h, p)
  BY DEF Held
<1>2. /\ Places("tag_desc_if_match") = 1 .. 10
      /\ Len(Routines!Steps("tag_desc_if_match")) = 10
  BY Labels_tag_desc_if_match
<1>3. /\ Labelled("tag_desc_if_match", "none") = {3}
      /\ Labelled("tag_desc_if_match", "end") = {7}
      /\ Labelled("tag_desc_if_match", "failed") = {9}
      /\ Labelled("tag_desc_if_match", "exit") = {10}
  BY Labels_tag_desc_if_match
<1> USE <1>1, <1>2 DEF Routines!get_tag_desc_if_match, Held_tag_desc_if_match, FlowOf, Stays,
   Gains, Drops, Set, Unset, Called, Jumping, Routines!Handles
<1>4. FlowOf("tag_desc_if_match", 1, Routines!get_tag_desc_if_match[1])
  BY <1>3
<1>5. FlowOf("tag_desc_if_match", 2, Routines!get_tag_desc_if_match[2])
  BY <1>3
<1>6. FlowOf("tag_desc_if_match", 3, Routines!get_tag_desc_if_match[3])
  OBVIOUS
<1>7. FlowOf("tag_desc_if_match", 4, Routines!get_tag_desc_if_match[4])
  BY <1>3
<1>8. FlowOf("tag_desc_if_match", 5, Routines!get_tag_desc_if_match[5])
  OBVIOUS
<1>9. FlowOf("tag_desc_if_match", 6, Routines!get_tag_desc_if_match[6])
  OBVIOUS
<1>10. FlowOf("tag_desc_if_match", 7, Routines!get_tag_desc_if_match[7])
  OBVIOUS
<1>11. FlowOf("tag_desc_if_match", 8, Routines!get_tag_desc_if_match[8])
  BY <1>3
<1>12. FlowOf("tag_desc_if_match", 9, Routines!get_tag_desc_if_match[9])
  OBVIOUS
<1>13. FlowOf("tag_desc_if_match", 10, Routines!get_tag_desc_if_match[10])
  BY <1>3
<1> HIDE <1>1, <1>2 DEF Routines!get_tag_desc_if_match, Held_tag_desc_if_match, FlowOf, Stays,
   Gains, Drops, Set, Unset, Called, Jumping, Routines!Handles
<1>14. \A p \in 1 .. 10 : FlowOf("tag_desc_if_match", p, Routines!get_tag_desc_if_match[p])
  BY <1>4, <1>5, <1>6, <1>7, <1>8, <1>9, <1>10, <1>11, <1>12, <1>13
<1>15. Routines!Steps("tag_desc_if_match") = Routines!get_tag_desc_if_match
  BY DEF Routines!Steps
<1>16. \A p \in Places("tag_desc_if_match") : Flow("tag_desc_if_match", p)
  BY <1>14, <1>15, <1>2 DEF Flow
<1>17. 10 \in Nat \ {0}
  OBVIOUS
<1> QED
  BY <1>16, <1>17, <1>2 DEF Flows

\* The steps of list_worktrees_porcelain, and where its labels are.
LEMMA Labels_worktrees_porcelain ==
  /\ Places("worktrees_porcelain") = 1 .. 23 /\ Len(Routines!Steps("worktrees_porcelain")) = 23
  /\ Labelled("worktrees_porcelain", "linked") = {5}
  /\ Labelled("worktrees_porcelain", "for") = {6}
  /\ Labelled("worktrees_porcelain", "close") = {15}
  /\ Labelled("worktrees_porcelain", "locked") = {16}
  /\ Labelled("worktrees_porcelain", "prune") = {17}
  /\ Labelled("worktrees_porcelain", "entry") = {19}
  /\ Labelled("worktrees_porcelain", "done") = {21}
  /\ Labelled("worktrees_porcelain", "exit") = {23}
<1>1. Routines!Steps("worktrees_porcelain") = Routines!list_worktrees_porcelain
  BY DEF Routines!Steps
<1>2. /\ Places("worktrees_porcelain") = 1 .. 23
      /\ Len(Routines!Steps("worktrees_porcelain")) = 23
  BY <1>1 DEF Places, Routines!list_worktrees_porcelain
<1>3. /\ Labelled("worktrees_porcelain", "linked") = {5}
      /\ Labelled("worktrees_porcelain", "for") = {6}
      /\ Labelled("worktrees_porcelain", "close") = {15}
  <2>1. /\ \A i \in 1 .. 23 : Routines!list_worktrees_porcelain[i].at = "linked" <=> i = 5
        /\ \A i \in 1 .. 23 : Routines!list_worktrees_porcelain[i].at = "for" <=> i = 6
        /\ \A i \in 1 .. 23 : Routines!list_worktrees_porcelain[i].at = "close" <=> i = 15
    BY DEF Routines!list_worktrees_porcelain
  <2> QED
    BY <1>1, <1>2, <2>1 DEF Labelled
<1>4. /\ Labelled("worktrees_porcelain", "locked") = {16}
      /\ Labelled("worktrees_porcelain", "prune") = {17}
      /\ Labelled("worktrees_porcelain", "entry") = {19}
  <2>1. /\ \A i \in 1 .. 23 : Routines!list_worktrees_porcelain[i].at = "locked" <=> i = 16
        /\ \A i \in 1 .. 23 : Routines!list_worktrees_porcelain[i].at = "prune" <=> i = 17
        /\ \A i \in 1 .. 23 : Routines!list_worktrees_porcelain[i].at = "entry" <=> i = 19
    BY DEF Routines!list_worktrees_porcelain
  <2> QED
    BY <1>1, <1>2, <2>1 DEF Labelled
<1>5. /\ Labelled("worktrees_porcelain", "done") = {21}
      /\ Labelled("worktrees_porcelain", "exit") = {23}
  <2>1. /\ \A i \in 1 .. 23 : Routines!list_worktrees_porcelain[i].at = "done" <=> i = 21
        /\ \A i \in 1 .. 23 : Routines!list_worktrees_porcelain[i].at = "exit" <=> i = 23
    BY DEF Routines!list_worktrees_porcelain
  <2> QED
    BY <1>1, <1>2, <2>1 DEF Labelled
<1> QED
  BY <1>1, <1>2, <1>3, <1>4, <1>5

\* It uses, loses and frees nothing out of turn.
LEMMA Flow_worktrees_porcelain == Flows("worktrees_porcelain")
<1>1. \A k, h, p : Held("worktrees_porcelain", k, h, p) <=> Held_worktrees_porcelain(k, h, p)
  BY DEF Held
<1>2. /\ Places("worktrees_porcelain") = 1 .. 23
      /\ Len(Routines!Steps("worktrees_porcelain")) = 23
  BY Labels_worktrees_porcelain
<1>3. /\ Labelled("worktrees_porcelain", "linked") = {5}
      /\ Labelled("worktrees_porcelain", "for") = {6}
      /\ Labelled("worktrees_porcelain", "close") = {15}
      /\ Labelled("worktrees_porcelain", "locked") = {16}
  BY Labels_worktrees_porcelain
<1>4. /\ Labelled("worktrees_porcelain", "prune") = {17}
      /\ Labelled("worktrees_porcelain", "entry") = {19}
      /\ Labelled("worktrees_porcelain", "done") = {21}
      /\ Labelled("worktrees_porcelain", "exit") = {23}
  BY Labels_worktrees_porcelain
<1> USE <1>1, <1>2 DEF Routines!list_worktrees_porcelain, Held_worktrees_porcelain, FlowOf,
   Stays, Gains, Drops, Set, Unset, Called, Jumping, Routines!Handles
<1>5. FlowOf("worktrees_porcelain", 1, Routines!list_worktrees_porcelain[1])
  OBVIOUS
<1>6. FlowOf("worktrees_porcelain", 2, Routines!list_worktrees_porcelain[2])
  BY <1>3
<1>7. FlowOf("worktrees_porcelain", 3, Routines!list_worktrees_porcelain[3])
  OBVIOUS
<1>8. FlowOf("worktrees_porcelain", 4, Routines!list_worktrees_porcelain[4])
  OBVIOUS
<1>9. FlowOf("worktrees_porcelain", 5, Routines!list_worktrees_porcelain[5])
  BY <1>4
<1>10. FlowOf("worktrees_porcelain", 6, Routines!list_worktrees_porcelain[6])
  BY <1>4
<1>11. FlowOf("worktrees_porcelain", 7, Routines!list_worktrees_porcelain[7])
  OBVIOUS
<1>12. FlowOf("worktrees_porcelain", 8, Routines!list_worktrees_porcelain[8])
  OBVIOUS
<1>13. FlowOf("worktrees_porcelain", 9, Routines!list_worktrees_porcelain[9])
  OBVIOUS
<1>14. FlowOf("worktrees_porcelain", 10, Routines!list_worktrees_porcelain[10])
  BY <1>3
<1>15. FlowOf("worktrees_porcelain", 11, Routines!list_worktrees_porcelain[11])
  OBVIOUS
<1>16. FlowOf("worktrees_porcelain", 12, Routines!list_worktrees_porcelain[12])
  BY <1>3
<1>17. FlowOf("worktrees_porcelain", 13, Routines!list_worktrees_porcelain[13])
  BY <1>3
<1>18. FlowOf("worktrees_porcelain", 14, Routines!list_worktrees_porcelain[14])
  OBVIOUS
<1>19. FlowOf("worktrees_porcelain", 15, Routines!list_worktrees_porcelain[15])
  OBVIOUS
<1>20. FlowOf("worktrees_porcelain", 16, Routines!list_worktrees_porcelain[16])
  BY <1>4
<1>21. FlowOf("worktrees_porcelain", 17, Routines!list_worktrees_porcelain[17])
  OBVIOUS
<1>22. FlowOf("worktrees_porcelain", 18, Routines!list_worktrees_porcelain[18])
  BY <1>4
<1>23. FlowOf("worktrees_porcelain", 19, Routines!list_worktrees_porcelain[19])
  OBVIOUS
<1>24. FlowOf("worktrees_porcelain", 20, Routines!list_worktrees_porcelain[20])
  BY <1>3
<1>25. FlowOf("worktrees_porcelain", 21, Routines!list_worktrees_porcelain[21])
  OBVIOUS
<1>26. FlowOf("worktrees_porcelain", 22, Routines!list_worktrees_porcelain[22])
  OBVIOUS
<1>27. FlowOf("worktrees_porcelain", 23, Routines!list_worktrees_porcelain[23])
  BY <1>4
<1> HIDE <1>1, <1>2 DEF Routines!list_worktrees_porcelain, Held_worktrees_porcelain, FlowOf,
   Stays, Gains, Drops, Set, Unset, Called, Jumping, Routines!Handles
<1>28. \A p \in 1 .. 23 : FlowOf("worktrees_porcelain", p, Routines!list_worktrees_porcelain[p])
  BY <1>5, <1>6, <1>7, <1>8, <1>9, <1>10, <1>11, <1>12, <1>13, <1>14, <1>15,
     <1>16, <1>17, <1>18, <1>19, <1>20, <1>21, <1>22, <1>23, <1>24, <1>25,
     <1>26, <1>27
<1>29. Routines!Steps("worktrees_porcelain") = Routines!list_worktrees_porcelain
  BY DEF Routines!Steps
<1>30. \A p \in Places("worktrees_porcelain") : Flow("worktrees_porcelain", p)
  BY <1>28, <1>29, <1>2 DEF Flow
<1>31. 23 \in Nat \ {0}
  OBVIOUS
<1> QED
  BY <1>30, <1>31, <1>2 DEF Flows

\* The steps of get_config_status_show_untracked_files, and where its labels are.
LEMMA Labels_config_show_untracked_files ==
  /\ Places("config_show_untracked_files") = 1 .. 7 /\
         Len(Routines!Steps("config_show_untracked_files")) = 7
  /\ Labelled("config_show_untracked_files", "unset") = {4}
  /\ Labelled("config_show_untracked_files", "exit") = {7}
<1>1. Routines!Steps("config_show_untracked_files") =
          Routines!get_config_status_show_untracked_files
  BY DEF Routines!Steps
<1>2. /\ Places("config_show_untracked_files") = 1 .. 7
      /\ Len(Routines!Steps("config_show_untracked_files")) = 7
  BY <1>1 DEF Places, Routines!get_config_status_show_untracked_files
<1>3. /\ Labelled("config_show_untracked_files", "unset") = {4}
      /\ Labelled("config_show_untracked_files", "exit") = {7}
  <2>1. /\ \A i \in 1 .. 7 :
               Routines!get_config_status_show_untracked_files[i].at = "unset" <=> i = 4
        /\ \A i \in 1 .. 7 :
               Routines!get_config_status_show_untracked_files[i].at = "exit" <=> i = 7
    BY DEF Routines!get_config_status_show_untracked_files
  <2> QED
    BY <1>1, <1>2, <2>1 DEF Labelled
<1> QED
  BY <1>1, <1>2, <1>3

\* It uses, loses and frees nothing out of turn.
LEMMA Flow_config_show_untracked_files == Flows("config_show_untracked_files")
<1>1. \A k, h, p : Held("config_show_untracked_files", k, h, p) <=>
          Held_config_show_untracked_files(k, h, p)
  BY DEF Held
<1>2. /\ Places("config_show_untracked_files") = 1 .. 7
      /\ Len(Routines!Steps("config_show_untracked_files")) = 7
  BY Labels_config_show_untracked_files
<1>3. /\ Labelled("config_show_untracked_files", "unset") = {4}
      /\ Labelled("config_show_untracked_files", "exit") = {7}
  BY Labels_config_show_untracked_files
<1> USE <1>1, <1>2 DEF Routines!get_config_status_show_untracked_files,
   Held_config_show_untracked_files, FlowOf, Stays, Gains, Drops, Set, Unset, Called, Jumping,
   Routines!Handles
<1>4. FlowOf("config_show_untracked_files", 1, Routines!get_config_status_show_untracked_files[1])
  BY <1>3
<1>5. FlowOf("config_show_untracked_files", 2, Routines!get_config_status_show_untracked_files[2])
  BY <1>3
<1>6. FlowOf("config_show_untracked_files", 3, Routines!get_config_status_show_untracked_files[3])
  OBVIOUS
<1>7. FlowOf("config_show_untracked_files", 4, Routines!get_config_status_show_untracked_files[4])
  OBVIOUS
<1>8. FlowOf("config_show_untracked_files", 5, Routines!get_config_status_show_untracked_files[5])
  OBVIOUS
<1>9. FlowOf("config_show_untracked_files", 6, Routines!get_config_status_show_untracked_files[6])
  OBVIOUS
<1>10. FlowOf("config_show_untracked_files", 7,
           Routines!get_config_status_show_untracked_files[7])
  BY <1>3
<1> HIDE <1>1, <1>2 DEF Routines!get_config_status_show_untracked_files,
   Held_config_show_untracked_files, FlowOf, Stays, Gains, Drops, Set, Unset, Called, Jumping,
   Routines!Handles
<1>11. \A p \in 1 .. 7 :
           FlowOf("config_show_untracked_files", p,
           Routines!get_config_status_show_untracked_files[p])
  BY <1>4, <1>5, <1>6, <1>7, <1>8, <1>9, <1>10
<1>12. Routines!Steps("config_show_untracked_files") =
           Routines!get_config_status_show_untracked_files
  BY DEF Routines!Steps
<1>13. \A p \in Places("config_show_untracked_files") : Flow("config_show_untracked_files", p)
  BY <1>11, <1>12, <1>2 DEF Flow
<1>14. 7 \in Nat \ {0}
  OBVIOUS
<1> QED
  BY <1>13, <1>14, <1>2 DEF Flows

\* The steps of get_status_porcelain_z, and where its labels are.
LEMMA Labels_status_porcelain_z ==
  /\ Places("status_porcelain_z") = 1 .. 8 /\ Len(Routines!Steps("status_porcelain_z")) = 8
  /\ Labelled("status_porcelain_z", "for") = {2}
  /\ Labelled("status_porcelain_z", "done") = {6}
  /\ Labelled("status_porcelain_z", "exit") = {8}
<1>1. Routines!Steps("status_porcelain_z") = Routines!get_status_porcelain_z
  BY DEF Routines!Steps
<1>2. /\ Places("status_porcelain_z") = 1 .. 8
      /\ Len(Routines!Steps("status_porcelain_z")) = 8
  BY <1>1 DEF Places, Routines!get_status_porcelain_z
<1>3. /\ Labelled("status_porcelain_z", "for") = {2}
      /\ Labelled("status_porcelain_z", "done") = {6}
      /\ Labelled("status_porcelain_z", "exit") = {8}
  <2>1. /\ \A i \in 1 .. 8 : Routines!get_status_porcelain_z[i].at = "for" <=> i = 2
        /\ \A i \in 1 .. 8 : Routines!get_status_porcelain_z[i].at = "done" <=> i = 6
        /\ \A i \in 1 .. 8 : Routines!get_status_porcelain_z[i].at = "exit" <=> i = 8
    BY DEF Routines!get_status_porcelain_z
  <2> QED
    BY <1>1, <1>2, <2>1 DEF Labelled
<1> QED
  BY <1>1, <1>2, <1>3

\* It uses, loses and frees nothing out of turn.
LEMMA Flow_status_porcelain_z == Flows("status_porcelain_z")
<1>1. \A k, h, p : Held("status_porcelain_z", k, h, p) <=> Held_status_porcelain_z(k, h, p)
  BY DEF Held
<1>2. /\ Places("status_porcelain_z") = 1 .. 8
      /\ Len(Routines!Steps("status_porcelain_z")) = 8
  BY Labels_status_porcelain_z
<1>3. /\ Labelled("status_porcelain_z", "for") = {2}
      /\ Labelled("status_porcelain_z", "done") = {6}
      /\ Labelled("status_porcelain_z", "exit") = {8}
  BY Labels_status_porcelain_z
<1> USE <1>1, <1>2 DEF Routines!get_status_porcelain_z, Held_status_porcelain_z, FlowOf, Stays,
   Gains, Drops, Set, Unset, Called, Jumping, Routines!Handles
<1>4. FlowOf("status_porcelain_z", 1, Routines!get_status_porcelain_z[1])
  BY <1>3
<1>5. FlowOf("status_porcelain_z", 2, Routines!get_status_porcelain_z[2])
  BY <1>3
<1>6. FlowOf("status_porcelain_z", 3, Routines!get_status_porcelain_z[3])
  BY <1>3
<1>7. FlowOf("status_porcelain_z", 4, Routines!get_status_porcelain_z[4])
  OBVIOUS
<1>8. FlowOf("status_porcelain_z", 5, Routines!get_status_porcelain_z[5])
  BY <1>3
<1>9. FlowOf("status_porcelain_z", 6, Routines!get_status_porcelain_z[6])
  OBVIOUS
<1>10. FlowOf("status_porcelain_z", 7, Routines!get_status_porcelain_z[7])
  OBVIOUS
<1>11. FlowOf("status_porcelain_z", 8, Routines!get_status_porcelain_z[8])
  BY <1>3
<1> HIDE <1>1, <1>2 DEF Routines!get_status_porcelain_z, Held_status_porcelain_z, FlowOf, Stays,
   Gains, Drops, Set, Unset, Called, Jumping, Routines!Handles
<1>12. \A p \in 1 .. 8 : FlowOf("status_porcelain_z", p, Routines!get_status_porcelain_z[p])
  BY <1>4, <1>5, <1>6, <1>7, <1>8, <1>9, <1>10, <1>11
<1>13. Routines!Steps("status_porcelain_z") = Routines!get_status_porcelain_z
  BY DEF Routines!Steps
<1>14. \A p \in Places("status_porcelain_z") : Flow("status_porcelain_z", p)
  BY <1>12, <1>13, <1>2 DEF Flow
<1>15. 8 \in Nat \ {0}
  OBVIOUS
<1> QED
  BY <1>14, <1>15, <1>2 DEF Flows

\* The steps of get_diff_patch, and where its labels are.
LEMMA Labels_diff_patch ==
  /\ Places("diff_patch") = 1 .. 7 /\ Len(Routines!Steps("diff_patch")) = 7
  /\ Labelled("diff_patch", "out") = {5}
  /\ Labelled("diff_patch", "exit") = {7}
<1>1. Routines!Steps("diff_patch") = Routines!get_diff_patch
  BY DEF Routines!Steps
<1>2. /\ Places("diff_patch") = 1 .. 7
      /\ Len(Routines!Steps("diff_patch")) = 7
  BY <1>1 DEF Places, Routines!get_diff_patch
<1>3. /\ Labelled("diff_patch", "out") = {5}
      /\ Labelled("diff_patch", "exit") = {7}
  <2>1. /\ \A i \in 1 .. 7 : Routines!get_diff_patch[i].at = "out" <=> i = 5
        /\ \A i \in 1 .. 7 : Routines!get_diff_patch[i].at = "exit" <=> i = 7
    BY DEF Routines!get_diff_patch
  <2> QED
    BY <1>1, <1>2, <2>1 DEF Labelled
<1> QED
  BY <1>1, <1>2, <1>3

\* It uses, loses and frees nothing out of turn.
LEMMA Flow_diff_patch == Flows("diff_patch")
<1>1. \A k, h, p : Held("diff_patch", k, h, p) <=> Held_diff_patch(k, h, p)
  BY DEF Held
<1>2. /\ Places("diff_patch") = 1 .. 7
      /\ Len(Routines!Steps("diff_patch")) = 7
  BY Labels_diff_patch
<1>3. /\ Labelled("diff_patch", "out") = {5}
      /\ Labelled("diff_patch", "exit") = {7}
  BY Labels_diff_patch
<1> USE <1>1, <1>2 DEF Routines!get_diff_patch, Held_diff_patch, FlowOf, Stays, Gains, Drops,
   Set, Unset, Called, Jumping, Routines!Handles
<1>4. FlowOf("diff_patch", 1, Routines!get_diff_patch[1])
  BY <1>3
<1>5. FlowOf("diff_patch", 2, Routines!get_diff_patch[2])
  BY <1>3
<1>6. FlowOf("diff_patch", 3, Routines!get_diff_patch[3])
  BY <1>3
<1>7. FlowOf("diff_patch", 4, Routines!get_diff_patch[4])
  OBVIOUS
<1>8. FlowOf("diff_patch", 5, Routines!get_diff_patch[5])
  OBVIOUS
<1>9. FlowOf("diff_patch", 6, Routines!get_diff_patch[6])
  OBVIOUS
<1>10. FlowOf("diff_patch", 7, Routines!get_diff_patch[7])
  BY <1>3
<1> HIDE <1>1, <1>2 DEF Routines!get_diff_patch, Held_diff_patch, FlowOf, Stays, Gains, Drops,
   Set, Unset, Called, Jumping, Routines!Handles
<1>11. \A p \in 1 .. 7 : FlowOf("diff_patch", p, Routines!get_diff_patch[p])
  BY <1>4, <1>5, <1>6, <1>7, <1>8, <1>9, <1>10
<1>12. Routines!Steps("diff_patch") = Routines!get_diff_patch
  BY DEF Routines!Steps
<1>13. \A p \in Places("diff_patch") : Flow("diff_patch", p)
  BY <1>11, <1>12, <1>2 DEF Flow
<1>14. 7 \in Nat \ {0}
  OBVIOUS
<1> QED
  BY <1>13, <1>14, <1>2 DEF Flows

\* The steps of get_staged, and where its labels are.
LEMMA Labels_staged ==
  /\ Places("staged") = 1 .. 14 /\ Len(Routines!Steps("staged")) = 14
  /\ Labelled("staged", "diff") = {5}
  /\ Labelled("staged", "out") = {9}
  /\ Labelled("staged", "exit") = {14}
<1>1. Routines!Steps("staged") = Routines!get_staged
  BY DEF Routines!Steps
<1>2. /\ Places("staged") = 1 .. 14
      /\ Len(Routines!Steps("staged")) = 14
  BY <1>1 DEF Places, Routines!get_staged
<1>3. /\ Labelled("staged", "diff") = {5}
      /\ Labelled("staged", "out") = {9}
      /\ Labelled("staged", "exit") = {14}
  <2>1. /\ \A i \in 1 .. 14 : Routines!get_staged[i].at = "diff" <=> i = 5
        /\ \A i \in 1 .. 14 : Routines!get_staged[i].at = "out" <=> i = 9
        /\ \A i \in 1 .. 14 : Routines!get_staged[i].at = "exit" <=> i = 14
    BY DEF Routines!get_staged
  <2> QED
    BY <1>1, <1>2, <2>1 DEF Labelled
<1> QED
  BY <1>1, <1>2, <1>3

\* It uses, loses and frees nothing out of turn.
LEMMA Flow_staged == Flows("staged")
<1>1. \A k, h, p : Held("staged", k, h, p) <=> Held_staged(k, h, p)
  BY DEF Held
<1>2. /\ Places("staged") = 1 .. 14
      /\ Len(Routines!Steps("staged")) = 14
  BY Labels_staged
<1>3. /\ Labelled("staged", "diff") = {5}
      /\ Labelled("staged", "out") = {9}
      /\ Labelled("staged", "exit") = {14}
  BY Labels_staged
<1> USE <1>1, <1>2 DEF Routines!get_staged, Held_staged, FlowOf, Stays, Gains, Drops, Set, Unset,
   Called, Jumping, Routines!Handles
<1>4. FlowOf("staged", 1, Routines!get_staged[1])
  BY <1>3
<1>5. FlowOf("staged", 2, Routines!get_staged[2])
  BY <1>3
<1>6. FlowOf("staged", 3, Routines!get_staged[3])
  BY <1>3
<1>7. FlowOf("staged", 4, Routines!get_staged[4])
  BY <1>3
<1>8. FlowOf("staged", 5, Routines!get_staged[5])
  BY <1>3
<1>9. FlowOf("staged", 6, Routines!get_staged[6])
  BY <1>3
<1>10. FlowOf("staged", 7, Routines!get_staged[7])
  BY <1>3
<1>11. FlowOf("staged", 8, Routines!get_staged[8])
  OBVIOUS
<1>12. FlowOf("staged", 9, Routines!get_staged[9])
  OBVIOUS
<1>13. FlowOf("staged", 10, Routines!get_staged[10])
  OBVIOUS
<1>14. FlowOf("staged", 11, Routines!get_staged[11])
  OBVIOUS
<1>15. FlowOf("staged", 12, Routines!get_staged[12])
  OBVIOUS
<1>16. FlowOf("staged", 13, Routines!get_staged[13])
  OBVIOUS
<1>17. FlowOf("staged", 14, Routines!get_staged[14])
  BY <1>3
<1> HIDE <1>1, <1>2 DEF Routines!get_staged, Held_staged, FlowOf, Stays, Gains, Drops, Set,
   Unset, Called, Jumping, Routines!Handles
<1>18. \A p \in 1 .. 14 : FlowOf("staged", p, Routines!get_staged[p])
  BY <1>4, <1>5, <1>6, <1>7, <1>8, <1>9, <1>10, <1>11, <1>12, <1>13, <1>14,
     <1>15, <1>16, <1>17
<1>19. Routines!Steps("staged") = Routines!get_staged
  BY DEF Routines!Steps
<1>20. \A p \in Places("staged") : Flow("staged", p)
  BY <1>18, <1>19, <1>2 DEF Flow
<1>21. 14 \in Nat \ {0}
  OBVIOUS
<1> QED
  BY <1>20, <1>21, <1>2 DEF Flows

\* The steps of get_ref_oid, and where its labels are.
LEMMA Labels_stash_oid ==
  /\ Places("stash_oid") = 1 .. 3 /\ Len(Routines!Steps("stash_oid")) = 3
  /\ Labelled("stash_oid", "exit") = {3}
<1>1. Routines!Steps("stash_oid") = Routines!get_ref_oid
  BY DEF Routines!Steps
<1>2. /\ Places("stash_oid") = 1 .. 3
      /\ Len(Routines!Steps("stash_oid")) = 3
  BY <1>1 DEF Places, Routines!get_ref_oid
<1>3. Labelled("stash_oid", "exit") = {3}
  <2>1. \A i \in 1 .. 3 : Routines!get_ref_oid[i].at = "exit" <=> i = 3
    BY DEF Routines!get_ref_oid
  <2> QED
    BY <1>1, <1>2, <2>1 DEF Labelled
<1> QED
  BY <1>1, <1>2, <1>3

\* It uses, loses and frees nothing out of turn.
LEMMA Flow_stash_oid == Flows("stash_oid")
<1>1. \A k, h, p : Held("stash_oid", k, h, p) <=> FALSE
  BY DEF Held
<1>2. /\ Places("stash_oid") = 1 .. 3
      /\ Len(Routines!Steps("stash_oid")) = 3
  BY Labels_stash_oid
<1>3. Labelled("stash_oid", "exit") = {3}
  BY Labels_stash_oid
<1> USE <1>1, <1>2 DEF Routines!get_ref_oid, FlowOf, Stays, Gains, Drops, Set, Unset, Called,
   Jumping, Routines!Handles
<1>4. FlowOf("stash_oid", 1, Routines!get_ref_oid[1])
  BY <1>3
<1>5. FlowOf("stash_oid", 2, Routines!get_ref_oid[2])
  OBVIOUS
<1>6. FlowOf("stash_oid", 3, Routines!get_ref_oid[3])
  BY <1>3
<1> HIDE <1>1, <1>2 DEF Routines!get_ref_oid, FlowOf, Stays, Gains, Drops, Set, Unset, Called,
   Jumping, Routines!Handles
<1>7. \A p \in 1 .. 3 : FlowOf("stash_oid", p, Routines!get_ref_oid[p])
  BY <1>4, <1>5, <1>6
<1>8. Routines!Steps("stash_oid") = Routines!get_ref_oid
  BY DEF Routines!Steps
<1>9. \A p \in Places("stash_oid") : Flow("stash_oid", p)
  BY <1>7, <1>8, <1>2 DEF Flow
<1>10. 3 \in Nat \ {0}
  OBVIOUS
<1> QED
  BY <1>9, <1>10, <1>2 DEF Flows

\* The steps of get_branch_list, and where its labels are.
LEMMA Labels_branch_list ==
  /\ Places("branch_list") = 1 .. 13 /\ Len(Routines!Steps("branch_list")) = 13
  /\ Labelled("branch_list", "while") = {2}
  /\ Labelled("branch_list", "drop") = {8}
  /\ Labelled("branch_list", "over") = {11}
  /\ Labelled("branch_list", "out") = {12}
  /\ Labelled("branch_list", "exit") = {13}
<1>1. Routines!Steps("branch_list") = Routines!get_branch_list
  BY DEF Routines!Steps
<1>2. /\ Places("branch_list") = 1 .. 13
      /\ Len(Routines!Steps("branch_list")) = 13
  BY <1>1 DEF Places, Routines!get_branch_list
<1>3. /\ Labelled("branch_list", "while") = {2}
      /\ Labelled("branch_list", "drop") = {8}
      /\ Labelled("branch_list", "over") = {11}
  <2>1. /\ \A i \in 1 .. 13 : Routines!get_branch_list[i].at = "while" <=> i = 2
        /\ \A i \in 1 .. 13 : Routines!get_branch_list[i].at = "drop" <=> i = 8
        /\ \A i \in 1 .. 13 : Routines!get_branch_list[i].at = "over" <=> i = 11
    BY DEF Routines!get_branch_list
  <2> QED
    BY <1>1, <1>2, <2>1 DEF Labelled
<1>4. /\ Labelled("branch_list", "out") = {12}
      /\ Labelled("branch_list", "exit") = {13}
  <2>1. /\ \A i \in 1 .. 13 : Routines!get_branch_list[i].at = "out" <=> i = 12
        /\ \A i \in 1 .. 13 : Routines!get_branch_list[i].at = "exit" <=> i = 13
    BY DEF Routines!get_branch_list
  <2> QED
    BY <1>1, <1>2, <2>1 DEF Labelled
<1> QED
  BY <1>1, <1>2, <1>3, <1>4

\* It uses, loses and frees nothing out of turn.
LEMMA Flow_branch_list == Flows("branch_list")
<1>1. \A k, h, p : Held("branch_list", k, h, p) <=> Held_branch_list(k, h, p)
  BY DEF Held
<1>2. /\ Places("branch_list") = 1 .. 13
      /\ Len(Routines!Steps("branch_list")) = 13
  BY Labels_branch_list
<1>3. /\ Labelled("branch_list", "while") = {2}
      /\ Labelled("branch_list", "drop") = {8}
      /\ Labelled("branch_list", "over") = {11}
      /\ Labelled("branch_list", "out") = {12}
  BY Labels_branch_list
<1>4. Labelled("branch_list", "exit") = {13}
  BY Labels_branch_list
<1> USE <1>1, <1>2 DEF Routines!get_branch_list, Held_branch_list, FlowOf, Stays, Gains, Drops,
   Set, Unset, Called, Jumping, Routines!Handles
<1>5. FlowOf("branch_list", 1, Routines!get_branch_list[1])
  BY <1>4
<1>6. FlowOf("branch_list", 2, Routines!get_branch_list[2])
  BY <1>3
<1>7. FlowOf("branch_list", 3, Routines!get_branch_list[3])
  BY <1>3
<1>8. FlowOf("branch_list", 4, Routines!get_branch_list[4])
  OBVIOUS
<1>9. FlowOf("branch_list", 5, Routines!get_branch_list[5])
  OBVIOUS
<1>10. FlowOf("branch_list", 6, Routines!get_branch_list[6])
  OBVIOUS
<1>11. FlowOf("branch_list", 7, Routines!get_branch_list[7])
  BY <1>3
<1>12. FlowOf("branch_list", 8, Routines!get_branch_list[8])
  OBVIOUS
<1>13. FlowOf("branch_list", 9, Routines!get_branch_list[9])
  OBVIOUS
<1>14. FlowOf("branch_list", 10, Routines!get_branch_list[10])
  BY <1>3
<1>15. FlowOf("branch_list", 11, Routines!get_branch_list[11])
  OBVIOUS
<1>16. FlowOf("branch_list", 12, Routines!get_branch_list[12])
  OBVIOUS
<1>17. FlowOf("branch_list", 13, Routines!get_branch_list[13])
  BY <1>4
<1> HIDE <1>1, <1>2 DEF Routines!get_branch_list, Held_branch_list, FlowOf, Stays, Gains, Drops,
   Set, Unset, Called, Jumping, Routines!Handles
<1>18. \A p \in 1 .. 13 : FlowOf("branch_list", p, Routines!get_branch_list[p])
  BY <1>5, <1>6, <1>7, <1>8, <1>9, <1>10, <1>11, <1>12, <1>13, <1>14, <1>15,
     <1>16, <1>17
<1>19. Routines!Steps("branch_list") = Routines!get_branch_list
  BY DEF Routines!Steps
<1>20. \A p \in Places("branch_list") : Flow("branch_list", p)
  BY <1>18, <1>19, <1>2 DEF Flow
<1>21. 13 \in Nat \ {0}
  OBVIOUS
<1> QED
  BY <1>20, <1>21, <1>2 DEF Flows

\* The steps of get_rev_parse_verify, and where its labels are.
LEMMA Labels_rev_parse_verify ==
  /\ Places("rev_parse_verify") = 1 .. 4 /\ Len(Routines!Steps("rev_parse_verify")) = 4
  /\ Labelled("rev_parse_verify", "exit") = {4}
<1>1. Routines!Steps("rev_parse_verify") = Routines!get_rev_parse_verify
  BY DEF Routines!Steps
<1>2. /\ Places("rev_parse_verify") = 1 .. 4
      /\ Len(Routines!Steps("rev_parse_verify")) = 4
  BY <1>1 DEF Places, Routines!get_rev_parse_verify
<1>3. Labelled("rev_parse_verify", "exit") = {4}
  <2>1. \A i \in 1 .. 4 : Routines!get_rev_parse_verify[i].at = "exit" <=> i = 4
    BY DEF Routines!get_rev_parse_verify
  <2> QED
    BY <1>1, <1>2, <2>1 DEF Labelled
<1> QED
  BY <1>1, <1>2, <1>3

\* It uses, loses and frees nothing out of turn.
LEMMA Flow_rev_parse_verify == Flows("rev_parse_verify")
<1>1. \A k, h, p : Held("rev_parse_verify", k, h, p) <=> Held_rev_parse_verify(k, h, p)
  BY DEF Held
<1>2. /\ Places("rev_parse_verify") = 1 .. 4
      /\ Len(Routines!Steps("rev_parse_verify")) = 4
  BY Labels_rev_parse_verify
<1>3. Labelled("rev_parse_verify", "exit") = {4}
  BY Labels_rev_parse_verify
<1> USE <1>1, <1>2 DEF Routines!get_rev_parse_verify, Held_rev_parse_verify, FlowOf, Stays,
   Gains, Drops, Set, Unset, Called, Jumping, Routines!Handles
<1>4. FlowOf("rev_parse_verify", 1, Routines!get_rev_parse_verify[1])
  BY <1>3
<1>5. FlowOf("rev_parse_verify", 2, Routines!get_rev_parse_verify[2])
  OBVIOUS
<1>6. FlowOf("rev_parse_verify", 3, Routines!get_rev_parse_verify[3])
  OBVIOUS
<1>7. FlowOf("rev_parse_verify", 4, Routines!get_rev_parse_verify[4])
  BY <1>3
<1> HIDE <1>1, <1>2 DEF Routines!get_rev_parse_verify, Held_rev_parse_verify, FlowOf, Stays,
   Gains, Drops, Set, Unset, Called, Jumping, Routines!Handles
<1>8. \A p \in 1 .. 4 : FlowOf("rev_parse_verify", p, Routines!get_rev_parse_verify[p])
  BY <1>4, <1>5, <1>6, <1>7
<1>9. Routines!Steps("rev_parse_verify") = Routines!get_rev_parse_verify
  BY DEF Routines!Steps
<1>10. \A p \in Places("rev_parse_verify") : Flow("rev_parse_verify", p)
  BY <1>8, <1>9, <1>2 DEF Flow
<1>11. 4 \in Nat \ {0}
  OBVIOUS
<1> QED
  BY <1>10, <1>11, <1>2 DEF Flows

\* The steps of get_log, and where its labels are.
LEMMA Labels_log ==
  /\ Places("log") = 1 .. 15 /\ Len(Routines!Steps("log")) = 15
  /\ Labelled("log", "while") = {4}
  /\ Labelled("log", "over") = {12}
  /\ Labelled("log", "out") = {13}
  /\ Labelled("log", "exit") = {15}
<1>1. Routines!Steps("log") = Routines!get_log
  BY DEF Routines!Steps
<1>2. /\ Places("log") = 1 .. 15
      /\ Len(Routines!Steps("log")) = 15
  BY <1>1 DEF Places, Routines!get_log
<1>3. /\ Labelled("log", "while") = {4}
      /\ Labelled("log", "over") = {12}
      /\ Labelled("log", "out") = {13}
  <2>1. /\ \A i \in 1 .. 15 : Routines!get_log[i].at = "while" <=> i = 4
        /\ \A i \in 1 .. 15 : Routines!get_log[i].at = "over" <=> i = 12
        /\ \A i \in 1 .. 15 : Routines!get_log[i].at = "out" <=> i = 13
    BY DEF Routines!get_log
  <2> QED
    BY <1>1, <1>2, <2>1 DEF Labelled
<1>4. Labelled("log", "exit") = {15}
  <2>1. \A i \in 1 .. 15 : Routines!get_log[i].at = "exit" <=> i = 15
    BY DEF Routines!get_log
  <2> QED
    BY <1>1, <1>2, <2>1 DEF Labelled
<1> QED
  BY <1>1, <1>2, <1>3, <1>4

\* It uses, loses and frees nothing out of turn.
LEMMA Flow_log == Flows("log")
<1>1. \A k, h, p : Held("log", k, h, p) <=> Held_log(k, h, p)
  BY DEF Held
<1>2. /\ Places("log") = 1 .. 15
      /\ Len(Routines!Steps("log")) = 15
  BY Labels_log
<1>3. /\ Labelled("log", "while") = {4}
      /\ Labelled("log", "over") = {12}
      /\ Labelled("log", "out") = {13}
      /\ Labelled("log", "exit") = {15}
  BY Labels_log
<1> USE <1>1, <1>2 DEF Routines!get_log, Held_log, FlowOf, Stays, Gains, Drops, Set, Unset,
   Called, Jumping, Routines!Handles
<1>4. FlowOf("log", 1, Routines!get_log[1])
  BY <1>3
<1>5. FlowOf("log", 2, Routines!get_log[2])
  BY <1>3
<1>6. FlowOf("log", 3, Routines!get_log[3])
  BY <1>3
<1>7. FlowOf("log", 4, Routines!get_log[4])
  BY <1>3
<1>8. FlowOf("log", 5, Routines!get_log[5])
  BY <1>3
<1>9. FlowOf("log", 6, Routines!get_log[6])
  BY <1>3
<1>10. FlowOf("log", 7, Routines!get_log[7])
  OBVIOUS
<1>11. FlowOf("log", 8, Routines!get_log[8])
  OBVIOUS
<1>12. FlowOf("log", 9, Routines!get_log[9])
  OBVIOUS
<1>13. FlowOf("log", 10, Routines!get_log[10])
  OBVIOUS
<1>14. FlowOf("log", 11, Routines!get_log[11])
  BY <1>3
<1>15. FlowOf("log", 12, Routines!get_log[12])
  OBVIOUS
<1>16. FlowOf("log", 13, Routines!get_log[13])
  OBVIOUS
<1>17. FlowOf("log", 14, Routines!get_log[14])
  OBVIOUS
<1>18. FlowOf("log", 15, Routines!get_log[15])
  BY <1>3
<1> HIDE <1>1, <1>2 DEF Routines!get_log, Held_log, FlowOf, Stays, Gains, Drops, Set, Unset,
   Called, Jumping, Routines!Handles
<1>19. \A p \in 1 .. 15 : FlowOf("log", p, Routines!get_log[p])
  BY <1>4, <1>5, <1>6, <1>7, <1>8, <1>9, <1>10, <1>11, <1>12, <1>13, <1>14,
     <1>15, <1>16, <1>17, <1>18
<1>20. Routines!Steps("log") = Routines!get_log
  BY DEF Routines!Steps
<1>21. \A p \in Places("log") : Flow("log", p)
  BY <1>19, <1>20, <1>2 DEF Flow
<1>22. 15 \in Nat \ {0}
  OBVIOUS
<1> QED
  BY <1>21, <1>22, <1>2 DEF Flows

\* The steps of get_rev_parse_short_head, and where its labels are.
LEMMA Labels_rev_parse_short_head ==
  /\ Places("rev_parse_short_head") = 1 .. 6 /\ Len(Routines!Steps("rev_parse_short_head")) = 6
  /\ Labelled("rev_parse_short_head", "out") = {4}
  /\ Labelled("rev_parse_short_head", "exit") = {6}
<1>1. Routines!Steps("rev_parse_short_head") = Routines!get_rev_parse_short_head
  BY DEF Routines!Steps
<1>2. /\ Places("rev_parse_short_head") = 1 .. 6
      /\ Len(Routines!Steps("rev_parse_short_head")) = 6
  BY <1>1 DEF Places, Routines!get_rev_parse_short_head
<1>3. /\ Labelled("rev_parse_short_head", "out") = {4}
      /\ Labelled("rev_parse_short_head", "exit") = {6}
  <2>1. /\ \A i \in 1 .. 6 : Routines!get_rev_parse_short_head[i].at = "out" <=> i = 4
        /\ \A i \in 1 .. 6 : Routines!get_rev_parse_short_head[i].at = "exit" <=> i = 6
    BY DEF Routines!get_rev_parse_short_head
  <2> QED
    BY <1>1, <1>2, <2>1 DEF Labelled
<1> QED
  BY <1>1, <1>2, <1>3

\* It uses, loses and frees nothing out of turn.
LEMMA Flow_rev_parse_short_head == Flows("rev_parse_short_head")
<1>1. \A k, h, p : Held("rev_parse_short_head", k, h, p) <=> Held_rev_parse_short_head(k, h, p)
  BY DEF Held
<1>2. /\ Places("rev_parse_short_head") = 1 .. 6
      /\ Len(Routines!Steps("rev_parse_short_head")) = 6
  BY Labels_rev_parse_short_head
<1>3. /\ Labelled("rev_parse_short_head", "out") = {4}
      /\ Labelled("rev_parse_short_head", "exit") = {6}
  BY Labels_rev_parse_short_head
<1> USE <1>1, <1>2 DEF Routines!get_rev_parse_short_head, Held_rev_parse_short_head, FlowOf,
   Stays, Gains, Drops, Set, Unset, Called, Jumping, Routines!Handles
<1>4. FlowOf("rev_parse_short_head", 1, Routines!get_rev_parse_short_head[1])
  BY <1>3
<1>5. FlowOf("rev_parse_short_head", 2, Routines!get_rev_parse_short_head[2])
  BY <1>3
<1>6. FlowOf("rev_parse_short_head", 3, Routines!get_rev_parse_short_head[3])
  OBVIOUS
<1>7. FlowOf("rev_parse_short_head", 4, Routines!get_rev_parse_short_head[4])
  OBVIOUS
<1>8. FlowOf("rev_parse_short_head", 5, Routines!get_rev_parse_short_head[5])
  OBVIOUS
<1>9. FlowOf("rev_parse_short_head", 6, Routines!get_rev_parse_short_head[6])
  BY <1>3
<1> HIDE <1>1, <1>2 DEF Routines!get_rev_parse_short_head, Held_rev_parse_short_head, FlowOf,
   Stays, Gains, Drops, Set, Unset, Called, Jumping, Routines!Handles
<1>10. \A p \in 1 .. 6 : FlowOf("rev_parse_short_head", p, Routines!get_rev_parse_short_head[p])
  BY <1>4, <1>5, <1>6, <1>7, <1>8, <1>9
<1>11. Routines!Steps("rev_parse_short_head") = Routines!get_rev_parse_short_head
  BY DEF Routines!Steps
<1>12. \A p \in Places("rev_parse_short_head") : Flow("rev_parse_short_head", p)
  BY <1>10, <1>11, <1>2 DEF Flow
<1>13. 6 \in Nat \ {0}
  OBVIOUS
<1> QED
  BY <1>12, <1>13, <1>2 DEF Flows

\* The steps of get_symbolic_ref, and where its labels are.
LEMMA Labels_origin_head ==
  /\ Places("origin_head") = 1 .. 8 /\ Len(Routines!Steps("origin_head")) = 8
  /\ Labelled("origin_head", "none") = {6}
  /\ Labelled("origin_head", "out") = {7}
  /\ Labelled("origin_head", "exit") = {8}
<1>1. Routines!Steps("origin_head") = Routines!get_symbolic_ref
  BY DEF Routines!Steps
<1>2. /\ Places("origin_head") = 1 .. 8
      /\ Len(Routines!Steps("origin_head")) = 8
  BY <1>1 DEF Places, Routines!get_symbolic_ref
<1>3. /\ Labelled("origin_head", "none") = {6}
      /\ Labelled("origin_head", "out") = {7}
      /\ Labelled("origin_head", "exit") = {8}
  <2>1. /\ \A i \in 1 .. 8 : Routines!get_symbolic_ref[i].at = "none" <=> i = 6
        /\ \A i \in 1 .. 8 : Routines!get_symbolic_ref[i].at = "out" <=> i = 7
        /\ \A i \in 1 .. 8 : Routines!get_symbolic_ref[i].at = "exit" <=> i = 8
    BY DEF Routines!get_symbolic_ref
  <2> QED
    BY <1>1, <1>2, <2>1 DEF Labelled
<1> QED
  BY <1>1, <1>2, <1>3

\* It uses, loses and frees nothing out of turn.
LEMMA Flow_origin_head == Flows("origin_head")
<1>1. \A k, h, p : Held("origin_head", k, h, p) <=> Held_origin_head(k, h, p)
  BY DEF Held
<1>2. /\ Places("origin_head") = 1 .. 8
      /\ Len(Routines!Steps("origin_head")) = 8
  BY Labels_origin_head
<1>3. /\ Labelled("origin_head", "none") = {6}
      /\ Labelled("origin_head", "out") = {7}
      /\ Labelled("origin_head", "exit") = {8}
  BY Labels_origin_head
<1> USE <1>1, <1>2 DEF Routines!get_symbolic_ref, Held_origin_head, FlowOf, Stays, Gains, Drops,
   Set, Unset, Called, Jumping, Routines!Handles
<1>4. FlowOf("origin_head", 1, Routines!get_symbolic_ref[1])
  BY <1>3
<1>5. FlowOf("origin_head", 2, Routines!get_symbolic_ref[2])
  BY <1>3
<1>6. FlowOf("origin_head", 3, Routines!get_symbolic_ref[3])
  BY <1>3
<1>7. FlowOf("origin_head", 4, Routines!get_symbolic_ref[4])
  OBVIOUS
<1>8. FlowOf("origin_head", 5, Routines!get_symbolic_ref[5])
  BY <1>3
<1>9. FlowOf("origin_head", 6, Routines!get_symbolic_ref[6])
  OBVIOUS
<1>10. FlowOf("origin_head", 7, Routines!get_symbolic_ref[7])
  OBVIOUS
<1>11. FlowOf("origin_head", 8, Routines!get_symbolic_ref[8])
  BY <1>3
<1> HIDE <1>1, <1>2 DEF Routines!get_symbolic_ref, Held_origin_head, FlowOf, Stays, Gains, Drops,
   Set, Unset, Called, Jumping, Routines!Handles
<1>12. \A p \in 1 .. 8 : FlowOf("origin_head", p, Routines!get_symbolic_ref[p])
  BY <1>4, <1>5, <1>6, <1>7, <1>8, <1>9, <1>10, <1>11
<1>13. Routines!Steps("origin_head") = Routines!get_symbolic_ref
  BY DEF Routines!Steps
<1>14. \A p \in Places("origin_head") : Flow("origin_head", p)
  BY <1>12, <1>13, <1>2 DEF Flow
<1>15. 8 \in Nat \ {0}
  OBVIOUS
<1> QED
  BY <1>14, <1>15, <1>2 DEF Flows

\* The steps of get_upstream_branch, and where its labels are.
LEMMA Labels_upstream_branch_master ==
  /\ Places("upstream_branch_master") = 1 .. 7 /\
         Len(Routines!Steps("upstream_branch_master")) = 7
  /\ Labelled("upstream_branch_master", "out") = {5}
  /\ Labelled("upstream_branch_master", "exit") = {7}
<1>1. Routines!Steps("upstream_branch_master") = Routines!get_upstream_branch
  BY DEF Routines!Steps
<1>2. /\ Places("upstream_branch_master") = 1 .. 7
      /\ Len(Routines!Steps("upstream_branch_master")) = 7
  BY <1>1 DEF Places, Routines!get_upstream_branch
<1>3. /\ Labelled("upstream_branch_master", "out") = {5}
      /\ Labelled("upstream_branch_master", "exit") = {7}
  <2>1. /\ \A i \in 1 .. 7 : Routines!get_upstream_branch[i].at = "out" <=> i = 5
        /\ \A i \in 1 .. 7 : Routines!get_upstream_branch[i].at = "exit" <=> i = 7
    BY DEF Routines!get_upstream_branch
  <2> QED
    BY <1>1, <1>2, <2>1 DEF Labelled
<1> QED
  BY <1>1, <1>2, <1>3

\* It uses, loses and frees nothing out of turn.
LEMMA Flow_upstream_branch_master == Flows("upstream_branch_master")
<1>1. \A k, h, p : Held("upstream_branch_master", k, h, p) <=>
          Held_upstream_branch_master(k, h, p)
  BY DEF Held
<1>2. /\ Places("upstream_branch_master") = 1 .. 7
      /\ Len(Routines!Steps("upstream_branch_master")) = 7
  BY Labels_upstream_branch_master
<1>3. /\ Labelled("upstream_branch_master", "out") = {5}
      /\ Labelled("upstream_branch_master", "exit") = {7}
  BY Labels_upstream_branch_master
<1> USE <1>1, <1>2 DEF Routines!get_upstream_branch, Held_upstream_branch_master, FlowOf, Stays,
   Gains, Drops, Set, Unset, Called, Jumping, Routines!Handles
<1>4. FlowOf("upstream_branch_master", 1, Routines!get_upstream_branch[1])
  BY <1>3
<1>5. FlowOf("upstream_branch_master", 2, Routines!get_upstream_branch[2])
  BY <1>3
<1>6. FlowOf("upstream_branch_master", 3, Routines!get_upstream_branch[3])
  BY <1>3
<1>7. FlowOf("upstream_branch_master", 4, Routines!get_upstream_branch[4])
  OBVIOUS
<1>8. FlowOf("upstream_branch_master", 5, Routines!get_upstream_branch[5])
  OBVIOUS
<1>9. FlowOf("upstream_branch_master", 6, Routines!get_upstream_branch[6])
  OBVIOUS
<1>10. FlowOf("upstream_branch_master", 7, Routines!get_upstream_branch[7])
  BY <1>3
<1> HIDE <1>1, <1>2 DEF Routines!get_upstream_branch, Held_upstream_branch_master, FlowOf, Stays,
   Gains, Drops, Set, Unset, Called, Jumping, Routines!Handles
<1>11. \A p \in 1 .. 7 : FlowOf("upstream_branch_master", p, Routines!get_upstream_branch[p])
  BY <1>4, <1>5, <1>6, <1>7, <1>8, <1>9, <1>10
<1>12. Routines!Steps("upstream_branch_master") = Routines!get_upstream_branch
  BY DEF Routines!Steps
<1>13. \A p \in Places("upstream_branch_master") : Flow("upstream_branch_master", p)
  BY <1>11, <1>12, <1>2 DEF Flow
<1>14. 7 \in Nat \ {0}
  OBVIOUS
<1> QED
  BY <1>13, <1>14, <1>2 DEF Flows

\* The steps of git_rev_head, and where its labels are.
LEMMA Labels_rev_head ==
  /\ Places("rev_head") = 1 .. 8 /\ Len(Routines!Steps("rev_head")) = 8
  /\ Labelled("rev_head", "none") = {6}
  /\ Labelled("rev_head", "exit") = {8}
<1>1. Routines!Steps("rev_head") = Routines!git_rev_head
  BY DEF Routines!Steps
<1>2. /\ Places("rev_head") = 1 .. 8
      /\ Len(Routines!Steps("rev_head")) = 8
  BY <1>1 DEF Places, Routines!git_rev_head
<1>3. /\ Labelled("rev_head", "none") = {6}
      /\ Labelled("rev_head", "exit") = {8}
  <2>1. /\ \A i \in 1 .. 8 : Routines!git_rev_head[i].at = "none" <=> i = 6
        /\ \A i \in 1 .. 8 : Routines!git_rev_head[i].at = "exit" <=> i = 8
    BY DEF Routines!git_rev_head
  <2> QED
    BY <1>1, <1>2, <2>1 DEF Labelled
<1> QED
  BY <1>1, <1>2, <1>3

\* It uses, loses and frees nothing out of turn.
LEMMA Flow_rev_head == Flows("rev_head")
<1>1. \A k, h, p : Held("rev_head", k, h, p) <=> Held_rev_head(k, h, p)
  BY DEF Held
<1>2. /\ Places("rev_head") = 1 .. 8
      /\ Len(Routines!Steps("rev_head")) = 8
  BY Labels_rev_head
<1>3. /\ Labelled("rev_head", "none") = {6}
      /\ Labelled("rev_head", "exit") = {8}
  BY Labels_rev_head
<1> USE <1>1, <1>2 DEF Routines!git_rev_head, Held_rev_head, FlowOf, Stays, Gains, Drops, Set,
   Unset, Called, Jumping, Routines!Handles
<1>4. FlowOf("rev_head", 1, Routines!git_rev_head[1])
  BY <1>3
<1>5. FlowOf("rev_head", 2, Routines!git_rev_head[2])
  BY <1>3
<1>6. FlowOf("rev_head", 3, Routines!git_rev_head[3])
  OBVIOUS
<1>7. FlowOf("rev_head", 4, Routines!git_rev_head[4])
  OBVIOUS
<1>8. FlowOf("rev_head", 5, Routines!git_rev_head[5])
  BY <1>3
<1>9. FlowOf("rev_head", 6, Routines!git_rev_head[6])
  OBVIOUS
<1>10. FlowOf("rev_head", 7, Routines!git_rev_head[7])
  OBVIOUS
<1>11. FlowOf("rev_head", 8, Routines!git_rev_head[8])
  BY <1>3
<1> HIDE <1>1, <1>2 DEF Routines!git_rev_head, Held_rev_head, FlowOf, Stays, Gains, Drops, Set,
   Unset, Called, Jumping, Routines!Handles
<1>12. \A p \in 1 .. 8 : FlowOf("rev_head", p, Routines!git_rev_head[p])
  BY <1>4, <1>5, <1>6, <1>7, <1>8, <1>9, <1>10, <1>11
<1>13. Routines!Steps("rev_head") = Routines!git_rev_head
  BY DEF Routines!Steps
<1>14. \A p \in Places("rev_head") : Flow("rev_head", p)
  BY <1>12, <1>13, <1>2 DEF Flow
<1>15. 8 \in Nat \ {0}
  OBVIOUS
<1> QED
  BY <1>14, <1>15, <1>2 DEF Flows

\* The steps of git_symbolic_ref_short_head, and where its labels are.
LEMMA Labels_symbolic_ref_short_head ==
  /\ Places("symbolic_ref_short_head") = 1 .. 15 /\
         Len(Routines!Steps("symbolic_ref_short_head")) = 15
  /\ Labelled("symbolic_ref_short_head", "unborn") = {9}
  /\ Labelled("symbolic_ref_short_head", "none") = {13}
  /\ Labelled("symbolic_ref_short_head", "exit") = {15}
<1>1. Routines!Steps("symbolic_ref_short_head") = Routines!git_symbolic_ref_short_head
  BY DEF Routines!Steps
<1>2. /\ Places("symbolic_ref_short_head") = 1 .. 15
      /\ Len(Routines!Steps("symbolic_ref_short_head")) = 15
  BY <1>1 DEF Places, Routines!git_symbolic_ref_short_head
<1>3. /\ Labelled("symbolic_ref_short_head", "unborn") = {9}
      /\ Labelled("symbolic_ref_short_head", "none") = {13}
      /\ Labelled("symbolic_ref_short_head", "exit") = {15}
  <2>1. /\ \A i \in 1 .. 15 : Routines!git_symbolic_ref_short_head[i].at = "unborn" <=> i = 9
        /\ \A i \in 1 .. 15 : Routines!git_symbolic_ref_short_head[i].at = "none" <=> i = 13
        /\ \A i \in 1 .. 15 : Routines!git_symbolic_ref_short_head[i].at = "exit" <=> i = 15
    BY DEF Routines!git_symbolic_ref_short_head
  <2> QED
    BY <1>1, <1>2, <2>1 DEF Labelled
<1> QED
  BY <1>1, <1>2, <1>3

\* It uses, loses and frees nothing out of turn.
LEMMA Flow_symbolic_ref_short_head == Flows("symbolic_ref_short_head")
<1>1. \A k, h, p : Held("symbolic_ref_short_head", k, h, p) <=>
          Held_symbolic_ref_short_head(k, h, p)
  BY DEF Held
<1>2. /\ Places("symbolic_ref_short_head") = 1 .. 15
      /\ Len(Routines!Steps("symbolic_ref_short_head")) = 15
  BY Labels_symbolic_ref_short_head
<1>3. /\ Labelled("symbolic_ref_short_head", "unborn") = {9}
      /\ Labelled("symbolic_ref_short_head", "none") = {13}
      /\ Labelled("symbolic_ref_short_head", "exit") = {15}
  BY Labels_symbolic_ref_short_head
<1> USE <1>1, <1>2 DEF Routines!git_symbolic_ref_short_head, Held_symbolic_ref_short_head,
   FlowOf, Stays, Gains, Drops, Set, Unset, Called, Jumping, Routines!Handles
<1>4. FlowOf("symbolic_ref_short_head", 1, Routines!git_symbolic_ref_short_head[1])
  BY <1>3
<1>5. FlowOf("symbolic_ref_short_head", 2, Routines!git_symbolic_ref_short_head[2])
  BY <1>3
<1>6. FlowOf("symbolic_ref_short_head", 3, Routines!git_symbolic_ref_short_head[3])
  BY <1>3
<1>7. FlowOf("symbolic_ref_short_head", 4, Routines!git_symbolic_ref_short_head[4])
  BY <1>3
<1>8. FlowOf("symbolic_ref_short_head", 5, Routines!git_symbolic_ref_short_head[5])
  OBVIOUS
<1>9. FlowOf("symbolic_ref_short_head", 6, Routines!git_symbolic_ref_short_head[6])
  OBVIOUS
<1>10. FlowOf("symbolic_ref_short_head", 7, Routines!git_symbolic_ref_short_head[7])
  OBVIOUS
<1>11. FlowOf("symbolic_ref_short_head", 8, Routines!git_symbolic_ref_short_head[8])
  BY <1>3
<1>12. FlowOf("symbolic_ref_short_head", 9, Routines!git_symbolic_ref_short_head[9])
  OBVIOUS
<1>13. FlowOf("symbolic_ref_short_head", 10, Routines!git_symbolic_ref_short_head[10])
  OBVIOUS
<1>14. FlowOf("symbolic_ref_short_head", 11, Routines!git_symbolic_ref_short_head[11])
  OBVIOUS
<1>15. FlowOf("symbolic_ref_short_head", 12, Routines!git_symbolic_ref_short_head[12])
  BY <1>3
<1>16. FlowOf("symbolic_ref_short_head", 13, Routines!git_symbolic_ref_short_head[13])
  OBVIOUS
<1>17. FlowOf("symbolic_ref_short_head", 14, Routines!git_symbolic_ref_short_head[14])
  OBVIOUS
<1>18. FlowOf("symbolic_ref_short_head", 15, Routines!git_symbolic_ref_short_head[15])
  BY <1>3
<1> HIDE <1>1, <1>2 DEF Routines!git_symbolic_ref_short_head, Held_symbolic_ref_short_head,
   FlowOf, Stays, Gains, Drops, Set, Unset, Called, Jumping, Routines!Handles
<1>19. \A p \in 1 .. 15 :
           FlowOf("symbolic_ref_short_head", p, Routines!git_symbolic_ref_short_head[p])
  BY <1>4, <1>5, <1>6, <1>7, <1>8, <1>9, <1>10, <1>11, <1>12, <1>13, <1>14,
     <1>15, <1>16, <1>17, <1>18
<1>20. Routines!Steps("symbolic_ref_short_head") = Routines!git_symbolic_ref_short_head
  BY DEF Routines!Steps
<1>21. \A p \in Places("symbolic_ref_short_head") : Flow("symbolic_ref_short_head", p)
  BY <1>19, <1>20, <1>2 DEF Flow
<1>22. 15 \in Nat \ {0}
  OBVIOUS
<1> QED
  BY <1>21, <1>22, <1>2 DEF Flows

\* The steps of get_branch_upstream_name, and where its labels are.
LEMMA Labels_branch_upstream_name ==
  /\ Places("branch_upstream_name") = 1 .. 9 /\ Len(Routines!Steps("branch_upstream_name")) = 9
  /\ Labelled("branch_upstream_name", "out") = {6}
  /\ Labelled("branch_upstream_name", "none") = {8}
  /\ Labelled("branch_upstream_name", "exit") = {9}
<1>1. Routines!Steps("branch_upstream_name") = Routines!get_branch_upstream_name
  BY DEF Routines!Steps
<1>2. /\ Places("branch_upstream_name") = 1 .. 9
      /\ Len(Routines!Steps("branch_upstream_name")) = 9
  BY <1>1 DEF Places, Routines!get_branch_upstream_name
<1>3. /\ Labelled("branch_upstream_name", "out") = {6}
      /\ Labelled("branch_upstream_name", "none") = {8}
      /\ Labelled("branch_upstream_name", "exit") = {9}
  <2>1. /\ \A i \in 1 .. 9 : Routines!get_branch_upstream_name[i].at = "out" <=> i = 6
        /\ \A i \in 1 .. 9 : Routines!get_branch_upstream_name[i].at = "none" <=> i = 8
        /\ \A i \in 1 .. 9 : Routines!get_branch_upstream_name[i].at = "exit" <=> i = 9
    BY DEF Routines!get_branch_upstream_name
  <2> QED
    BY <1>1, <1>2, <2>1 DEF Labelled
<1> QED
  BY <1>1, <1>2, <1>3

\* It uses, loses and frees nothing out of turn.
LEMMA Flow_branch_upstream_name == Flows("branch_upstream_name")
<1>1. \A k, h, p : Held("branch_upstream_name", k, h, p) <=> Held_branch_upstream_name(k, h, p)
  BY DEF Held
<1>2. /\ Places("branch_upstream_name") = 1 .. 9
      /\ Len(Routines!Steps("branch_upstream_name")) = 9
  BY Labels_branch_upstream_name
<1>3. /\ Labelled("branch_upstream_name", "out") = {6}
      /\ Labelled("branch_upstream_name", "none") = {8}
      /\ Labelled("branch_upstream_name", "exit") = {9}
  BY Labels_branch_upstream_name
<1> USE <1>1, <1>2 DEF Routines!get_branch_upstream_name, Held_branch_upstream_name, FlowOf,
   Stays, Gains, Drops, Set, Unset, Called, Jumping, Routines!Handles
<1>4. FlowOf("branch_upstream_name", 1, Routines!get_branch_upstream_name[1])
  BY <1>3
<1>5. FlowOf("branch_upstream_name", 2, Routines!get_branch_upstream_name[2])
  BY <1>3
<1>6. FlowOf("branch_upstream_name", 3, Routines!get_branch_upstream_name[3])
  OBVIOUS
<1>7. FlowOf("branch_upstream_name", 4, Routines!get_branch_upstream_name[4])
  BY <1>3
<1>8. FlowOf("branch_upstream_name", 5, Routines!get_branch_upstream_name[5])
  OBVIOUS
<1>9. FlowOf("branch_upstream_name", 6, Routines!get_branch_upstream_name[6])
  OBVIOUS
<1>10. FlowOf("branch_upstream_name", 7, Routines!get_branch_upstream_name[7])
  BY <1>3
<1>11. FlowOf("branch_upstream_name", 8, Routines!get_branch_upstream_name[8])
  OBVIOUS
<1>12. FlowOf("branch_upstream_name", 9, Routines!get_branch_upstream_name[9])
  BY <1>3
<1> HIDE <1>1, <1>2 DEF Routines!get_branch_upstream_name, Held_branch_upstream_name, FlowOf,
   Stays, Gains, Drops, Set, Unset, Called, Jumping, Routines!Handles
<1>13. \A p \in 1 .. 9 : FlowOf("branch_upstream_name", p, Routines!get_branch_upstream_name[p])
  BY <1>4, <1>5, <1>6, <1>7, <1>8, <1>9, <1>10, <1>11, <1>12
<1>14. Routines!Steps("branch_upstream_name") = Routines!get_branch_upstream_name
  BY DEF Routines!Steps
<1>15. \A p \in Places("branch_upstream_name") : Flow("branch_upstream_name", p)
  BY <1>13, <1>14, <1>2 DEF Flow
<1>16. 9 \in Nat \ {0}
  OBVIOUS
<1> QED
  BY <1>15, <1>16, <1>2 DEF Flows

\* The steps of append_branch_record, and where its labels are.
LEMMA Labels_branch_record ==
  /\ Places("branch_record") = 1 .. 12 /\ Len(Routines!Steps("branch_record")) = 12
  /\ Labelled("branch_record", "oid") = {3}
  /\ Labelled("branch_record", "summary") = {7}
  /\ Labelled("branch_record", "write") = {8}
  /\ Labelled("branch_record", "out") = {10}
  /\ Labelled("branch_record", "exit") = {12}
<1>1. Routines!Steps("branch_record") = Routines!append_branch_record
  BY DEF Routines!Steps
<1>2. /\ Places("branch_record") = 1 .. 12
      /\ Len(Routines!Steps("branch_record")) = 12
  BY <1>1 DEF Places, Routines!append_branch_record
<1>3. /\ Labelled("branch_record", "oid") = {3}
      /\ Labelled("branch_record", "summary") = {7}
      /\ Labelled("branch_record", "write") = {8}
  <2>1. /\ \A i \in 1 .. 12 : Routines!append_branch_record[i].at = "oid" <=> i = 3
        /\ \A i \in 1 .. 12 : Routines!append_branch_record[i].at = "summary" <=> i = 7
        /\ \A i \in 1 .. 12 : Routines!append_branch_record[i].at = "write" <=> i = 8
    BY DEF Routines!append_branch_record
  <2> QED
    BY <1>1, <1>2, <2>1 DEF Labelled
<1>4. /\ Labelled("branch_record", "out") = {10}
      /\ Labelled("branch_record", "exit") = {12}
  <2>1. /\ \A i \in 1 .. 12 : Routines!append_branch_record[i].at = "out" <=> i = 10
        /\ \A i \in 1 .. 12 : Routines!append_branch_record[i].at = "exit" <=> i = 12
    BY DEF Routines!append_branch_record
  <2> QED
    BY <1>1, <1>2, <2>1 DEF Labelled
<1> QED
  BY <1>1, <1>2, <1>3, <1>4

\* It uses, loses and frees nothing out of turn.
LEMMA Flow_branch_record == Flows("branch_record")
<1>1. \A k, h, p : Held("branch_record", k, h, p) <=> Held_branch_record(k, h, p)
  BY DEF Held
<1>2. /\ Places("branch_record") = 1 .. 12
      /\ Len(Routines!Steps("branch_record")) = 12
  BY Labels_branch_record
<1>3. /\ Labelled("branch_record", "oid") = {3}
      /\ Labelled("branch_record", "summary") = {7}
      /\ Labelled("branch_record", "write") = {8}
      /\ Labelled("branch_record", "out") = {10}
  BY Labels_branch_record
<1>4. Labelled("branch_record", "exit") = {12}
  BY Labels_branch_record
<1> USE <1>1, <1>2 DEF Routines!append_branch_record, Held_branch_record, FlowOf, Stays, Gains,
   Drops, Set, Unset, Called, Jumping, Routines!Handles
<1>5. FlowOf("branch_record", 1, Routines!append_branch_record[1])
  BY <1>3
<1>6. FlowOf("branch_record", 2, Routines!append_branch_record[2])
  BY <1>3
<1>7. FlowOf("branch_record", 3, Routines!append_branch_record[3])
  BY <1>3
<1>8. FlowOf("branch_record", 4, Routines!append_branch_record[4])
  BY <1>3
<1>9. FlowOf("branch_record", 5, Routines!append_branch_record[5])
  BY <1>3
<1>10. FlowOf("branch_record", 6, Routines!append_branch_record[6])
  BY <1>3
<1>11. FlowOf("branch_record", 7, Routines!append_branch_record[7])
  BY <1>3
<1>12. FlowOf("branch_record", 8, Routines!append_branch_record[8])
  OBVIOUS
<1>13. FlowOf("branch_record", 9, Routines!append_branch_record[9])
  OBVIOUS
<1>14. FlowOf("branch_record", 10, Routines!append_branch_record[10])
  OBVIOUS
<1>15. FlowOf("branch_record", 11, Routines!append_branch_record[11])
  OBVIOUS
<1>16. FlowOf("branch_record", 12, Routines!append_branch_record[12])
  BY <1>4
<1> HIDE <1>1, <1>2 DEF Routines!append_branch_record, Held_branch_record, FlowOf, Stays, Gains,
   Drops, Set, Unset, Called, Jumping, Routines!Handles
<1>17. \A p \in 1 .. 12 : FlowOf("branch_record", p, Routines!append_branch_record[p])
  BY <1>5, <1>6, <1>7, <1>8, <1>9, <1>10, <1>11, <1>12, <1>13, <1>14, <1>15,
     <1>16
<1>18. Routines!Steps("branch_record") = Routines!append_branch_record
  BY DEF Routines!Steps
<1>19. \A p \in Places("branch_record") : Flow("branch_record", p)
  BY <1>17, <1>18, <1>2 DEF Flow
<1>20. 12 \in Nat \ {0}
  OBVIOUS
<1> QED
  BY <1>19, <1>20, <1>2 DEF Flows

\* The steps of tag_cb, and where its labels are.
LEMMA Labels_tag_cb ==
  /\ Places("tag_cb") = 1 .. 8 /\ Len(Routines!Steps("tag_cb")) = 8
  /\ Labelled("tag_cb", "free") = {6}
  /\ Labelled("tag_cb", "exit") = {8}
<1>1. Routines!Steps("tag_cb") = Routines!tag_cb
  BY DEF Routines!Steps
<1>2. /\ Places("tag_cb") = 1 .. 8
      /\ Len(Routines!Steps("tag_cb")) = 8
  BY <1>1 DEF Places, Routines!tag_cb
<1>3. /\ Labelled("tag_cb", "free") = {6}
      /\ Labelled("tag_cb", "exit") = {8}
  <2>1. /\ \A i \in 1 .. 8 : Routines!tag_cb[i].at = "free" <=> i = 6
        /\ \A i \in 1 .. 8 : Routines!tag_cb[i].at = "exit" <=> i = 8
    BY DEF Routines!tag_cb
  <2> QED
    BY <1>1, <1>2, <2>1 DEF Labelled
<1> QED
  BY <1>1, <1>2, <1>3

\* It uses, loses and frees nothing out of turn.
LEMMA Flow_tag_cb == Flows("tag_cb")
<1>1. \A k, h, p : Held("tag_cb", k, h, p) <=> Held_tag_cb(k, h, p)
  BY DEF Held
<1>2. /\ Places("tag_cb") = 1 .. 8
      /\ Len(Routines!Steps("tag_cb")) = 8
  BY Labels_tag_cb
<1>3. /\ Labelled("tag_cb", "free") = {6}
      /\ Labelled("tag_cb", "exit") = {8}
  BY Labels_tag_cb
<1> USE <1>1, <1>2 DEF Routines!tag_cb, Held_tag_cb, FlowOf, Stays, Gains, Drops, Set, Unset,
   Called, Jumping, Routines!Handles
<1>4. FlowOf("tag_cb", 1, Routines!tag_cb[1])
  BY <1>3
<1>5. FlowOf("tag_cb", 2, Routines!tag_cb[2])
  BY <1>3
<1>6. FlowOf("tag_cb", 3, Routines!tag_cb[3])
  BY <1>3
<1>7. FlowOf("tag_cb", 4, Routines!tag_cb[4])
  BY <1>3
<1>8. FlowOf("tag_cb", 5, Routines!tag_cb[5])
  OBVIOUS
<1>9. FlowOf("tag_cb", 6, Routines!tag_cb[6])
  OBVIOUS
<1>10. FlowOf("tag_cb", 7, Routines!tag_cb[7])
  OBVIOUS
<1>11. FlowOf("tag_cb", 8, Routines!tag_cb[8])
  BY <1>3
<1> HIDE <1>1, <1>2 DEF Routines!tag_cb, Held_tag_cb, FlowOf, Stays, Gains, Drops, Set, Unset,
   Called, Jumping, Routines!Handles
<1>12. \A p \in 1 .. 8 : FlowOf("tag_cb", p, Routines!tag_cb[p])
  BY <1>4, <1>5, <1>6, <1>7, <1>8, <1>9, <1>10, <1>11
<1>13. Routines!Steps("tag_cb") = Routines!tag_cb
  BY DEF Routines!Steps
<1>14. \A p \in Places("tag_cb") : Flow("tag_cb", p)
  BY <1>12, <1>13, <1>2 DEF Flow
<1>15. 8 \in Nat \ {0}
  OBVIOUS
<1> QED
  BY <1>14, <1>15, <1>2 DEF Flows

\* The steps of load_commit_graph, and where its labels are.
LEMMA Labels_commit_graph ==
  /\ Places("commit_graph") = 1 .. 20 /\ Len(Routines!Steps("commit_graph")) = 20
  /\ Labelled("commit_graph", "nopath") = {11}
  /\ Labelled("commit_graph", "nograph") = {14}
  /\ Labelled("commit_graph", "refused") = {18}
  /\ Labelled("commit_graph", "exit") = {20}
<1>1. Routines!Steps("commit_graph") = Routines!load_commit_graph
  BY DEF Routines!Steps
<1>2. /\ Places("commit_graph") = 1 .. 20
      /\ Len(Routines!Steps("commit_graph")) = 20
  BY <1>1 DEF Places, Routines!load_commit_graph
<1>3. /\ Labelled("commit_graph", "nopath") = {11}
      /\ Labelled("commit_graph", "nograph") = {14}
      /\ Labelled("commit_graph", "refused") = {18}
  <2>1. /\ \A i \in 1 .. 20 : Routines!load_commit_graph[i].at = "nopath" <=> i = 11
        /\ \A i \in 1 .. 20 : Routines!load_commit_graph[i].at = "nograph" <=> i = 14
        /\ \A i \in 1 .. 20 : Routines!load_commit_graph[i].at = "refused" <=> i = 18
    BY DEF Routines!load_commit_graph
  <2> QED
    BY <1>1, <1>2, <2>1 DEF Labelled
<1>4. Labelled("commit_graph", "exit") = {20}
  <2>1. \A i \in 1 .. 20 : Routines!load_commit_graph[i].at = "exit" <=> i = 20
    BY DEF Routines!load_commit_graph
  <2> QED
    BY <1>1, <1>2, <2>1 DEF Labelled
<1> QED
  BY <1>1, <1>2, <1>3, <1>4

\* It uses, loses and frees nothing out of turn.
LEMMA Flow_commit_graph == Flows("commit_graph")
<1>1. \A k, h, p : Held("commit_graph", k, h, p) <=> Held_commit_graph(k, h, p)
  BY DEF Held
<1>2. /\ Places("commit_graph") = 1 .. 20
      /\ Len(Routines!Steps("commit_graph")) = 20
  BY Labels_commit_graph
<1>3. /\ Labelled("commit_graph", "nopath") = {11}
      /\ Labelled("commit_graph", "nograph") = {14}
      /\ Labelled("commit_graph", "refused") = {18}
      /\ Labelled("commit_graph", "exit") = {20}
  BY Labels_commit_graph
<1> USE <1>1, <1>2 DEF Routines!load_commit_graph, Held_commit_graph, FlowOf, Stays, Gains,
   Drops, Set, Unset, Called, Jumping, Routines!Handles
<1>4. FlowOf("commit_graph", 1, Routines!load_commit_graph[1])
  BY <1>3
<1>5. FlowOf("commit_graph", 2, Routines!load_commit_graph[2])
  BY <1>3
<1>6. FlowOf("commit_graph", 3, Routines!load_commit_graph[3])
  BY <1>3
<1>7. FlowOf("commit_graph", 4, Routines!load_commit_graph[4])
  BY <1>3
<1>8. FlowOf("commit_graph", 5, Routines!load_commit_graph[5])
  OBVIOUS
<1>9. FlowOf("commit_graph", 6, Routines!load_commit_graph[6])
  BY <1>3
<1>10. FlowOf("commit_graph", 7, Routines!load_commit_graph[7])
  OBVIOUS
<1>11. FlowOf("commit_graph", 8, Routines!load_commit_graph[8])
  OBVIOUS
<1>12. FlowOf("commit_graph", 9, Routines!load_commit_graph[9])
  OBVIOUS
<1>13. FlowOf("commit_graph", 10, Routines!load_commit_graph[10])
  BY <1>3
<1>14. FlowOf("commit_graph", 11, Routines!load_commit_graph[11])
  OBVIOUS
<1>15. FlowOf("commit_graph", 12, Routines!load_commit_graph[12])
  OBVIOUS
<1>16. FlowOf("commit_graph", 13, Routines!load_commit_graph[13])
  BY <1>3
<1>17. FlowOf("commit_graph", 14, Routines!load_commit_graph[14])
  OBVIOUS
<1>18. FlowOf("commit_graph", 15, Routines!load_commit_graph[15])
  OBVIOUS
<1>19. FlowOf("commit_graph", 16, Routines!load_commit_graph[16])
  OBVIOUS
<1>20. FlowOf("commit_graph", 17, Routines!load_commit_graph[17])
  BY <1>3
<1>21. FlowOf("commit_graph", 18, Routines!load_commit_graph[18])
  OBVIOUS
<1>22. FlowOf("commit_graph", 19, Routines!load_commit_graph[19])
  OBVIOUS
<1>23. FlowOf("commit_graph", 20, Routines!load_commit_graph[20])
  BY <1>3
<1> HIDE <1>1, <1>2 DEF Routines!load_commit_graph, Held_commit_graph, FlowOf, Stays, Gains,
   Drops, Set, Unset, Called, Jumping, Routines!Handles
<1>24. \A p \in 1 .. 20 : FlowOf("commit_graph", p, Routines!load_commit_graph[p])
  BY <1>4, <1>5, <1>6, <1>7, <1>8, <1>9, <1>10, <1>11, <1>12, <1>13, <1>14,
     <1>15, <1>16, <1>17, <1>18, <1>19, <1>20, <1>21, <1>22, <1>23
<1>25. Routines!Steps("commit_graph") = Routines!load_commit_graph
  BY DEF Routines!Steps
<1>26. \A p \in Places("commit_graph") : Flow("commit_graph", p)
  BY <1>24, <1>25, <1>2 DEF Flow
<1>27. 20 \in Nat \ {0}
  OBVIOUS
<1> QED
  BY <1>26, <1>27, <1>2 DEF Flows

HIDE DEF Routines!Try, Routines!TryWith, Routines!Ask, Routines!AskWith, Routines!Find,
   Routines!Next_, Routines!More, Routines!Limit, Routines!If, Routines!Put, Routines!Free,
   Routines!Null, Routines!Give, Routines!Count, Routines!Goto, Routines!Ok, Routines!Error,
   Routines!Finished, Routines!Exit, Routines!Op, Routines!At

\* Every step of every routine does what the table needs.
LEMMA RoutinesFlow == \A name \in Routines!Routines : Flows(name)
BY Flow_config_list_z, Flow_head_subject, Flow_tag_desc, Flow_tag_desc_if_match,
   Flow_worktrees_porcelain, Flow_config_show_untracked_files, Flow_status_porcelain_z,
   Flow_diff_patch, Flow_staged, Flow_stash_oid, Flow_branch_list, Flow_rev_parse_verify,
   Flow_log, Flow_rev_parse_short_head, Flow_origin_head, Flow_upstream_branch_master,
   Flow_rev_head, Flow_symbolic_ref_short_head, Flow_branch_upstream_name, Flow_branch_record,
   Flow_tag_cb, Flow_commit_graph
   DEF Routines!Routines

-----------------------------------------------------------------------------
(* What a routine has appended, counted and failed at by each place.       *)

Codes == {"ok", "error", "none", "over"}

\* The return code r and the count o of records: nothing happened; nothing is
\* written; one is, and success must follow; what the caller is told.
Fresh(r, o) == r = "ok" /\ o = 0
Open(r, o) == o = 0
Owed(r, o) == o = 1
Told(r, o) == o = (IF r = "ok" THEN 1 ELSE 0)

Tellers == Routines!Single \cup {"config_list_z", "branch_list", "log"}

\* Before place p, with return code r, o records, c commits counted, and f: has
\* the iterator failed?
Said_upstream_branch_master(p, r, o, c, f) ==
    \/ p \in 1..4 /\ Fresh(r, o)
    \/ p \in 5..7 /\ Told(r, o)

Said_rev_parse_short_head(p, r, o, c, f) ==
    \/ p \in 1..3 /\ Fresh(r, o)
    \/ p \in 4..6 /\ Told(r, o)

Said_origin_head(p, r, o, c, f) ==
    \/ p \in 1..4 \cup {6} /\ Fresh(r, o)
    \/ p \in {5, 7, 8} /\ Told(r, o)

Said_stash_oid(p, r, o, c, f) ==
    \/ p \in {1, 2} /\ Fresh(r, o)
    \/ p \in {3} /\ Told(r, o)

Said_rev_parse_verify(p, r, o, c, f) ==
    \/ p \in {1, 2} /\ Fresh(r, o)
    \/ p \in {3, 4} /\ Told(r, o)

Said_branch_record(p, r, o, c, f) ==
    \/ p \in {1, 2} /\ Fresh(r, o)
    \/ p \in 3..8 /\ Open(r, o)
    \/ p \in {9} /\ Owed(r, o)
    \/ p \in 10..12 /\ Told(r, o)

Said_diff_patch(p, r, o, c, f) ==
    \/ p \in 1..4 /\ Fresh(r, o)
    \/ p \in 5..7 /\ Told(r, o)

Said_staged(p, r, o, c, f) ==
    \/ p \in 1..4 \cup 6..8 /\ Fresh(r, o)
    \/ p \in {5} /\ Open(r, o)
    \/ p \in 9..14 /\ Told(r, o)

Said_head_subject(p, r, o, c, f) ==
    \/ p \in 1..4 /\ Fresh(r, o)
    \/ p \in 5..8 /\ Told(r, o)

Said_rev_head(p, r, o, c, f) ==
    \/ p \in 1..3 \cup {6} /\ Fresh(r, o)
    \/ p \in {4, 5, 7, 8} /\ Told(r, o)

Said_branch_upstream_name(p, r, o, c, f) ==
    \/ p \in 1..5 /\ Fresh(r, o)
    \/ p \in 6..9 /\ Told(r, o)

Said_symbolic_ref_short_head(p, r, o, c, f) ==
    \/ p \in 1..5 \cup {13, 14} /\ Fresh(r, o)
    \/ p \in {9} /\ Open(r, o)
    \/ p \in {10, 11} /\ Owed(r, o)
    \/ p \in 6..8 \cup {12, 15} /\ Told(r, o)

Said_config_list_z(p, r, o, c, f) ==
    \/ p \in 1..5 /\ ~f
    \/ p \in 6..11 /\ (f => r = "error")

Said_branch_list(p, r, o, c, f) ==
    \/ p \in 1..7 /\ ~f
    \/ p \in 8..13 /\ (f => r = "error")

Said_log(p, r, o, c, f) ==
    /\ \/ p \in 1..11 /\ ~f
       \/ p \in 12..15 /\ (f => r = "error")
    /\ \/ p \in 1..5 \cup 11..15 /\ o = c /\ c <= LogLimit
       \/ p \in {6, 7} /\ o = c /\ c < LogLimit
       \/ p \in 8..10 /\ o = c + 1 /\ c < LogLimit

Said(name, p, r, o, c, f) ==
    \/ name = "upstream_branch_master" /\ Said_upstream_branch_master(p, r, o, c, f)
    \/ name = "rev_parse_short_head" /\ Said_rev_parse_short_head(p, r, o, c, f)
    \/ name = "origin_head" /\ Said_origin_head(p, r, o, c, f)
    \/ name = "stash_oid" /\ Said_stash_oid(p, r, o, c, f)
    \/ name = "rev_parse_verify" /\ Said_rev_parse_verify(p, r, o, c, f)
    \/ name = "branch_record" /\ Said_branch_record(p, r, o, c, f)
    \/ name = "diff_patch" /\ Said_diff_patch(p, r, o, c, f)
    \/ name = "staged" /\ Said_staged(p, r, o, c, f)
    \/ name = "head_subject" /\ Said_head_subject(p, r, o, c, f)
    \/ name = "rev_head" /\ Said_rev_head(p, r, o, c, f)
    \/ name = "branch_upstream_name" /\ Said_branch_upstream_name(p, r, o, c, f)
    \/ name = "symbolic_ref_short_head" /\ Said_symbolic_ref_short_head(p, r, o, c, f)
    \/ name = "config_list_z" /\ Said_config_list_z(p, r, o, c, f)
    \/ name = "branch_list" /\ Said_branch_list(p, r, o, c, f)
    \/ name = "log" /\ Said_log(p, r, o, c, f)

\* The step at place p leads to places where what is said holds again.
TellsOf(name, p, s) ==
    LET Then(q, r, o, c, f) == \A l \in Labelled(name, q) : Said(name, l, r, o, c, f)
    IN  \A r \in Codes, o \in Nat, c \in Nat, f \in BOOLEAN :
          Said(name, p, r, o, c, f) =>
            /\ s.op \in {"try", "find", "next"} => Said(name, p + 1, "ok", o, c, f)
            /\ s.op \in {"ask", "more", "if", "free", "null", "give"} =>
                 Said(name, p + 1, r, o, c, f)
            /\ s.op \in {"try", "find"} => Then(s.to, "error", o, c, f)
            /\ s.op = "next" => Then(s.to, "error", o, c, TRUE) /\ Then(s.to, "over", o, c, f)
            /\ s.op \in {"ask", "more", "goto", "if", "limit"} => Then(s.to, r, o, c, f)
            /\ s.op = "find" => Then(s.miss, "none", o, c, f)
            /\ s.op = "limit" /\ c < LogLimit => Said(name, p + 1, r, o, c, f)
            /\ s.op = "put" => Said(name, p + 1, r, o + 1, c, f)
            /\ s.op = "set" => Said(name, p + 1, s.h, o, c, f)
            /\ s.op = "finished" => Said(name, p + 1, IF r = "over" THEN "ok" ELSE r, o, c, f)
            /\ s.op = "count" => Said(name, p + 1, r, o, c + 1, f)
            /\ s.at = "exit" => /\ name \in Routines!Single => Told(r, o)
                                /\ name \notin Routines!Single /\ f => r = "error"

Tells(name, p) == TellsOf(name, p, Routines!Steps(name)[p])

\* Each routine that writes one record, or a list, place by place.
USE DEF Codes, Fresh, Open, Owed, Told, Routines!Try, Routines!TryWith, Routines!Ask,
   Routines!AskWith, Routines!Find, Routines!Next_, Routines!More, Routines!Limit, Routines!If,
   Routines!Put, Routines!Free, Routines!Null, Routines!Give, Routines!Count, Routines!Goto,
   Routines!Ok, Routines!Error, Routines!Finished, Routines!Exit, Routines!Op, Routines!At

\* git_config_list_z reports a failure of its iterator.
LEMMA Tells_config_list_z == \A p \in Places("config_list_z") : Tells("config_list_z", p)
<1>1. "config_list_z" \notin Routines!Single
  BY DEF Routines!Single
<1>2. /\ Places("config_list_z") = 1 .. 11
      /\ Len(Routines!Steps("config_list_z")) = 11
  BY Labels_config_list_z
<1>3. /\ Labelled("config_list_z", "while") = {3}
      /\ Labelled("config_list_z", "over") = {6}
      /\ Labelled("config_list_z", "noiter") = {10}
      /\ Labelled("config_list_z", "exit") = {11}
  BY Labels_config_list_z
<1> USE <1>1, RoutinesLimits DEF Routines!git_config_list_z, Said, Said_config_list_z, TellsOf
<1>4. TellsOf("config_list_z", 1, Routines!git_config_list_z[1])
  BY <1>3
<1>5. TellsOf("config_list_z", 2, Routines!git_config_list_z[2])
  BY <1>3
<1>6. TellsOf("config_list_z", 3, Routines!git_config_list_z[3])
  BY <1>3
<1>7. TellsOf("config_list_z", 4, Routines!git_config_list_z[4])
  OBVIOUS
<1>8. TellsOf("config_list_z", 5, Routines!git_config_list_z[5])
  BY <1>3
<1>9. TellsOf("config_list_z", 6, Routines!git_config_list_z[6])
  OBVIOUS
<1>10. TellsOf("config_list_z", 7, Routines!git_config_list_z[7])
  OBVIOUS
<1>11. TellsOf("config_list_z", 8, Routines!git_config_list_z[8])
  OBVIOUS
<1>12. TellsOf("config_list_z", 9, Routines!git_config_list_z[9])
  BY <1>3
<1>13. TellsOf("config_list_z", 10, Routines!git_config_list_z[10])
  OBVIOUS
<1>14. TellsOf("config_list_z", 11, Routines!git_config_list_z[11])
  BY <1>3
<1> HIDE <1>1, RoutinesLimits DEF Routines!git_config_list_z, Said, Said_config_list_z, TellsOf
<1>15. \A p \in 1 .. 11 : TellsOf("config_list_z", p, Routines!git_config_list_z[p])
  BY <1>4, <1>5, <1>6, <1>7, <1>8, <1>9, <1>10, <1>11, <1>12, <1>13, <1>14
<1>16. Routines!Steps("config_list_z") = Routines!git_config_list_z
  BY DEF Routines!Steps
<1> QED
  BY <1>15, <1>16, <1>2 DEF Tells

\* git_head_subject reports success when its record is written, and only then.
LEMMA Tells_head_subject == \A p \in Places("head_subject") : Tells("head_subject", p)
<1>1. "head_subject" \in Routines!Single
  BY DEF Routines!Single
<1>2. /\ Places("head_subject") = 1 .. 8
      /\ Len(Routines!Steps("head_subject")) = 8
  BY Labels_head_subject
<1>3. /\ Labelled("head_subject", "unpeeled") = {7}
      /\ Labelled("head_subject", "exit") = {8}
  BY Labels_head_subject
<1> USE <1>1, RoutinesLimits DEF Routines!git_head_subject, Said, Said_head_subject, TellsOf
<1>4. TellsOf("head_subject", 1, Routines!git_head_subject[1])
  BY <1>3
<1>5. TellsOf("head_subject", 2, Routines!git_head_subject[2])
  BY <1>3
<1>6. TellsOf("head_subject", 3, Routines!git_head_subject[3])
  OBVIOUS
<1>7. TellsOf("head_subject", 4, Routines!git_head_subject[4])
  OBVIOUS
<1>8. TellsOf("head_subject", 5, Routines!git_head_subject[5])
  OBVIOUS
<1>9. TellsOf("head_subject", 6, Routines!git_head_subject[6])
  BY <1>3
<1>10. TellsOf("head_subject", 7, Routines!git_head_subject[7])
  OBVIOUS
<1>11. TellsOf("head_subject", 8, Routines!git_head_subject[8])
  BY <1>3
<1> HIDE <1>1, RoutinesLimits DEF Routines!git_head_subject, Said, Said_head_subject, TellsOf
<1>12. \A p \in 1 .. 8 : TellsOf("head_subject", p, Routines!git_head_subject[p])
  BY <1>4, <1>5, <1>6, <1>7, <1>8, <1>9, <1>10, <1>11
<1>13. Routines!Steps("head_subject") = Routines!git_head_subject
  BY DEF Routines!Steps
<1> QED
  BY <1>12, <1>13, <1>2 DEF Tells

\* get_diff_patch reports success when its record is written, and only then.
LEMMA Tells_diff_patch == \A p \in Places("diff_patch") : Tells("diff_patch", p)
<1>1. "diff_patch" \in Routines!Single
  BY DEF Routines!Single
<1>2. /\ Places("diff_patch") = 1 .. 7
      /\ Len(Routines!Steps("diff_patch")) = 7
  BY Labels_diff_patch
<1>3. /\ Labelled("diff_patch", "out") = {5}
      /\ Labelled("diff_patch", "exit") = {7}
  BY Labels_diff_patch
<1> USE <1>1, RoutinesLimits DEF Routines!get_diff_patch, Said, Said_diff_patch, TellsOf
<1>4. TellsOf("diff_patch", 1, Routines!get_diff_patch[1])
  BY <1>3
<1>5. TellsOf("diff_patch", 2, Routines!get_diff_patch[2])
  BY <1>3
<1>6. TellsOf("diff_patch", 3, Routines!get_diff_patch[3])
  BY <1>3
<1>7. TellsOf("diff_patch", 4, Routines!get_diff_patch[4])
  OBVIOUS
<1>8. TellsOf("diff_patch", 5, Routines!get_diff_patch[5])
  OBVIOUS
<1>9. TellsOf("diff_patch", 6, Routines!get_diff_patch[6])
  OBVIOUS
<1>10. TellsOf("diff_patch", 7, Routines!get_diff_patch[7])
  BY <1>3
<1> HIDE <1>1, RoutinesLimits DEF Routines!get_diff_patch, Said, Said_diff_patch, TellsOf
<1>11. \A p \in 1 .. 7 : TellsOf("diff_patch", p, Routines!get_diff_patch[p])
  BY <1>4, <1>5, <1>6, <1>7, <1>8, <1>9, <1>10
<1>12. Routines!Steps("diff_patch") = Routines!get_diff_patch
  BY DEF Routines!Steps
<1> QED
  BY <1>11, <1>12, <1>2 DEF Tells

\* get_staged reports success when its record is written, and only then.
LEMMA Tells_staged == \A p \in Places("staged") : Tells("staged", p)
<1>1. "staged" \in Routines!Single
  BY DEF Routines!Single
<1>2. /\ Places("staged") = 1 .. 14
      /\ Len(Routines!Steps("staged")) = 14
  BY Labels_staged
<1>3. /\ Labelled("staged", "diff") = {5}
      /\ Labelled("staged", "out") = {9}
      /\ Labelled("staged", "exit") = {14}
  BY Labels_staged
<1> USE <1>1, RoutinesLimits DEF Routines!get_staged, Said, Said_staged, TellsOf
<1>4. TellsOf("staged", 1, Routines!get_staged[1])
  BY <1>3
<1>5. TellsOf("staged", 2, Routines!get_staged[2])
  BY <1>3
<1>6. TellsOf("staged", 3, Routines!get_staged[3])
  BY <1>3
<1>7. TellsOf("staged", 4, Routines!get_staged[4])
  BY <1>3
<1>8. TellsOf("staged", 5, Routines!get_staged[5])
  BY <1>3
<1>9. TellsOf("staged", 6, Routines!get_staged[6])
  BY <1>3
<1>10. TellsOf("staged", 7, Routines!get_staged[7])
  BY <1>3
<1>11. TellsOf("staged", 8, Routines!get_staged[8])
  OBVIOUS
<1>12. TellsOf("staged", 9, Routines!get_staged[9])
  OBVIOUS
<1>13. TellsOf("staged", 10, Routines!get_staged[10])
  OBVIOUS
<1>14. TellsOf("staged", 11, Routines!get_staged[11])
  OBVIOUS
<1>15. TellsOf("staged", 12, Routines!get_staged[12])
  OBVIOUS
<1>16. TellsOf("staged", 13, Routines!get_staged[13])
  OBVIOUS
<1>17. TellsOf("staged", 14, Routines!get_staged[14])
  BY <1>3
<1> HIDE <1>1, RoutinesLimits DEF Routines!get_staged, Said, Said_staged, TellsOf
<1>18. \A p \in 1 .. 14 : TellsOf("staged", p, Routines!get_staged[p])
  BY <1>4, <1>5, <1>6, <1>7, <1>8, <1>9, <1>10, <1>11, <1>12, <1>13, <1>14,
     <1>15, <1>16, <1>17
<1>19. Routines!Steps("staged") = Routines!get_staged
  BY DEF Routines!Steps
<1> QED
  BY <1>18, <1>19, <1>2 DEF Tells

\* get_ref_oid reports success when its record is written, and only then.
LEMMA Tells_stash_oid == \A p \in Places("stash_oid") : Tells("stash_oid", p)
<1>1. "stash_oid" \in Routines!Single
  BY DEF Routines!Single
<1>2. /\ Places("stash_oid") = 1 .. 3
      /\ Len(Routines!Steps("stash_oid")) = 3
  BY Labels_stash_oid
<1>3. Labelled("stash_oid", "exit") = {3}
  BY Labels_stash_oid
<1> USE <1>1, RoutinesLimits DEF Routines!get_ref_oid, Said, Said_stash_oid, TellsOf
<1>4. TellsOf("stash_oid", 1, Routines!get_ref_oid[1])
  BY <1>3
<1>5. TellsOf("stash_oid", 2, Routines!get_ref_oid[2])
  OBVIOUS
<1>6. TellsOf("stash_oid", 3, Routines!get_ref_oid[3])
  BY <1>3
<1> HIDE <1>1, RoutinesLimits DEF Routines!get_ref_oid, Said, Said_stash_oid, TellsOf
<1>7. \A p \in 1 .. 3 : TellsOf("stash_oid", p, Routines!get_ref_oid[p])
  BY <1>4, <1>5, <1>6
<1>8. Routines!Steps("stash_oid") = Routines!get_ref_oid
  BY DEF Routines!Steps
<1> QED
  BY <1>7, <1>8, <1>2 DEF Tells

\* get_branch_list reports a failure of its iterator.
LEMMA Tells_branch_list == \A p \in Places("branch_list") : Tells("branch_list", p)
<1>1. "branch_list" \notin Routines!Single
  BY DEF Routines!Single
<1>2. /\ Places("branch_list") = 1 .. 13
      /\ Len(Routines!Steps("branch_list")) = 13
  BY Labels_branch_list
<1>3. /\ Labelled("branch_list", "while") = {2}
      /\ Labelled("branch_list", "drop") = {8}
      /\ Labelled("branch_list", "over") = {11}
      /\ Labelled("branch_list", "out") = {12}
  BY Labels_branch_list
<1>4. Labelled("branch_list", "exit") = {13}
  BY Labels_branch_list
<1> USE <1>1, RoutinesLimits DEF Routines!get_branch_list, Said, Said_branch_list, TellsOf
<1>5. TellsOf("branch_list", 1, Routines!get_branch_list[1])
  BY <1>4
<1>6. TellsOf("branch_list", 2, Routines!get_branch_list[2])
  BY <1>3
<1>7. TellsOf("branch_list", 3, Routines!get_branch_list[3])
  BY <1>3
<1>8. TellsOf("branch_list", 4, Routines!get_branch_list[4])
  OBVIOUS
<1>9. TellsOf("branch_list", 5, Routines!get_branch_list[5])
  OBVIOUS
<1>10. TellsOf("branch_list", 6, Routines!get_branch_list[6])
  OBVIOUS
<1>11. TellsOf("branch_list", 7, Routines!get_branch_list[7])
  BY <1>3
<1>12. TellsOf("branch_list", 8, Routines!get_branch_list[8])
  OBVIOUS
<1>13. TellsOf("branch_list", 9, Routines!get_branch_list[9])
  OBVIOUS
<1>14. TellsOf("branch_list", 10, Routines!get_branch_list[10])
  BY <1>3
<1>15. TellsOf("branch_list", 11, Routines!get_branch_list[11])
  OBVIOUS
<1>16. TellsOf("branch_list", 12, Routines!get_branch_list[12])
  OBVIOUS
<1>17. TellsOf("branch_list", 13, Routines!get_branch_list[13])
  BY <1>4
<1> HIDE <1>1, RoutinesLimits DEF Routines!get_branch_list, Said, Said_branch_list, TellsOf
<1>18. \A p \in 1 .. 13 : TellsOf("branch_list", p, Routines!get_branch_list[p])
  BY <1>5, <1>6, <1>7, <1>8, <1>9, <1>10, <1>11, <1>12, <1>13, <1>14, <1>15,
     <1>16, <1>17
<1>19. Routines!Steps("branch_list") = Routines!get_branch_list
  BY DEF Routines!Steps
<1> QED
  BY <1>18, <1>19, <1>2 DEF Tells

\* get_rev_parse_verify reports success when its record is written, and only then.
LEMMA Tells_rev_parse_verify == \A p \in Places("rev_parse_verify") : Tells("rev_parse_verify", p)
<1>1. "rev_parse_verify" \in Routines!Single
  BY DEF Routines!Single
<1>2. /\ Places("rev_parse_verify") = 1 .. 4
      /\ Len(Routines!Steps("rev_parse_verify")) = 4
  BY Labels_rev_parse_verify
<1>3. Labelled("rev_parse_verify", "exit") = {4}
  BY Labels_rev_parse_verify
<1> USE <1>1, RoutinesLimits DEF Routines!get_rev_parse_verify, Said, Said_rev_parse_verify,
   TellsOf
<1>4. TellsOf("rev_parse_verify", 1, Routines!get_rev_parse_verify[1])
  BY <1>3
<1>5. TellsOf("rev_parse_verify", 2, Routines!get_rev_parse_verify[2])
  OBVIOUS
<1>6. TellsOf("rev_parse_verify", 3, Routines!get_rev_parse_verify[3])
  OBVIOUS
<1>7. TellsOf("rev_parse_verify", 4, Routines!get_rev_parse_verify[4])
  BY <1>3
<1> HIDE <1>1, RoutinesLimits DEF Routines!get_rev_parse_verify, Said, Said_rev_parse_verify,
   TellsOf
<1>8. \A p \in 1 .. 4 : TellsOf("rev_parse_verify", p, Routines!get_rev_parse_verify[p])
  BY <1>4, <1>5, <1>6, <1>7
<1>9. Routines!Steps("rev_parse_verify") = Routines!get_rev_parse_verify
  BY DEF Routines!Steps
<1> QED
  BY <1>8, <1>9, <1>2 DEF Tells

\* get_log reports a failure of its iterator, and its records are counted.
LEMMA Tells_log == \A p \in Places("log") : Tells("log", p)
<1>1. "log" \notin Routines!Single
  BY DEF Routines!Single
<1>2. /\ Places("log") = 1 .. 15
      /\ Len(Routines!Steps("log")) = 15
  BY Labels_log
<1>3. /\ Labelled("log", "while") = {4}
      /\ Labelled("log", "over") = {12}
      /\ Labelled("log", "out") = {13}
      /\ Labelled("log", "exit") = {15}
  BY Labels_log
<1> USE <1>1, RoutinesLimits DEF Routines!get_log, Said, Said_log, TellsOf
<1>4. TellsOf("log", 1, Routines!get_log[1])
  BY <1>3
<1>5. TellsOf("log", 2, Routines!get_log[2])
  BY <1>3
<1>6. TellsOf("log", 3, Routines!get_log[3])
  BY <1>3
<1>7. TellsOf("log", 4, Routines!get_log[4])
  BY <1>3
<1>8. TellsOf("log", 5, Routines!get_log[5])
  BY <1>3
<1>9. TellsOf("log", 6, Routines!get_log[6])
  BY <1>3
<1>10. TellsOf("log", 7, Routines!get_log[7])
  OBVIOUS
<1>11. TellsOf("log", 8, Routines!get_log[8])
  OBVIOUS
<1>12. TellsOf("log", 9, Routines!get_log[9])
  OBVIOUS
<1>13. TellsOf("log", 10, Routines!get_log[10])
  OBVIOUS
<1>14. TellsOf("log", 11, Routines!get_log[11])
  BY <1>3
<1>15. TellsOf("log", 12, Routines!get_log[12])
  OBVIOUS
<1>16. TellsOf("log", 13, Routines!get_log[13])
  OBVIOUS
<1>17. TellsOf("log", 14, Routines!get_log[14])
  OBVIOUS
<1>18. TellsOf("log", 15, Routines!get_log[15])
  BY <1>3
<1> HIDE <1>1, RoutinesLimits DEF Routines!get_log, Said, Said_log, TellsOf
<1>19. \A p \in 1 .. 15 : TellsOf("log", p, Routines!get_log[p])
  BY <1>4, <1>5, <1>6, <1>7, <1>8, <1>9, <1>10, <1>11, <1>12, <1>13, <1>14,
     <1>15, <1>16, <1>17, <1>18
<1>20. Routines!Steps("log") = Routines!get_log
  BY DEF Routines!Steps
<1> QED
  BY <1>19, <1>20, <1>2 DEF Tells

\* get_rev_parse_short_head reports success when its record is written, and only then.
LEMMA Tells_rev_parse_short_head == \A p \in Places("rev_parse_short_head") :
                Tells("rev_parse_short_head", p)
<1>1. "rev_parse_short_head" \in Routines!Single
  BY DEF Routines!Single
<1>2. /\ Places("rev_parse_short_head") = 1 .. 6
      /\ Len(Routines!Steps("rev_parse_short_head")) = 6
  BY Labels_rev_parse_short_head
<1>3. /\ Labelled("rev_parse_short_head", "out") = {4}
      /\ Labelled("rev_parse_short_head", "exit") = {6}
  BY Labels_rev_parse_short_head
<1> USE <1>1, RoutinesLimits DEF Routines!get_rev_parse_short_head, Said,
   Said_rev_parse_short_head, TellsOf
<1>4. TellsOf("rev_parse_short_head", 1, Routines!get_rev_parse_short_head[1])
  BY <1>3
<1>5. TellsOf("rev_parse_short_head", 2, Routines!get_rev_parse_short_head[2])
  BY <1>3
<1>6. TellsOf("rev_parse_short_head", 3, Routines!get_rev_parse_short_head[3])
  OBVIOUS
<1>7. TellsOf("rev_parse_short_head", 4, Routines!get_rev_parse_short_head[4])
  OBVIOUS
<1>8. TellsOf("rev_parse_short_head", 5, Routines!get_rev_parse_short_head[5])
  OBVIOUS
<1>9. TellsOf("rev_parse_short_head", 6, Routines!get_rev_parse_short_head[6])
  BY <1>3
<1> HIDE <1>1, RoutinesLimits DEF Routines!get_rev_parse_short_head, Said,
   Said_rev_parse_short_head, TellsOf
<1>10. \A p \in 1 .. 6 : TellsOf("rev_parse_short_head", p, Routines!get_rev_parse_short_head[p])
  BY <1>4, <1>5, <1>6, <1>7, <1>8, <1>9
<1>11. Routines!Steps("rev_parse_short_head") = Routines!get_rev_parse_short_head
  BY DEF Routines!Steps
<1> QED
  BY <1>10, <1>11, <1>2 DEF Tells

\* get_symbolic_ref reports success when its record is written, and only then.
LEMMA Tells_origin_head == \A p \in Places("origin_head") : Tells("origin_head", p)
<1>1. "origin_head" \in Routines!Single
  BY DEF Routines!Single
<1>2. /\ Places("origin_head") = 1 .. 8
      /\ Len(Routines!Steps("origin_head")) = 8
  BY Labels_origin_head
<1>3. /\ Labelled("origin_head", "none") = {6}
      /\ Labelled("origin_head", "out") = {7}
      /\ Labelled("origin_head", "exit") = {8}
  BY Labels_origin_head
<1> USE <1>1, RoutinesLimits DEF Routines!get_symbolic_ref, Said, Said_origin_head, TellsOf
<1>4. TellsOf("origin_head", 1, Routines!get_symbolic_ref[1])
  BY <1>3
<1>5. TellsOf("origin_head", 2, Routines!get_symbolic_ref[2])
  BY <1>3
<1>6. TellsOf("origin_head", 3, Routines!get_symbolic_ref[3])
  BY <1>3
<1>7. TellsOf("origin_head", 4, Routines!get_symbolic_ref[4])
  OBVIOUS
<1>8. TellsOf("origin_head", 5, Routines!get_symbolic_ref[5])
  BY <1>3
<1>9. TellsOf("origin_head", 6, Routines!get_symbolic_ref[6])
  OBVIOUS
<1>10. TellsOf("origin_head", 7, Routines!get_symbolic_ref[7])
  OBVIOUS
<1>11. TellsOf("origin_head", 8, Routines!get_symbolic_ref[8])
  BY <1>3
<1> HIDE <1>1, RoutinesLimits DEF Routines!get_symbolic_ref, Said, Said_origin_head, TellsOf
<1>12. \A p \in 1 .. 8 : TellsOf("origin_head", p, Routines!get_symbolic_ref[p])
  BY <1>4, <1>5, <1>6, <1>7, <1>8, <1>9, <1>10, <1>11
<1>13. Routines!Steps("origin_head") = Routines!get_symbolic_ref
  BY DEF Routines!Steps
<1> QED
  BY <1>12, <1>13, <1>2 DEF Tells

\* get_upstream_branch reports success when its record is written, and only then.
LEMMA Tells_upstream_branch_master == \A p \in Places("upstream_branch_master") :
                Tells("upstream_branch_master", p)
<1>1. "upstream_branch_master" \in Routines!Single
  BY DEF Routines!Single
<1>2. /\ Places("upstream_branch_master") = 1 .. 7
      /\ Len(Routines!Steps("upstream_branch_master")) = 7
  BY Labels_upstream_branch_master
<1>3. /\ Labelled("upstream_branch_master", "out") = {5}
      /\ Labelled("upstream_branch_master", "exit") = {7}
  BY Labels_upstream_branch_master
<1> USE <1>1, RoutinesLimits DEF Routines!get_upstream_branch, Said, Said_upstream_branch_master,
   TellsOf
<1>4. TellsOf("upstream_branch_master", 1, Routines!get_upstream_branch[1])
  BY <1>3
<1>5. TellsOf("upstream_branch_master", 2, Routines!get_upstream_branch[2])
  BY <1>3
<1>6. TellsOf("upstream_branch_master", 3, Routines!get_upstream_branch[3])
  BY <1>3
<1>7. TellsOf("upstream_branch_master", 4, Routines!get_upstream_branch[4])
  OBVIOUS
<1>8. TellsOf("upstream_branch_master", 5, Routines!get_upstream_branch[5])
  OBVIOUS
<1>9. TellsOf("upstream_branch_master", 6, Routines!get_upstream_branch[6])
  OBVIOUS
<1>10. TellsOf("upstream_branch_master", 7, Routines!get_upstream_branch[7])
  BY <1>3
<1> HIDE <1>1, RoutinesLimits DEF Routines!get_upstream_branch, Said,
   Said_upstream_branch_master, TellsOf
<1>11. \A p \in 1 .. 7 : TellsOf("upstream_branch_master", p, Routines!get_upstream_branch[p])
  BY <1>4, <1>5, <1>6, <1>7, <1>8, <1>9, <1>10
<1>12. Routines!Steps("upstream_branch_master") = Routines!get_upstream_branch
  BY DEF Routines!Steps
<1> QED
  BY <1>11, <1>12, <1>2 DEF Tells

\* git_rev_head reports success when its record is written, and only then.
LEMMA Tells_rev_head == \A p \in Places("rev_head") : Tells("rev_head", p)
<1>1. "rev_head" \in Routines!Single
  BY DEF Routines!Single
<1>2. /\ Places("rev_head") = 1 .. 8
      /\ Len(Routines!Steps("rev_head")) = 8
  BY Labels_rev_head
<1>3. /\ Labelled("rev_head", "none") = {6}
      /\ Labelled("rev_head", "exit") = {8}
  BY Labels_rev_head
<1> USE <1>1, RoutinesLimits DEF Routines!git_rev_head, Said, Said_rev_head, TellsOf
<1>4. TellsOf("rev_head", 1, Routines!git_rev_head[1])
  BY <1>3
<1>5. TellsOf("rev_head", 2, Routines!git_rev_head[2])
  BY <1>3
<1>6. TellsOf("rev_head", 3, Routines!git_rev_head[3])
  OBVIOUS
<1>7. TellsOf("rev_head", 4, Routines!git_rev_head[4])
  OBVIOUS
<1>8. TellsOf("rev_head", 5, Routines!git_rev_head[5])
  BY <1>3
<1>9. TellsOf("rev_head", 6, Routines!git_rev_head[6])
  OBVIOUS
<1>10. TellsOf("rev_head", 7, Routines!git_rev_head[7])
  OBVIOUS
<1>11. TellsOf("rev_head", 8, Routines!git_rev_head[8])
  BY <1>3
<1> HIDE <1>1, RoutinesLimits DEF Routines!git_rev_head, Said, Said_rev_head, TellsOf
<1>12. \A p \in 1 .. 8 : TellsOf("rev_head", p, Routines!git_rev_head[p])
  BY <1>4, <1>5, <1>6, <1>7, <1>8, <1>9, <1>10, <1>11
<1>13. Routines!Steps("rev_head") = Routines!git_rev_head
  BY DEF Routines!Steps
<1> QED
  BY <1>12, <1>13, <1>2 DEF Tells

\* git_symbolic_ref_short_head reports success when its record is written, and only then.
LEMMA Tells_symbolic_ref_short_head == \A p \in Places("symbolic_ref_short_head") :
                Tells("symbolic_ref_short_head", p)
<1>1. "symbolic_ref_short_head" \in Routines!Single
  BY DEF Routines!Single
<1>2. /\ Places("symbolic_ref_short_head") = 1 .. 15
      /\ Len(Routines!Steps("symbolic_ref_short_head")) = 15
  BY Labels_symbolic_ref_short_head
<1>3. /\ Labelled("symbolic_ref_short_head", "unborn") = {9}
      /\ Labelled("symbolic_ref_short_head", "none") = {13}
      /\ Labelled("symbolic_ref_short_head", "exit") = {15}
  BY Labels_symbolic_ref_short_head
<1> USE <1>1, RoutinesLimits DEF Routines!git_symbolic_ref_short_head, Said,
   Said_symbolic_ref_short_head, TellsOf
<1>4. TellsOf("symbolic_ref_short_head", 1, Routines!git_symbolic_ref_short_head[1])
  BY <1>3
<1>5. TellsOf("symbolic_ref_short_head", 2, Routines!git_symbolic_ref_short_head[2])
  BY <1>3
<1>6. TellsOf("symbolic_ref_short_head", 3, Routines!git_symbolic_ref_short_head[3])
  BY <1>3
<1>7. TellsOf("symbolic_ref_short_head", 4, Routines!git_symbolic_ref_short_head[4])
  BY <1>3
<1>8. TellsOf("symbolic_ref_short_head", 5, Routines!git_symbolic_ref_short_head[5])
  OBVIOUS
<1>9. TellsOf("symbolic_ref_short_head", 6, Routines!git_symbolic_ref_short_head[6])
  OBVIOUS
<1>10. TellsOf("symbolic_ref_short_head", 7, Routines!git_symbolic_ref_short_head[7])
  OBVIOUS
<1>11. TellsOf("symbolic_ref_short_head", 8, Routines!git_symbolic_ref_short_head[8])
  BY <1>3
<1>12. TellsOf("symbolic_ref_short_head", 9, Routines!git_symbolic_ref_short_head[9])
  OBVIOUS
<1>13. TellsOf("symbolic_ref_short_head", 10, Routines!git_symbolic_ref_short_head[10])
  OBVIOUS
<1>14. TellsOf("symbolic_ref_short_head", 11, Routines!git_symbolic_ref_short_head[11])
  OBVIOUS
<1>15. TellsOf("symbolic_ref_short_head", 12, Routines!git_symbolic_ref_short_head[12])
  BY <1>3
<1>16. TellsOf("symbolic_ref_short_head", 13, Routines!git_symbolic_ref_short_head[13])
  OBVIOUS
<1>17. TellsOf("symbolic_ref_short_head", 14, Routines!git_symbolic_ref_short_head[14])
  OBVIOUS
<1>18. TellsOf("symbolic_ref_short_head", 15, Routines!git_symbolic_ref_short_head[15])
  BY <1>3
<1> HIDE <1>1, RoutinesLimits DEF Routines!git_symbolic_ref_short_head, Said,
   Said_symbolic_ref_short_head, TellsOf
<1>19. \A p \in 1 .. 15 :
           TellsOf("symbolic_ref_short_head", p, Routines!git_symbolic_ref_short_head[p])
  BY <1>4, <1>5, <1>6, <1>7, <1>8, <1>9, <1>10, <1>11, <1>12, <1>13, <1>14,
     <1>15, <1>16, <1>17, <1>18
<1>20. Routines!Steps("symbolic_ref_short_head") = Routines!git_symbolic_ref_short_head
  BY DEF Routines!Steps
<1> QED
  BY <1>19, <1>20, <1>2 DEF Tells

\* get_branch_upstream_name reports success when its record is written, and only then.
LEMMA Tells_branch_upstream_name == \A p \in Places("branch_upstream_name") :
                Tells("branch_upstream_name", p)
<1>1. "branch_upstream_name" \in Routines!Single
  BY DEF Routines!Single
<1>2. /\ Places("branch_upstream_name") = 1 .. 9
      /\ Len(Routines!Steps("branch_upstream_name")) = 9
  BY Labels_branch_upstream_name
<1>3. /\ Labelled("branch_upstream_name", "out") = {6}
      /\ Labelled("branch_upstream_name", "none") = {8}
      /\ Labelled("branch_upstream_name", "exit") = {9}
  BY Labels_branch_upstream_name
<1> USE <1>1, RoutinesLimits DEF Routines!get_branch_upstream_name, Said,
   Said_branch_upstream_name, TellsOf
<1>4. TellsOf("branch_upstream_name", 1, Routines!get_branch_upstream_name[1])
  BY <1>3
<1>5. TellsOf("branch_upstream_name", 2, Routines!get_branch_upstream_name[2])
  BY <1>3
<1>6. TellsOf("branch_upstream_name", 3, Routines!get_branch_upstream_name[3])
  OBVIOUS
<1>7. TellsOf("branch_upstream_name", 4, Routines!get_branch_upstream_name[4])
  BY <1>3
<1>8. TellsOf("branch_upstream_name", 5, Routines!get_branch_upstream_name[5])
  OBVIOUS
<1>9. TellsOf("branch_upstream_name", 6, Routines!get_branch_upstream_name[6])
  OBVIOUS
<1>10. TellsOf("branch_upstream_name", 7, Routines!get_branch_upstream_name[7])
  BY <1>3
<1>11. TellsOf("branch_upstream_name", 8, Routines!get_branch_upstream_name[8])
  OBVIOUS
<1>12. TellsOf("branch_upstream_name", 9, Routines!get_branch_upstream_name[9])
  BY <1>3
<1> HIDE <1>1, RoutinesLimits DEF Routines!get_branch_upstream_name, Said,
   Said_branch_upstream_name, TellsOf
<1>13. \A p \in 1 .. 9 : TellsOf("branch_upstream_name", p, Routines!get_branch_upstream_name[p])
  BY <1>4, <1>5, <1>6, <1>7, <1>8, <1>9, <1>10, <1>11, <1>12
<1>14. Routines!Steps("branch_upstream_name") = Routines!get_branch_upstream_name
  BY DEF Routines!Steps
<1> QED
  BY <1>13, <1>14, <1>2 DEF Tells

\* append_branch_record reports success when its record is written, and only then.
LEMMA Tells_branch_record == \A p \in Places("branch_record") : Tells("branch_record", p)
<1>1. "branch_record" \in Routines!Single
  BY DEF Routines!Single
<1>2. /\ Places("branch_record") = 1 .. 12
      /\ Len(Routines!Steps("branch_record")) = 12
  BY Labels_branch_record
<1>3. /\ Labelled("branch_record", "oid") = {3}
      /\ Labelled("branch_record", "summary") = {7}
      /\ Labelled("branch_record", "write") = {8}
      /\ Labelled("branch_record", "out") = {10}
  BY Labels_branch_record
<1>4. Labelled("branch_record", "exit") = {12}
  BY Labels_branch_record
<1> USE <1>1, RoutinesLimits DEF Routines!append_branch_record, Said, Said_branch_record, TellsOf
<1>5. TellsOf("branch_record", 1, Routines!append_branch_record[1])
  BY <1>3
<1>6. TellsOf("branch_record", 2, Routines!append_branch_record[2])
  BY <1>3
<1>7. TellsOf("branch_record", 3, Routines!append_branch_record[3])
  BY <1>3
<1>8. TellsOf("branch_record", 4, Routines!append_branch_record[4])
  BY <1>3
<1>9. TellsOf("branch_record", 5, Routines!append_branch_record[5])
  BY <1>3
<1>10. TellsOf("branch_record", 6, Routines!append_branch_record[6])
  BY <1>3
<1>11. TellsOf("branch_record", 7, Routines!append_branch_record[7])
  BY <1>3
<1>12. TellsOf("branch_record", 8, Routines!append_branch_record[8])
  OBVIOUS
<1>13. TellsOf("branch_record", 9, Routines!append_branch_record[9])
  OBVIOUS
<1>14. TellsOf("branch_record", 10, Routines!append_branch_record[10])
  OBVIOUS
<1>15. TellsOf("branch_record", 11, Routines!append_branch_record[11])
  OBVIOUS
<1>16. TellsOf("branch_record", 12, Routines!append_branch_record[12])
  BY <1>4
<1> HIDE <1>1, RoutinesLimits DEF Routines!append_branch_record, Said, Said_branch_record, TellsOf
<1>17. \A p \in 1 .. 12 : TellsOf("branch_record", p, Routines!append_branch_record[p])
  BY <1>5, <1>6, <1>7, <1>8, <1>9, <1>10, <1>11, <1>12, <1>13, <1>14, <1>15,
     <1>16
<1>18. Routines!Steps("branch_record") = Routines!append_branch_record
  BY DEF Routines!Steps
<1> QED
  BY <1>17, <1>18, <1>2 DEF Tells

HIDE DEF Codes, Fresh, Open, Owed, Told, Routines!Try, Routines!TryWith, Routines!Ask,
   Routines!AskWith, Routines!Find, Routines!Next_, Routines!More, Routines!Limit, Routines!If,
   Routines!Put, Routines!Free, Routines!Null, Routines!Give, Routines!Count, Routines!Goto,
   Routines!Ok, Routines!Error, Routines!Finished, Routines!Exit, Routines!Op, Routines!At

\* Every step of a routine that writes one record or a list keeps what is said.
LEMMA RoutinesTell == \A name \in Tellers : \A p \in Places(name) : Tells(name, p)
BY Tells_config_list_z, Tells_head_subject, Tells_diff_patch, Tells_staged, Tells_stash_oid,
   Tells_branch_list, Tells_rev_parse_verify, Tells_log, Tells_rev_parse_short_head,
   Tells_origin_head, Tells_upstream_branch_master, Tells_rev_head,
   Tells_symbolic_ref_short_head, Tells_branch_upstream_name, Tells_branch_record
   DEF Tellers, Routines!Single

-----------------------------------------------------------------------------
(* A step from one place to the next.                                      *)

Pointer == {"null", "live", "dangling"}

\* The pointers are what the table says of the place.
PtrAt(name, p, pt) ==
    \A h \in Routines!Handles :
        /\ pt[h] = "live" => Held(name, "may", h, p)
        /\ Held(name, "must", h, p) => pt[h] = "live"
        /\ Held(name, "sound", h, p) => pt[h] # "dangling"

\* What the invariant says of a call that has failed.
NextFailed == \E x \in v9 : x[1] = "next"
TagNamesFailed == <<"try", "tag_names">> \in v9

\* The commit of get_tag_desc is dangling where it is freed, where that place
\* leads, and elsewhere only after git_tag_list has failed.
CommitFreed ==
    v1 = "tag_desc" =>
        /\ v2 = 40 => TagNamesFailed
        /\ v2 \in 1..36 \cup 38..46 /\ v3["commit"] = "dangling" => TagNamesFailed

\* The inductive invariant of the routines.
RoutinesInv ==
    /\ Routines!TypeOK
    /\ Routines!Running => PtrAt(v1, v2, v3)
    /\ Routines!Running /\ v1 \in Tellers => Said(v1, v2, v4, v5, v6, NextFailed)
    /\ CommitFreed
    /\ Routines!NoMisuse
    /\ ~Routines!Running => \A h \in Routines!Handles : v3[h] # "live"
    /\ ~Routines!Running /\ v1 \in Routines!Single => Told(v4, v5)
    /\ ~Routines!Running /\ v1 \in Tellers \ Routines!Single /\ NextFailed => v4 = "error"
    /\ v1 = "log" => v5 <= LogLimit

\* What CommitFreed needs of the steps of get_tag_desc.
TagFlow(p) ==
    LET s == Routines!get_tag_desc[p]
    IN  /\ s.op = "free" /\ s.h = "commit" => p \in {36, 40, 46}
        /\ p = 37 => s.op = "null" /\ s.h = "commit"
        /\ p = 39 => s.op = "goto"
        /\ \A q \in 1..52 : s.op \in Jumping /\ Routines!get_tag_desc[q].at = s.to =>
              /\ q # 37
              /\ p \in 47..52 => q \in 47..52
              /\ q = 40 => s.op = "try" /\ s.h = "tag_names"
        /\ s.op # "find"

\* Where get_tag_desc frees its commit, and where its jumps lead.
LEMMA TagDescFlows == \A p \in 1..52 : TagFlow(p)
<1> USE DEF Jumping, Called, Routines!get_tag_desc,
         Routines!Try, Routines!TryWith, Routines!Ask, Routines!AskWith, Routines!Find,
             Routines!Next_, Routines!More, Routines!Limit, Routines!If, Routines!Put,
             Routines!Free, Routines!Null, Routines!Give,
         Routines!Count, Routines!Goto, Routines!Ok, Routines!Error, Routines!Finished,
             Routines!Exit, Routines!Op, Routines!At
<1>1. \A p \in 1..52 :
        Routines!get_tag_desc[p].op = "free" /\ Routines!get_tag_desc[p].h = "commit" =>
          p \in {36, 40, 46}
  OBVIOUS
<1>2. /\ Routines!get_tag_desc[37].op = "null" /\ Routines!get_tag_desc[37].h = "commit"
      /\ Routines!get_tag_desc[39].op = "goto"
  OBVIOUS
<1>3. \A p \in 1..52 : Routines!get_tag_desc[p].op # "find"
  OBVIOUS
<1>4. /\ Routines!get_tag_desc[37].at = "-"
      /\ \A p \in 1..52 : Routines!get_tag_desc[p].op \in Jumping =>
             Routines!get_tag_desc[p].to # "-"
  OBVIOUS
<1>5. Routines!get_tag_desc[40].at = "list"
  OBVIOUS
<1>6. \A p \in 1..52 :
        Routines!get_tag_desc[p].to = "list" =>
          Routines!get_tag_desc[p].op = "try" /\ Routines!get_tag_desc[p].h = "tag_names"
  OBVIOUS
<1>7. \A p \in 47..52 :
        Routines!get_tag_desc[p].op \in Jumping => Routines!get_tag_desc[p].to = "exit"
  OBVIOUS
<1>8. \A q \in 1..52 : Routines!get_tag_desc[q].at = "exit" => q \in 47..52
  OBVIOUS
<1> HIDE DEF Jumping, Called, Routines!get_tag_desc,
         Routines!Try, Routines!TryWith, Routines!Ask, Routines!AskWith, Routines!Find,
             Routines!Next_, Routines!More, Routines!Limit, Routines!If, Routines!Put,
             Routines!Free, Routines!Null, Routines!Give,
         Routines!Count, Routines!Goto, Routines!Ok, Routines!Error, Routines!Finished,
             Routines!Exit, Routines!Op, Routines!At
<1>9. ASSUME NEW p \in 1..52, NEW q \in 1..52,
             Routines!get_tag_desc[p].op \in Jumping,
             Routines!get_tag_desc[q].at = Routines!get_tag_desc[p].to
      PROVE  /\ q # 37
             /\ p \in 47..52 => q \in 47..52
             /\ q = 40 =>
                  Routines!get_tag_desc[p].op = "try" /\ Routines!get_tag_desc[p].h = "tag_names"
  <2>1. q # 37
    BY <1>4, <1>9
  <2>2. p \in 47..52 => q \in 47..52
    BY <1>7, <1>8, <1>9
  <2>3. q = 40 => Routines!get_tag_desc[p].op = "try" /\ Routines!get_tag_desc[p].h = "tag_names"
    BY <1>5, <1>6, <1>9
  <2> QED
    BY <2>1, <2>2, <2>3
<1> SUFFICES ASSUME NEW p \in 1..52 PROVE TagFlow(p)
  OBVIOUS
<1>10. Routines!get_tag_desc[p].op = "free" /\ Routines!get_tag_desc[p].h = "commit" =>
           p \in {36, 40, 46}
  BY <1>1
<1>11. /\ p = 37 => Routines!get_tag_desc[p].op = "null" /\ Routines!get_tag_desc[p].h = "commit"
       /\ p = 39 => Routines!get_tag_desc[p].op = "goto"
  BY <1>2
<1> QED
  BY <1>3, <1>9, <1>10, <1>11 DEF TagFlow

\* A routine starts with nothing written, counted or failed.
LEMMA RoutineSaidFirst ==
  ASSUME NEW name \in Tellers
  PROVE  Said(name, 1, "ok", 0, 0, FALSE)
BY RoutinesLimits DEF Tellers, Routines!Single, Said, Said_upstream_branch_master,
   Said_rev_parse_short_head, Said_origin_head, Said_stash_oid, Said_rev_parse_verify,
   Said_branch_record, Said_diff_patch, Said_staged, Said_head_subject, Said_rev_head,
   Said_branch_upstream_name, Said_symbolic_ref_short_head, Said_config_list_z, Said_branch_list,
   Said_log,
   Fresh, Open, Owed, Told

\* What is known of the step that runs.
LEMMA RoutineAtStep ==
  ASSUME RoutinesInv, Routines!Running
  PROVE  /\ v1 \in Routines!Routines /\ v2 \in Int /\ v2 \in Places(v1)
         /\ Flow(v1, v2)
         /\ PtrAt(v1, v2, v3)
         /\ v1 \in Tellers => Tells(v1, v2)
         /\ Len(Routines!Steps(v1)) \in Nat
<1>1. v1 \in Routines!Routines /\ v2 \in 0 .. Len(Routines!Steps(v1)) /\ v2 # 0
  BY DEF RoutinesInv, Routines!TypeOK, Routines!Running
<1>2. Flows(v1)
  BY <1>1, RoutinesFlow
<1>3. Len(Routines!Steps(v1)) \in Nat
  BY <1>2 DEF Flows
<1>4. v2 \in Places(v1)
  BY <1>1, <1>3 DEF Places
<1> QED
  BY <1>1, <1>2, <1>3, <1>4, RoutinesTell DEF RoutinesInv, Flows

\* A label that a step names is at a place.
LEMMA RoutineLabel ==
  ASSUME NEW l, Labelled(v1, l) # {}
  PROVE  Routines!Label(l) \in Labelled(v1, l)
<1>1. PICK q \in Places(v1) : Routines!Steps(v1)[q].at = l
  BY DEF Labelled
<1> QED
  BY <1>1 DEF Routines!Label, Labelled, Places

\* Pointers that a step leaves alone.
LEMMA PointersStay ==
  ASSUME NEW name, NEW p, NEW q, NEW pt, PtrAt(name, p, pt), Stays(name, p, q)
  PROVE  PtrAt(name, q, pt)
BY DEF PtrAt, Stays

\* A pointer that a call sets.
LEMMA PointersGain ==
  ASSUME NEW name, NEW p, NEW q, NEW pt \in [Routines!Handles -> Pointer], NEW g,
         PtrAt(name, p, pt), Gains(name, p, q, g)
  PROVE  PtrAt(name, q, IF g \in Routines!Handles THEN [pt EXCEPT ![g] = "live"] ELSE pt)
BY DEF PtrAt, Gains, Pointer

\* A pointer that is freed, set to null or given away.
LEMMA PointersDrop ==
  ASSUME NEW name, NEW p, NEW q, NEW pt \in [Routines!Handles -> Pointer],
             NEW g \in Routines!Handles,
         NEW to \in {"null", "dangling"},
         PtrAt(name, p, pt), Drops(name, p, q, g),
         to = "dangling" => ~Held(name, "sound", g, q)
  PROVE  PtrAt(name, q, [pt EXCEPT ![g] = to])
BY DEF PtrAt, Drops, Pointer

\* libgit2 may clear a dangling pointer when its call fails.
LEMMA PointersClear ==
  ASSUME NEW name, NEW p, NEW pt \in [Routines!Handles -> Pointer], NEW g \in Routines!Handles,
         PtrAt(name, p, pt), pt[g] = "dangling"
  PROVE  PtrAt(name, p, [pt EXCEPT ![g] = "null"])
BY DEF PtrAt, Pointer

\* The step of get_tag_desc that runs, and its labels.
LEMMA TagDescStep ==
  ASSUME RoutinesInv, Routines!Running, v1 = "tag_desc"
  PROVE  /\ v2 \in 1 .. 52 /\ TagFlow(v2) /\ Routines!Step = Routines!get_tag_desc[v2]
         /\ \A l : Labelled(v1, l) = {q \in 1 .. 52 : Routines!get_tag_desc[q].at = l}
<1>1. Routines!Steps("tag_desc") = Routines!get_tag_desc
  BY DEF Routines!Steps
<1>2. Len(Routines!get_tag_desc) = 52
  BY DEF Routines!get_tag_desc
<1>3. v2 \in 1 .. 52
  BY <1>1, <1>2, RoutineAtStep DEF Places
<1> QED
  BY <1>1, <1>2, <1>3, TagDescFlows DEF Routines!Step, Labelled, Places

\* A step of get_tag_desc to the next place, which frees no commit.
LEMMA TagDescOn ==
  ASSUME RoutinesInv, Routines!Running, Routines!Step.op # "free", v1' = v1, v2' = v2 + 1,
         \A h \in Routines!Handles : v3'[h] = "dangling" => v3[h] = "dangling",
         Routines!Step.op = "null" /\ Routines!Step.h = "commit" => v3'["commit"] = "null",
         Routines!Step.op # "goto",
         TagNamesFailed => TagNamesFailed'
  PROVE  CommitFreed'
<1> SUFFICES ASSUME v1 = "tag_desc" PROVE CommitFreed'
  BY DEF CommitFreed
<1>1. v2 \in 1 .. 52 /\ TagFlow(v2) /\ Routines!Step = Routines!get_tag_desc[v2]
  BY TagDescStep
<1>2. v2 # 39
  BY <1>1 DEF TagFlow
<1>3. v2 = 37 => v3'["commit"] = "null"
  BY <1>1 DEF TagFlow
<1>4. "commit" \in Routines!Handles
  BY DEF Routines!Handles
<1> QED
  BY <1>1, <1>2, <1>3, <1>4 DEF RoutinesInv, CommitFreed

\* A step of get_tag_desc that jumps to a label.
LEMMA TagDescTo ==
  ASSUME RoutinesInv, Routines!Running, Routines!Step.op \in Jumping, v1' = v1,
         v2' \in Labelled(v1, Routines!Step.to),
         \A h \in Routines!Handles : v3'[h] = "dangling" => v3[h] = "dangling",
         TagNamesFailed => TagNamesFailed',
         Routines!Step.op = "try" /\ Routines!Step.h = "tag_names" => TagNamesFailed'
  PROVE  CommitFreed'
<1> SUFFICES ASSUME v1 = "tag_desc" PROVE CommitFreed'
  BY DEF CommitFreed
<1>1. /\ v2 \in 1 .. 52 /\ TagFlow(v2) /\ Routines!Step = Routines!get_tag_desc[v2]
      /\ v2' \in 1 .. 52 /\ Routines!get_tag_desc[v2'].at = Routines!Step.to
  BY TagDescStep
<1>2. /\ v2' # 37
      /\ v2 \in 47 .. 52 => v2' \in 47 .. 52
      /\ v2' = 40 => TagNamesFailed'
  BY <1>1 DEF TagFlow
<1>3. v2 # 37
  BY <1>1 DEF TagFlow, Jumping, Called
<1>4. "commit" \in Routines!Handles
  BY DEF Routines!Handles
<1> QED
  BY <1>1, <1>2, <1>3, <1>4 DEF RoutinesInv, CommitFreed

\* A step reads only what is there and loses nothing; the one handle that may
\* be freed twice is the commit of get_tag_desc.
LEMMA RoutineUses ==
  ASSUME RoutinesInv, Routines!Running
  PROVE  /\ Routines!Step.op # "free" => Routines!Misuse(Routines!Step) = {}
         /\ Routines!Step.op \in Called \cup {"null"} => Routines!Lost(Routines!Step.h) = {}
         /\ Routines!Step.op = "free" /\ Routines!Misuse(Routines!Step) # {} =>
               /\ v1 = "tag_desc" /\ TagNamesFailed
               /\ Routines!Misuse(Routines!Step) = {<<"free", "commit">>}
<1>1. Flow(v1, v2) /\ PtrAt(v1, v2, v3)
  BY RoutineAtStep
<1>2. Routines!Step.uses \in Routines!Handles => v3[Routines!Step.uses] = "live"
  BY <1>1 DEF Flow, FlowOf, PtrAt, Routines!Step
<1>3. Routines!Step.op \in Called \cup {"null"} => Routines!Lost(Routines!Step.h) = {}
  BY <1>1 DEF Flow, FlowOf, PtrAt, Routines!Step, Routines!Lost
<1>4. Routines!Step.op # "free" => Routines!Misuse(Routines!Step) = {}
  BY <1>2 DEF Routines!Misuse
<1>5. ASSUME Routines!Step.op = "free", Routines!Misuse(Routines!Step) # {}
      PROVE  /\ v1 = "tag_desc" /\ TagNamesFailed
             /\ Routines!Misuse(Routines!Step) = {<<"free", "commit">>}
  <2>1. v3[Routines!Step.h] = "dangling" /\
            Routines!Misuse(Routines!Step) = {<<"free", Routines!Step.h>>}
    BY <1>2, <1>5 DEF Routines!Misuse
  <2>2. Routines!Step.h \in Routines!Handles /\ ~Held(v1, "sound", Routines!Step.h, v2)
    BY <1>1, <1>5, <2>1 DEF Flow, FlowOf, PtrAt, Routines!Step
  <2>3. v1 = "tag_desc" /\ v2 = 46 /\ Routines!Step.h = "commit"
    BY <1>1, <1>5, <2>2 DEF Flow, FlowOf, Routines!Step
  <2> QED
    BY <2>1, <2>3 DEF RoutinesInv, CommitFreed
<1> QED
  BY <1>3, <1>4, <1>5

\* Only the closing brace has no step after it.
LEMMA RoutineNextPlace ==
  ASSUME RoutinesInv, Routines!Running, Routines!Step.at # "exit"
  PROVE  v2 + 1 \in Places(v1)
<1>1. Flow(v1, v2) /\ v2 \in Places(v1) /\ Len(Routines!Steps(v1)) \in Nat
  BY RoutineAtStep
<1>2. v2 # Len(Routines!Steps(v1))
  BY <1>1 DEF Flow, FlowOf, Routines!Step
<1> QED
  BY <1>1, <1>2 DEF Places

\* What is said of get_log bounds its records.
LEMMA RoutineLogSaid ==
  ASSUME NEW p, NEW r, NEW o \in Nat, NEW c \in Nat, NEW f, Said("log", p, r, o, c, f)
  PROVE  o <= LogLimit
<1>1. \/ o = c /\ c <= LogLimit
      \/ o = c /\ c < LogLimit
      \/ o = c + 1 /\ c < LogLimit
  BY DEF Said, Said_log
<1> QED
  BY <1>1, RoutinesLimits

\* A step that breaks nothing leaves what may be broken as it was.
LEMMA RoutineSameBroken ==
  ASSUME RoutinesInv, v8' = v8, v1' = v1, TagNamesFailed => TagNamesFailed'
  PROVE  Routines!NoMisuse'
BY DEF RoutinesInv, Routines!NoMisuse, TagNamesFailed

\* The invariant, from its parts, while the routine runs.
LEMMA RoutineStillRuns ==
  ASSUME RoutinesInv, v1' = v1, v2' \in Places(v1),
         v3' \in [Routines!Handles -> Pointer], PtrAt(v1, v2', v3'),
         v4' \in Codes, v5' \in Nat, v6' \in Nat, v7' \in 0 .. MaxItems,
         v1 \in Tellers => Said(v1, v2', v4', v5', v6', NextFailed'),
         CommitFreed', Routines!NoMisuse'
  PROVE  RoutinesInv'
<1>1. v1 \in Routines!Routines
  BY DEF RoutinesInv, Routines!TypeOK
<1>2. Len(Routines!Steps(v1)) \in Nat
  BY <1>1, RoutinesFlow DEF Flows
<1>3. v2' \in 0 .. Len(Routines!Steps(v1)) /\ Routines!Running'
  BY <1>2 DEF Places, Routines!Running
<1>4. v8' \subseteq {"use", "free", "lost"} \X Routines!Handles
  BY DEF Routines!NoMisuse, Routines!Handles
<1>5. Routines!TypeOK'
  BY <1>1, <1>3, <1>4 DEF Routines!TypeOK, Codes, Pointer
<1>6. v1 = "log" => v5' <= LogLimit
  BY RoutineLogSaid DEF Tellers
<1> QED
  BY <1>3, <1>5, <1>6 DEF RoutinesInv

\* The types that the invariant gives the cells.
LEMMA RoutineTyped ==
  ASSUME RoutinesInv
  PROVE  /\ v3 \in [Routines!Handles -> Pointer] /\ v4 \in Codes
         /\ v5 \in Nat /\ v6 \in Nat /\ v7 \in 0 .. MaxItems
         /\ Routines!Running /\ v1 \in Tellers =>
               Said(v1, v2, v4, v5, v6, NextFailed)
BY DEF RoutinesInv, Routines!TypeOK, Codes, Pointer

\* A call succeeds: its handle is gained, and none was lost.
LEMMA RoutineWorks == ASSUME RoutinesInv, Routines!Works PROVE RoutinesInv'
<1>1. Routines!Running /\ Routines!Step.op \in Called /\ v1' = v1 /\ v2' = v2 + 1
  BY DEF Routines!Works, Called
<1>2. /\ Flow(v1, v2) /\ PtrAt(v1, v2, v3)
      /\ v1 \in Tellers => Tells(v1, v2)
  BY <1>1, RoutineAtStep
<1>3. Routines!Step.at # "exit"
  BY <1>1, <1>2 DEF Flow, FlowOf, Routines!Step, Called
<1>4. v2' \in Places(v1)
  BY <1>1, <1>3, RoutineNextPlace
<1>5. v3' = IF Routines!Step.h \in Routines!Handles THEN [v3 EXCEPT ![Routines!Step.h] =
          "live"] ELSE v3
  BY DEF Routines!Works, Routines!Point
<1>6. v3' \in [Routines!Handles -> Pointer]
  BY <1>5, RoutineTyped DEF Pointer
<1>7. PtrAt(v1, v2', v3')
  <2>1. Gains(v1, v2, v2 + 1, Routines!Step.h)
    BY <1>1, <1>2 DEF Flow, FlowOf, Routines!Step
  <2> QED
    BY <1>1, <1>2, <1>5, <2>1, RoutineTyped, PointersGain
<1>8. v4' \in Codes /\ v5' \in Nat /\ v6' \in Nat /\ v7' \in 0 .. MaxItems
  <2>1. v7' \in 0 .. MaxItems
    BY RoutinesLimits, RoutineTyped DEF Routines!Works
  <2> QED
    BY <2>1, RoutineTyped DEF Routines!Works, Codes
<1>9. v9' = v9 /\ NextFailed' = NextFailed /\ TagNamesFailed' = TagNamesFailed
  BY DEF Routines!Works, NextFailed, TagNamesFailed
<1>10. ASSUME v1 \in Tellers
       PROVE  Said(v1, v2', v4', v5', v6', NextFailed')
  <2>1. NextFailed \in BOOLEAN
    BY DEF NextFailed
  <2>2. /\ v4' = (IF Routines!Step.op \in {"try", "find", "next"} THEN "ok" ELSE v4)
        /\ v5' = v5 /\ v6' = v6
    BY DEF Routines!Works
  <2>3. Said(v1, v2, v4, v5, v6, NextFailed) /\ Tells(v1, v2)
    BY <1>1, <1>2, <1>10, RoutineTyped
  <2>4. Said(v1, v2 + 1, v4', v5, v6, NextFailed)
    BY <1>1, <2>1, <2>2, <2>3, RoutineTyped DEF Tells, TellsOf, Routines!Step, Called
  <2> QED
    BY <1>1, <1>9, <2>2, <2>4
<1>11. CommitFreed'
  <2>1. \A h \in Routines!Handles : v3'[h] = "dangling" => v3[h] = "dangling"
    BY <1>5, RoutineTyped
  <2>2. Routines!Step.op # "free" /\ Routines!Step.op # "null" /\ Routines!Step.op # "goto"
    BY <1>1 DEF Called
  <2> QED
    BY <1>1, <1>9, <2>1, <2>2, TagDescOn
<1>12. Routines!NoMisuse'
  <2>1. v8' = v8 \cup Routines!Misuse(Routines!Step) \cup Routines!Lost(Routines!Step.h)
    BY DEF Routines!Works
  <2>2. v8' = v8
    BY <1>1, <2>1, RoutineUses DEF Called
  <2> QED
    BY <1>1, <1>9, <2>2, RoutineSameBroken
<1> QED
  BY <1>1, <1>4, <1>6, <1>7, <1>8, <1>9, <1>10, <1>11, <1>12, RoutineStillRuns

\* A call fails: what its label leads to was prepared for that.
LEMMA RoutineFails == ASSUME RoutinesInv, Routines!Fails PROVE RoutinesInv'
<1>1. Routines!Running /\ Routines!Step.op \in {"try", "ask", "find", "next"} /\ v1' = v1
  BY DEF Routines!Fails
<1>2. /\ Flow(v1, v2) /\ PtrAt(v1, v2, v3)
      /\ v1 \in Tellers => Tells(v1, v2)
  BY <1>1, RoutineAtStep
<1>3. v2' \in Labelled(v1, Routines!Step.to)
  <2>1. Labelled(v1, Routines!Step.to) # {}
    BY <1>1, <1>2 DEF Flow, FlowOf, Routines!Step, Jumping, Called
  <2> QED
    BY <2>1, RoutineLabel DEF Routines!Fails
<1>4. v2' \in Places(v1)
  BY <1>3 DEF Labelled
<1>5. \/ v3' = v3
      \/ /\ Routines!Step.h \in Routines!Handles /\ v3[Routines!Step.h] = "dangling"
         /\ v3' = [v3 EXCEPT ![Routines!Step.h] = "null"]
  BY DEF Routines!Fails, Routines!Point
<1>6. v3' \in [Routines!Handles -> Pointer]
  BY <1>5, RoutineTyped DEF Pointer
<1>7. PtrAt(v1, v2', v3')
  <2>1. PtrAt(v1, v2, v3')
    BY <1>2, <1>5, RoutineTyped, PointersClear
  <2>2. Stays(v1, v2, v2')
    BY <1>1, <1>2, <1>3 DEF Flow, FlowOf, Routines!Step, Jumping, Called
  <2> QED
    BY <2>1, <2>2, PointersStay
<1>8. v4' \in Codes /\ v5' \in Nat /\ v6' \in Nat /\ v7' \in 0 .. MaxItems
  BY RoutineTyped DEF Routines!Fails, Codes
<1>9. /\ NextFailed' = (NextFailed \/ Routines!Step.op = "next")
      /\ TagNamesFailed => TagNamesFailed'
      /\ Routines!Step.op = "try" /\ Routines!Step.h = "tag_names" => TagNamesFailed'
  <2>1. v9' = v9 \cup {<<Routines!Step.op, Routines!Step.h>>}
    BY DEF Routines!Fails
  <2>2. <<Routines!Step.op, Routines!Step.h>>[1] = Routines!Step.op
    OBVIOUS
  <2>3. NextFailed' = (NextFailed \/ Routines!Step.op = "next")
    <3>1. NextFailed' <=> \E x \in v9 \cup {<<Routines!Step.op, Routines!Step.h>>} : x[1] = "next"
      BY <2>1 DEF NextFailed
    <3>2. NextFailed' <=> (NextFailed \/ Routines!Step.op = "next")
      BY <2>2, <3>1 DEF NextFailed
    <3>3. NextFailed \in BOOLEAN /\ NextFailed' \in BOOLEAN
      BY DEF NextFailed
    <3> QED
      BY <3>2, <3>3
  <2> QED
    BY <2>1, <2>3 DEF TagNamesFailed
<1>10. ASSUME v1 \in Tellers
       PROVE  Said(v1, v2', v4', v5', v6', NextFailed')
  <2>1. NextFailed \in BOOLEAN
    BY DEF NextFailed
  <2>2. /\ v4' = (IF Routines!Step.op = "ask" THEN v4 ELSE "error")
        /\ v5' = v5 /\ v6' = v6
    BY DEF Routines!Fails
  <2>3. Said(v1, v2, v4, v5, v6, NextFailed) /\ Tells(v1, v2)
    BY <1>1, <1>2, <1>10, RoutineTyped
  <2>4. CASE Routines!Step.op = "next"
    <3>1. NextFailed' = TRUE
      BY <1>9, <2>4
    <3>2. Said(v1, v2', "error", v5, v6, TRUE)
      BY <1>3, <2>1, <2>3, <2>4, RoutineTyped DEF Tells, TellsOf, Routines!Step
    <3> QED
      BY <2>2, <2>4, <3>1, <3>2
  <2>5. CASE Routines!Step.op # "next"
    <3>1. NextFailed' = NextFailed
      BY <1>9, <2>5, <2>1
    <3>2. Said(v1, v2', v4', v5, v6, NextFailed)
      BY <1>1, <1>3, <2>1, <2>2, <2>3, <2>5, RoutineTyped DEF Tells, TellsOf, Routines!Step
    <3> QED
      BY <2>2, <3>1, <3>2
  <2> QED
    BY <2>4, <2>5
<1>11. CommitFreed'
  <2>1. \A h \in Routines!Handles : v3'[h] = "dangling" => v3[h] = "dangling"
    BY <1>5, RoutineTyped
  <2> QED
    BY <1>1, <1>3, <1>9, <2>1, TagDescTo DEF Jumping, Called
<1>12. Routines!NoMisuse'
  <2>1. v8' = v8 \cup Routines!Misuse(Routines!Step)
    BY DEF Routines!Fails
  <2>2. v8' = v8
    BY <1>1, <2>1, RoutineUses
  <2> QED
    BY <1>1, <1>9, <2>2, RoutineSameBroken
<1> QED
  BY <1>1, <1>4, <1>6, <1>7, <1>8, <1>10, <1>11, <1>12, RoutineStillRuns

\* A step that leaves every pointer and every failure as they were.
LEMMA RoutineLeavesAlone ==
  ASSUME RoutinesInv, Routines!Running, UNCHANGED <<v1, v3, v7, v8, v9>>,
         v2' \in Places(v1), PtrAt(v1, v2', v3),
         v4' \in Codes, v5' \in Nat, v6' \in Nat,
         v1 \in Tellers => Said(v1, v2', v4', v5', v6', NextFailed),
         CommitFreed'
  PROVE  RoutinesInv'
<1>1. NextFailed' = NextFailed /\ (TagNamesFailed => TagNamesFailed')
  BY DEF NextFailed, TagNamesFailed
<1>2. Routines!NoMisuse'
  BY <1>1, RoutineSameBroken
<1> QED
  BY <1>1, <1>2, RoutineTyped, RoutineStillRuns

\* A failure of git_tag_list is remembered.
LEMMA RoutineSameTag ==
  ASSUME v9' = v9
  PROVE  TagNamesFailed => TagNamesFailed'
BY DEF TagNamesFailed

\* A look-up that finds nothing goes where nothing more is expected.
LEMMA RoutineMisses == ASSUME RoutinesInv, Routines!Misses PROVE RoutinesInv'
<1>1. Routines!Running /\ Routines!Step.op = "find" /\ UNCHANGED <<v1, v3, v7, v8, v9>>
  BY DEF Routines!Misses
<1>2. /\ Flow(v1, v2) /\ PtrAt(v1, v2, v3)
      /\ v1 \in Tellers => Tells(v1, v2)
  BY <1>1, RoutineAtStep
<1>3. v2' \in Labelled(v1, Routines!Step.miss)
  <2>1. Labelled(v1, Routines!Step.miss) # {}
    BY <1>1, <1>2 DEF Flow, FlowOf, Routines!Step
  <2> QED
    BY <2>1, RoutineLabel DEF Routines!Misses
<1>4. v2' \in Places(v1)
  BY <1>3 DEF Labelled
<1>5. PtrAt(v1, v2', v3)
  BY <1>1, <1>2, <1>3, PointersStay DEF Flow, FlowOf, Routines!Step
<1>6. v4' = "none" /\ v5' = v5 /\ v6' = v6
  BY DEF Routines!Misses
<1>7. ASSUME v1 \in Tellers
      PROVE  Said(v1, v2', v4', v5', v6', NextFailed)
  <2>1. NextFailed \in BOOLEAN
    BY DEF NextFailed
  <2>2. Said(v1, v2, v4, v5, v6, NextFailed) /\ Tells(v1, v2)
    BY <1>1, <1>2, <1>7, RoutineTyped
  <2>3. Said(v1, v2', "none", v5, v6, NextFailed)
    BY <1>1, <1>3, <2>1, <2>2, RoutineTyped DEF Tells, TellsOf, Routines!Step
  <2> QED
    BY <1>6, <2>3
<1>8. v1 # "tag_desc"
  <2> SUFFICES ASSUME v1 = "tag_desc" PROVE FALSE
    OBVIOUS
  <2>1. v2 \in 1 .. 52 /\ TagFlow(v2) /\ Routines!Step = Routines!get_tag_desc[v2]
    BY <1>1, TagDescStep
  <2> QED
    BY <1>1, <2>1 DEF TagFlow
<1>9. CommitFreed'
  BY <1>1, <1>8 DEF CommitFreed
<1> QED
  BY <1>1, <1>4, <1>5, <1>6, <1>7, <1>9, RoutineTyped, RoutineLeavesAlone DEF Codes

\* The end of a list is not a failure.
LEMMA RoutineEnds == ASSUME RoutinesInv, Routines!Ends PROVE RoutinesInv'
<1>1. /\ Routines!Running /\ Routines!Step.op \in {"next", "more"}
      /\ UNCHANGED <<v1, v3, v7, v8, v9>>
  BY DEF Routines!Ends
<1>2. /\ Flow(v1, v2) /\ PtrAt(v1, v2, v3)
      /\ v1 \in Tellers => Tells(v1, v2)
  BY <1>1, RoutineAtStep
<1>3. v2' \in Labelled(v1, Routines!Step.to)
  <2>1. Labelled(v1, Routines!Step.to) # {}
    BY <1>1, <1>2 DEF Flow, FlowOf, Routines!Step, Jumping, Called
  <2> QED
    BY <2>1, RoutineLabel DEF Routines!Ends
<1>4. v2' \in Places(v1)
  BY <1>3 DEF Labelled
<1>5. PtrAt(v1, v2', v3)
  <2>1. Stays(v1, v2, v2')
    BY <1>1, <1>2, <1>3 DEF Flow, FlowOf, Routines!Step, Jumping, Called
  <2> QED
    BY <1>2, <2>1, PointersStay
<1>6. v4' = (IF Routines!Step.op = "next" THEN "over" ELSE v4) /\ v5' = v5 /\ v6' = v6
  BY DEF Routines!Ends
<1>7. ASSUME v1 \in Tellers
      PROVE  Said(v1, v2', v4', v5', v6', NextFailed)
  <2>1. NextFailed \in BOOLEAN
    BY DEF NextFailed
  <2>2. Said(v1, v2, v4, v5, v6, NextFailed) /\ Tells(v1, v2)
    BY <1>1, <1>2, <1>7, RoutineTyped
  <2>3. CASE Routines!Step.op = "next"
    <3>1. Said(v1, v2', "over", v5, v6, NextFailed)
      BY <1>3, <2>1, <2>2, <2>3, RoutineTyped DEF Tells, TellsOf, Routines!Step
    <3> QED
      BY <1>6, <2>3, <3>1
  <2>4. CASE Routines!Step.op = "more"
    <3>1. Said(v1, v2', v4, v5, v6, NextFailed)
      BY <1>3, <2>1, <2>2, <2>4, RoutineTyped DEF Tells, TellsOf, Routines!Step
    <3> QED
      BY <1>6, <2>4, <3>1
  <2> QED
    BY <1>1, <2>3, <2>4
<1>8. CommitFreed'
  BY <1>1, <1>3, TagDescTo, RoutineSameTag DEF Jumping, Called
<1>9. v4' \in Codes
  BY <1>6, RoutineTyped DEF Codes
<1> QED
  BY <1>1, <1>4, <1>5, <1>6, <1>7, <1>8, <1>9, RoutineTyped, RoutineLeavesAlone

\* A bounded search that reports is the log's.
LEMMA RoutineLimit ==
  ASSUME RoutinesInv, Routines!Running, Routines!Step.op = "limit", v1 \in Tellers
  PROVE  v1 = "log"
BY RoutineAtStep DEF Flow, FlowOf, Routines!Step, Tellers, Routines!Single

\* A jump, or a test whose two ways the table knows.
LEMMA RoutineJumps == ASSUME RoutinesInv, Routines!Jumps PROVE RoutinesInv'
<1>1. /\ Routines!Running /\ Routines!Step.op \in {"goto", "if", "limit"} /\
             Routines!Step.at # "exit"
      /\ UNCHANGED <<v1, v3, v7, v8, v9>>
      /\ v4' = v4 /\ v5' = v5 /\ v6' = v6
  BY DEF Routines!Jumps
<1>2. /\ Flow(v1, v2) /\ PtrAt(v1, v2, v3)
      /\ v1 \in Tellers => Tells(v1, v2)
  BY <1>1, RoutineAtStep
<1>3. v4' \in Codes /\ v5' \in Nat /\ v6' \in Nat
  BY <1>1, RoutineTyped
<1>4. NextFailed \in BOOLEAN
  BY DEF NextFailed
<1>5. v1 \in Tellers =>
        Said(v1, v2, v4, v5, v6, NextFailed) /\ Tells(v1, v2)
  BY <1>1, <1>2, RoutineTyped
<1>6. CASE v2' = Routines!Label(Routines!Step.to) /\ (Routines!Step.op = "if" =>
               v3[Routines!Step.h] # "live")
  <2>1. v2' \in Labelled(v1, Routines!Step.to)
    <3>1. Labelled(v1, Routines!Step.to) # {}
      BY <1>1, <1>2 DEF Flow, FlowOf, Routines!Step, Jumping
    <3> QED
      BY <1>6, <3>1, RoutineLabel
  <2>2. v2' \in Places(v1)
    BY <2>1 DEF Labelled
  <2>3. PtrAt(v1, v2', v3)
    <3>1. CASE Routines!Step.op = "if"
      <4>1. Unset(v1, v2, v2', Routines!Step.h)
        BY <1>2, <2>1, <3>1 DEF Flow, FlowOf, Routines!Step
      <4> QED
        BY <1>2, <1>6, <3>1, <4>1 DEF PtrAt, Unset
    <3>2. CASE Routines!Step.op # "if"
      <4>1. Stays(v1, v2, v2')
        BY <1>1, <1>2, <2>1, <3>2 DEF Flow, FlowOf, Routines!Step, Jumping
      <4> QED
        BY <1>2, <4>1, PointersStay
    <3> QED
      BY <3>1, <3>2
  <2>4. ASSUME v1 \in Tellers
        PROVE  Said(v1, v2', v4', v5', v6', NextFailed)
    <3>1. Said(v1, v2', v4, v5, v6, NextFailed)
      BY <1>1, <1>4, <1>5, <2>1, <2>4, RoutineTyped DEF Tells, TellsOf, Routines!Step
    <3> QED
      BY <1>1, <3>1
  <2>5. CommitFreed'
    BY <1>1, <2>1, TagDescTo, RoutineSameTag DEF Jumping
  <2> QED
    BY <1>1, <1>3, <2>2, <2>3, <2>4, <2>5, RoutineLeavesAlone
<1>7. CASE /\ v2' = v2 + 1 /\ Routines!Step.op # "goto"
           /\ Routines!Step.op = "if" => v3[Routines!Step.h] = "live"
           /\ Routines!Step.op = "limit" => ~(v6 >= Routines!Bound)
  <2>1. v2' \in Places(v1)
    BY <1>1, <1>7, RoutineNextPlace
  <2>2. PtrAt(v1, v2', v3)
    <3>1. CASE Routines!Step.op = "if"
      <4>1. Set(v1, v2, v2 + 1, Routines!Step.h)
        BY <1>2, <3>1 DEF Flow, FlowOf, Routines!Step
      <4> QED
        BY <1>2, <1>7, <3>1, <4>1 DEF PtrAt, Set
    <3>2. CASE Routines!Step.op = "limit"
      <4>1. Stays(v1, v2, v2 + 1)
        BY <1>2, <3>2 DEF Flow, FlowOf, Routines!Step
      <4> QED
        BY <1>2, <1>7, <4>1, PointersStay
    <3> QED
      BY <1>1, <1>7, <3>1, <3>2
  <2>3. ASSUME v1 \in Tellers
        PROVE  Said(v1, v2', v4', v5', v6', NextFailed)
    <3>1. CASE Routines!Step.op = "if"
      <4>1. Said(v1, v2 + 1, v4, v5, v6, NextFailed)
        BY <1>4, <1>5, <2>3, <3>1, RoutineTyped DEF Tells, TellsOf, Routines!Step
      <4> QED
        BY <1>1, <1>7, <4>1
    <3>2. CASE Routines!Step.op = "limit"
      <4>1. v1 = "log"
        BY <1>1, <2>3, <3>2, RoutineLimit
      <4>2. v6 < LogLimit
        BY <1>7, <3>2, <4>1, RoutinesLimits, RoutineTyped DEF Routines!Bound
      <4>3. Said(v1, v2 + 1, v4, v5, v6, NextFailed)
        BY <1>4, <1>5, <2>3, <3>2, <4>2, RoutineTyped DEF Tells, TellsOf, Routines!Step
      <4> QED
        BY <1>1, <1>7, <4>3
    <3> QED
      BY <1>1, <1>7, <3>1, <3>2
  <2>4. CommitFreed'
    BY <1>1, <1>7, TagDescOn, RoutineSameTag
  <2> QED
    BY <1>1, <1>3, <2>1, <2>2, <2>3, <2>4, RoutineLeavesAlone
<1>8. \/ v2' = Routines!Label(Routines!Step.to) /\ (Routines!Step.op = "if" =>
             v3[Routines!Step.h] # "live")
      \/ /\ v2' = v2 + 1 /\ Routines!Step.op # "goto"
         /\ Routines!Step.op = "if" => v3[Routines!Step.h] = "live"
         /\ Routines!Step.op = "limit" => ~(v6 >= Routines!Bound)
  BY DEF Routines!Jumps
<1> QED
  BY <1>6, <1>7, <1>8

\* A free, a reset or a hand-over drops the handle, and only the commit of
\* get_tag_desc may have been dangling.
LEMMA RoutineFrees == ASSUME RoutinesInv, Routines!Frees PROVE RoutinesInv'
<1>1. Routines!Running /\ Routines!Step.op \in {"free", "null", "give"} /\ v1' = v1 /\
          v2' = v2 + 1
  BY DEF Routines!Frees
<1>2. /\ Flow(v1, v2) /\ PtrAt(v1, v2, v3)
      /\ v1 \in Tellers => Tells(v1, v2)
  BY <1>1, RoutineAtStep
<1>3. Routines!Step.at # "exit"
  BY <1>1, <1>2 DEF Flow, FlowOf, Routines!Step
<1>4. v2' \in Places(v1)
  BY <1>1, <1>3, RoutineNextPlace
<1>5. Routines!Step.h \in Routines!Handles
  BY <1>1, <1>2 DEF Flow, FlowOf, Routines!Step
<1> DEFINE to == IF Routines!Step.op = "free" /\
        v3[Routines!Step.h] # "null" THEN "dangling" ELSE "null"
<1>6. v3' = [v3 EXCEPT ![Routines!Step.h] = to]
  BY <1>5 DEF Routines!Frees, Routines!Point
<1>7. v3' \in [Routines!Handles -> Pointer]
  BY <1>6, RoutineTyped DEF Pointer
<1>8. PtrAt(v1, v2', v3')
  <2>1. Drops(v1, v2, v2 + 1, Routines!Step.h)
    BY <1>1, <1>2 DEF Flow, FlowOf, Routines!Step
  <2>2. to = "dangling" => ~Held(v1, "sound", Routines!Step.h, v2 + 1)
    <3>1. to = "dangling" => Routines!Step.op = "free"
      OBVIOUS
    <3> HIDE DEF to
    <3> QED
      BY <1>2, <3>1 DEF Flow, FlowOf, Routines!Step
  <2>3. to \in {"null", "dangling"}
    OBVIOUS
  <2> HIDE DEF to
  <2> QED
    BY <1>1, <1>2, <1>5, <1>6, <2>1, <2>2, <2>3, RoutineTyped, PointersDrop
<1>9. v4' = v4 /\ v5' = v5 /\ v6' = v6 /\ v7' = v7 /\ v9' = v9
  BY DEF Routines!Frees
<1>10. NextFailed' = NextFailed /\ (TagNamesFailed => TagNamesFailed')
  BY <1>9 DEF NextFailed, TagNamesFailed
<1>11. ASSUME v1 \in Tellers
       PROVE  Said(v1, v2', v4', v5', v6', NextFailed')
  <2>1. NextFailed \in BOOLEAN
    BY DEF NextFailed
  <2>2. Said(v1, v2, v4, v5, v6, NextFailed) /\ Tells(v1, v2)
    BY <1>1, <1>2, <1>11, RoutineTyped
  <2>3. Said(v1, v2 + 1, v4, v5, v6, NextFailed)
    BY <1>1, <2>1, <2>2, RoutineTyped DEF Tells, TellsOf, Routines!Step
  <2> QED
    BY <1>1, <1>9, <1>10, <2>3
<1>12. CommitFreed'
  <2> SUFFICES ASSUME v1 = "tag_desc" PROVE CommitFreed'
    BY <1>1 DEF CommitFreed
  <2>1. v2 \in 1 .. 52 /\ TagFlow(v2) /\ Routines!Step = Routines!get_tag_desc[v2]
    BY <1>1, TagDescStep
  <2>2. "commit" \in Routines!Handles
    BY DEF Routines!Handles
  <2>3. v2 # 39
    BY <1>1, <2>1 DEF TagFlow
  <2>4. CASE Routines!Step.h = "commit" /\ Routines!Step.op = "free"
    <3>1. v2 \in {36, 40, 46}
      BY <2>1, <2>4 DEF TagFlow
    <3> QED
      BY <1>1, <1>10, <3>1 DEF RoutinesInv, CommitFreed
  <2>5. CASE Routines!Step.h = "commit" /\ Routines!Step.op # "free"
    <3>1. v3'["commit"] = "null"
      BY <1>6, <2>2, <2>5, RoutineTyped
    <3> QED
      BY <1>1, <2>1, <2>3, <3>1 DEF CommitFreed
  <2>6. CASE Routines!Step.h # "commit"
    <3>1. v3'["commit"] = v3["commit"]
      BY <1>6, <2>2, <2>6, RoutineTyped
    <3>2. v2 # 37
      BY <2>1, <2>6 DEF TagFlow
    <3> QED
      BY <1>1, <1>10, <2>1, <2>3, <3>1, <3>2 DEF RoutinesInv, CommitFreed
  <2> QED
    BY <2>4, <2>5, <2>6
<1>13. Routines!NoMisuse'
  <2>1. v8' = v8 \cup Routines!Misuse(Routines!Step)
                    \cup (IF Routines!Step.op =
                        "null" THEN Routines!Lost(Routines!Step.h) ELSE {})
    BY DEF Routines!Frees
  <2>2. v8' = v8 \cup Routines!Misuse(Routines!Step)
    BY <1>1, <2>1, RoutineUses
  <2>3. CASE Routines!Misuse(Routines!Step) = {}
    BY <1>1, <1>10, <2>2, <2>3, RoutineSameBroken
  <2>4. CASE Routines!Misuse(Routines!Step) # {}
    <3>1. v1 = "tag_desc" /\ TagNamesFailed /\
              Routines!Misuse(Routines!Step) = {<<"free", "commit">>}
      BY <1>1, <2>4, RoutineUses
    <3>2. v8 = {} \/ v8 = {<<"free", "commit">>}
      BY DEF RoutinesInv, Routines!NoMisuse
    <3> QED
      BY <1>1, <1>10, <2>2, <3>1, <3>2 DEF Routines!NoMisuse, TagNamesFailed
  <2> QED
    BY <2>3, <2>4
<1> QED
  BY <1>1, <1>4, <1>7, <1>8, <1>9, <1>11, <1>12, <1>13, RoutineTyped, RoutineStillRuns

\* A step that only writes, sets or counts.
LEMMA RoutinePlain ==
  ASSUME RoutinesInv, Routines!Running, Routines!Step.op \in {"put", "set", "finished", "count"},
         UNCHANGED <<v1, v3, v7, v9, v8>>, v2' = v2 + 1,
         v4' \in Codes, v5' \in Nat, v6' \in Nat,
         v1 \in Tellers => Said(v1, v2', v4', v5', v6', NextFailed)
  PROVE  RoutinesInv'
<1>1. Flow(v1, v2) /\ PtrAt(v1, v2, v3)
  BY RoutineAtStep
<1>2. Routines!Step.at # "exit"
  BY <1>1 DEF Flow, FlowOf, Routines!Step
<1>3. v2' \in Places(v1)
  BY <1>2, RoutineNextPlace
<1>4. PtrAt(v1, v2', v3)
  BY <1>1, PointersStay DEF Flow, FlowOf, Routines!Step
<1>5. CommitFreed'
  BY TagDescOn, RoutineSameTag
<1> QED
  BY <1>3, <1>4, <1>5, RoutineLeavesAlone

\* A record is written where one is owed.
LEMMA RoutineWrites == ASSUME RoutinesInv, Routines!Writes PROVE RoutinesInv'
<1>1. /\ Routines!Running /\ Routines!Step.op = "put" /\ v2' = v2 + 1 /\ v5' = v5 + 1
      /\ UNCHANGED <<v1, v3, v4, v6, v7, v9>>
      /\ v8' = v8 \cup Routines!Misuse(Routines!Step)
  BY DEF Routines!Writes
<1>2. v8' = v8
  BY <1>1, RoutineUses
<1>3. ASSUME v1 \in Tellers
      PROVE  Said(v1, v2', v4', v5', v6', NextFailed)
  <2>1. NextFailed \in BOOLEAN
    BY DEF NextFailed
  <2>2. Said(v1, v2, v4, v5, v6, NextFailed) /\ Tells(v1, v2)
    BY <1>1, <1>3, RoutineTyped, RoutineAtStep
  <2>3. Said(v1, v2 + 1, v4, v5 + 1, v6, NextFailed)
    BY <1>1, <2>1, <2>2, RoutineTyped DEF Tells, TellsOf, Routines!Step
  <2> QED
    BY <1>1, <2>3
<1> QED
  BY <1>1, <1>2, <1>3, RoutineTyped, RoutinePlain

\* The return code follows what was written.
LEMMA RoutineSets == ASSUME RoutinesInv, Routines!Sets PROVE RoutinesInv'
<1>1. /\ Routines!Running /\ Routines!Step.op \in {"set", "finished", "count"} /\ v2' = v2 + 1
      /\ v6' = IF Routines!Step.op = "count" THEN v6 + 1 ELSE v6
      /\ UNCHANGED <<v1, v3, v5, v7, v8, v9>>
  BY DEF Routines!Sets
<1>2. v4' = IF Routines!Step.op = "set" THEN Routines!Step.h
            ELSE IF Routines!Step.op = "finished" /\ v4 = "over" THEN "ok" ELSE v4
  BY DEF Routines!Sets
<1>3. Routines!Step.op = "set" => Routines!Step.h \in {"ok", "error"}
  BY <1>1, RoutineAtStep DEF Flow, FlowOf, Routines!Step
<1>4. v4' \in Codes /\ v6' \in Nat
  BY <1>1, <1>2, <1>3, RoutineTyped DEF Codes
<1>5. ASSUME v1 \in Tellers
      PROVE  Said(v1, v2', v4', v5', v6', NextFailed)
  <2>1. NextFailed \in BOOLEAN
    BY DEF NextFailed
  <2>2. Said(v1, v2, v4, v5, v6, NextFailed) /\ Tells(v1, v2)
    BY <1>1, <1>5, RoutineTyped, RoutineAtStep
  <2>3. CASE Routines!Step.op = "set"
    <3>1. Said(v1, v2 + 1, Routines!Step.h, v5, v6, NextFailed)
      BY <2>1, <2>2, <2>3, RoutineTyped DEF Tells, TellsOf, Routines!Step
    <3> QED
      BY <1>1, <1>2, <2>3, <3>1
  <2>4. CASE Routines!Step.op = "finished"
    <3>1. Said(v1, v2 + 1, IF v4 = "over" THEN "ok" ELSE v4, v5, v6, NextFailed)
      BY <2>1, <2>2, <2>4, RoutineTyped DEF Tells, TellsOf, Routines!Step
    <3> QED
      BY <1>1, <1>2, <2>4, <3>1
  <2>5. CASE Routines!Step.op = "count"
    <3>1. Said(v1, v2 + 1, v4, v5, v6 + 1, NextFailed)
      BY <2>1, <2>2, <2>5, RoutineTyped DEF Tells, TellsOf, Routines!Step
    <3> QED
      BY <1>1, <1>2, <2>5, <3>1
  <2> QED
    BY <1>1, <2>3, <2>4, <2>5
<1> QED
  BY <1>1, <1>4, <1>5, RoutineTyped, RoutinePlain

\* At the closing brace nothing may be held.
LEMMA RoutineReturns == ASSUME RoutinesInv, Routines!Returns PROVE RoutinesInv'
<1>1. /\ Routines!Running /\ Routines!Step.at = "exit" /\ v2' = 0
      /\ UNCHANGED <<v1, v3, v4, v5, v6, v7, v8, v9>>
  BY DEF Routines!Returns
<1>2. /\ Flow(v1, v2) /\ PtrAt(v1, v2, v3) /\ Len(Routines!Steps(v1)) \in Nat
      /\ v1 \in Tellers => Tells(v1, v2)
  BY <1>1, RoutineAtStep
<1>3. \A h \in Routines!Handles : v3'[h] # "live"
  BY <1>1, <1>2 DEF Flow, FlowOf, PtrAt, Routines!Step
<1>4. Routines!TypeOK'
  BY <1>1, <1>2 DEF RoutinesInv, Routines!TypeOK
<1>5. ~Routines!Running'
  BY <1>1 DEF Routines!Running
<1>6. Routines!NoMisuse'
  BY <1>1, RoutineSameBroken, RoutineSameTag
<1>7. CommitFreed'
  BY <1>1 DEF CommitFreed
<1>8. NextFailed' = NextFailed /\ NextFailed \in BOOLEAN
  BY <1>1 DEF NextFailed
<1>9. ASSUME v1 \in Tellers
      PROVE  /\ v1 \in Routines!Single => Told(v4, v5)
             /\ v1 \notin Routines!Single /\ NextFailed => v4 = "error"
  <2>1. Said(v1, v2, v4, v5, v6, NextFailed) /\ Tells(v1, v2)
    BY <1>1, <1>2, <1>9, RoutineTyped
  <2> QED
    BY <1>1, <1>8, <2>1, RoutineTyped DEF Tells, TellsOf, Routines!Step
<1>10. v1' \in Routines!Single => Told(v4', v5')
  BY <1>1, <1>9 DEF Tellers
<1>11. v1' \in Tellers \ Routines!Single /\ NextFailed' => v4' = "error"
  BY <1>1, <1>8, <1>9
<1>12. v1' = "log" => v5' <= LogLimit
  BY <1>1 DEF RoutinesInv
<1> QED
  BY <1>3, <1>4, <1>5, <1>6, <1>7, <1>10, <1>11, <1>12 DEF RoutinesInv

\* A call starts with nothing held, written or failed.
LEMMA RoutineCall == ASSUME RoutinesInv, Routines!Call PROVE RoutinesInv'
<1>1. /\ v1' \in Routines!Routines /\ v2' = 1 /\ v3' = [h \in Routines!Handles |-> "null"]
      /\ v4' = "ok" /\ v5' = 0 /\ v6' = 0 /\ v7' = 0
      /\ v8' = {} /\ v9' = {}
  BY DEF Routines!Call
<1>2. Flows(v1')
  BY <1>1, RoutinesFlow
<1>3. Len(Routines!Steps(v1')) \in Nat /\ 1 \in Places(v1')
  BY <1>2 DEF Flows, Places
<1>4. Routines!TypeOK'
  BY <1>1, <1>2, RoutinesLimits DEF Routines!TypeOK, Flows
<1>5. PtrAt(v1', v2', v3')
  BY <1>1, <1>2, <1>3 DEF Flows, Flow, FlowOf, PtrAt
<1>6. NextFailed' = FALSE
  BY <1>1 DEF NextFailed
<1>7. v1' \in Tellers => Said(v1', v2', v4', v5', v6', NextFailed')
  BY <1>1, <1>6, RoutineSaidFirst
<1>8. CommitFreed'
  <2>1. "commit" \in Routines!Handles
    BY DEF Routines!Handles
  <2> QED
    BY <1>1, <2>1 DEF CommitFreed
<1>9. Routines!NoMisuse' /\ Routines!Running'
  BY <1>1 DEF Routines!NoMisuse, Routines!Running
<1>10. v5' <= LogLimit
  BY <1>1, RoutinesLimits
<1> QED
  BY <1>4, <1>5, <1>7, <1>8, <1>9, <1>10 DEF RoutinesInv

\* No routine runs at first.
LEMMA RoutinesInit == Routines!Init => RoutinesInv
<1> SUFFICES ASSUME Routines!Init PROVE RoutinesInv
  OBVIOUS
<1>1. /\ v1 = "config_list_z" /\ v2 = 0 /\ v3 = [h \in Routines!Handles |-> "null"]
      /\ v4 = "ok" /\ v5 = 0 /\ v6 = 0 /\ v7 = 0 /\ v8 = {} /\ v9 = {}
  BY DEF Routines!Init
<1>2. v1 \in Routines!Routines
  BY <1>1 DEF Routines!Routines
<1>3. Flows(v1)
  BY <1>2, RoutinesFlow
<1>4. Routines!TypeOK
  BY <1>1, <1>2, <1>3, RoutinesLimits DEF Routines!TypeOK, Flows
<1>5. ~Routines!Running /\ Routines!NoMisuse /\ CommitFreed
  BY <1>1 DEF Routines!Running, Routines!NoMisuse, CommitFreed
<1>6. v1 \notin Routines!Single /\ v1 # "log"
  BY <1>1 DEF Routines!Single
<1>7. NextFailed = FALSE
  BY <1>1 DEF NextFailed
<1> QED
  BY <1>1, <1>4, <1>5, <1>6, <1>7 DEF RoutinesInv

\* Every step of a routine keeps the invariant.
LEMMA RoutinesNext == ASSUME RoutinesInv, Routines!Next PROVE RoutinesInv'
BY RoutineCall, RoutineWorks, RoutineFails, RoutineMisses, RoutineEnds, RoutineJumps,
   RoutineFrees, RoutineWrites,
   RoutineSets, RoutineReturns DEF Routines!Next, Routines!Go

\* The invariant implies the properties of the routines.
LEMMA RoutinesProperties ==
  ASSUME RoutinesInv
  PROVE  /\ Routines!TypeOK /\ Routines!NothingLeaks /\ Routines!NoMisuse
         /\ Routines!AppendsOnSuccess /\ Routines!ListsAreWhole /\ Routines!LogIsBounded
<1>1. Routines!TypeOK /\ Routines!NoMisuse /\ Routines!LogIsBounded
  BY DEF RoutinesInv, Routines!LogIsBounded
<1>2. Routines!NothingLeaks
  BY DEF RoutinesInv, Routines!NothingLeaks, Routines!NoMisuse
<1>3. Routines!AppendsOnSuccess
  BY DEF RoutinesInv, Routines!AppendsOnSuccess, Told
<1>4. Routines!ListsAreWhole
  <2>1. \A n \in {"config_list_z", "branch_list", "log"} : n \in Tellers \ Routines!Single
    BY DEF Tellers, Routines!Single
  <2> QED
    BY <2>1 DEF RoutinesInv, Routines!ListsAreWhole, NextFailed
<1> QED
  BY <1>1, <1>2, <1>3, <1>4

\* A step that changes nothing of a routine leaves the invariant.
LEMMA RoutinesUnchanged ==
  ASSUME RoutinesInv, UNCHANGED Routines!vars
  PROVE  RoutinesInv'
BY DEF RoutinesInv, Routines!vars, Routines!TypeOK, Routines!Running, PtrAt, Told,
   NextFailed, CommitFreed, TagNamesFailed, Routines!NoMisuse

-----------------------------------------------------------------------------
(* The theorem about the routines.                                         *)

\* The invariant of the routines holds whatever else the run does.
LEMMA RoutinesHold == Safety => [](part = "routines" => RoutinesInv)
<1> DEFINE Inv == part = "routines" => RoutinesInv
<1>1. Init => Inv
  BY RoutinesInit DEF Init
<1>2. Inv /\ [Next]_all => Inv'
  <2> SUFFICES ASSUME Inv, [Next]_all, part' = "routines" PROVE RoutinesInv'
    OBVIOUS
  <2>1. CASE RoutinesStep
    BY <2>1, RoutinesNext DEF RoutinesStep
  <2>2. CASE UNCHANGED all
    BY <2>2, RoutinesUnchanged DEF all, Routines!vars
  <2>3. ~MessageStep /\ ~CaptureStep /\ ~LogStep /\ ~BufferStep /\ ~RecordsStep
    BY DEF MessageStep, CaptureStep, LogStep, BufferStep, RecordsStep
  <2> QED
    BY <2>1, <2>2, <2>3 DEF Next
<1> QED
  BY <1>1, <1>2, PTL DEF Safety

\* Whichever call of libgit2 fails, a routine of git_handler.c frees or hands on
\* everything it acquired, reads nothing that is gone, frees nothing twice but
\* the one commit of get_tag_desc, reports success only with its record written
\* or its list whole, and writes no more commits than the log may have.
THEOREM RoutinesAreSound == Safety => []RoutinesSound
<1>1. (part = "routines" => RoutinesInv) => RoutinesSound
  BY RoutinesProperties DEF RoutinesSound
<1> QED
  BY <1>1, RoutinesHold, PTL
=============================================================================
