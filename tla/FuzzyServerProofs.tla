------------------------- MODULE FuzzyServerProofs -------------------------
(***************************************************************************)
(* The jobs of the fuzzy search server (FuzzyJobs), as the part "jobs" of  *)
(* MCFuzzyServer: for any number of messages, files and reads, and         *)
(* whatever fails.                                                         *)
(*                                                                         *)
(* inbox is v1, sent v2, cancel v3, job v4, current_seq v5, timers v6,     *)
(* work v7, place v8, at v9, list v10, cache v11, freed v12, proc v13,     *)
(* grep v14, output v15, answers v16, fate v17, spoiled v18, lossy v19,    *)
(* misused v20.                                                            *)
(*                                                                         *)
(* Then the pool of strings (StrPool), as the part "pool": blocks is v1,   *)
(* idx v2, pos v3, sz v4, strings v5, freed v6.                            *)
(*                                                                         *)
(* Last the commands (FuzzyCommands), as the part "commands", for any      *)
(* search words and any number and length of lists: msg is v1, pc v2,      *)
(* job v3, cache v4, pool v5, loads v6, live v7, misused v8, said v9.      *)
(***************************************************************************)
EXTENDS MCFuzzyServer, SequenceTheorems, TLAPS

USE PartsAssumption DEF Jobs!JobsAssumption

\* A message's number and its query's are counted; no message is None.
LEMMA JobsFields ==
  /\ \A m \in Jobs!Messages :
        /\ m.n \in 1..MaxMsgs /\ m.seq \in 1..MaxMsgs /\ m.cmd \in Jobs!Commands
        /\ m.n \in Nat /\ m.seq \in Nat /\ m # Jobs!None /\ m.n # 0
  /\ Jobs!None.n = 0 /\ Jobs!None.cmd = "none"
BY DEF Jobs!Messages, Jobs!None

\* What handle_json_msg may rely on when it is called with m, by read_stdin or
\* by a timer, and with cancel as c.
Came(m, c) ==
  /\ m \in Jobs!Messages /\ c \in BOOLEAN
  /\ v17[m.n] \in {"sent", "postponed"}
  /\ v1' \in Seq(Jobs!Messages) /\ v2' = v2
  /\ Jobs!Read' \in Nat /\ Jobs!Read <= Jobs!Read' /\ m.n <= Jobs!Read' /\ Jobs!Read' <= v2
  /\ \A i \in 1..Len(v1') :
        /\ v1'[i].n = Jobs!Read' + i /\ v17[Jobs!Read' + i] = "sent"
        /\ m.seq <= v1'[i].seq /\ v5 <= v1'[i].seq
  /\ \A i, j \in 1..Len(v1') : i <= j => v1'[i].seq <= v1'[j].seq
  /\ \A k \in v6 : k # m => k.n # m.n
  /\ \A k \in v6 : k.seq < m.seq => k.n < Jobs!Read'
  /\ m.seq < v5 => m.n < Jobs!Read'
  /\ c => v3 /\ v17[m.n] = "sent"

\* A message that is read is the next, of the latest query or a newer one.
LEMMA JobsRead ==
  ASSUME Jobs!JobsInv, v1 # <<>>, v1' = Tail(v1), v2' = v2
  PROVE  Came(Head(v1), v3)
<1> DEFINE m == Head(v1)
<1>1. v1 \in Seq(Jobs!Messages) /\ v2 \in 0..MaxMsgs /\ v3 \in BOOLEAN
      /\ v5 \in 0..MaxMsgs /\ v6 \subseteq Jobs!Messages
  BY DEF Jobs!JobsInv, Jobs!Typed, Jobs!TypeOK
<1>2. /\ Len(v1) \in Nat \ {0} /\ m = v1[1] /\ m \in Jobs!Messages
      /\ v1' \in Seq(Jobs!Messages) /\ Len(v1') = Len(v1) - 1
      /\ \A i \in 1..Len(v1') : v1'[i] = v1[i + 1]
  BY <1>1, HeadTailProperties
<1>3. Jobs!Read = v2 - Len(v1) /\ Jobs!Read' = v2' - Len(v1')
  BY DEF Jobs!Read
<1>4. /\ Jobs!Read \in Nat
      /\ \A i \in 1..Len(v1) : v1[i].n = Jobs!Read + i /\ v17[Jobs!Read + i] = "sent"
      /\ \A k \in v6 : k.n <= Jobs!Read
  BY DEF Jobs!JobsInv, Jobs!Tracked
<1>5. /\ \A i \in 1..Len(v1) : v5 <= v1[i].seq
      /\ \A i, j \in 1..Len(v1) : i <= j => v1[i].seq <= v1[j].seq
  BY DEF Jobs!JobsInv, Jobs!Sequenced
<1>6. Jobs!Read' = Jobs!Read + 1 /\ Jobs!Read' <= v2 /\ m.n = Jobs!Read'
  BY <1>1, <1>2, <1>3, <1>4
<1>7. \A i \in 1..Len(v1') : 1 \in 1..Len(v1) /\ i + 1 \in 1..Len(v1)
  BY <1>2
<1>8. \A i \in 1..Len(v1') :
        /\ v1'[i].n = Jobs!Read' + i /\ v17[Jobs!Read' + i] = "sent"
        /\ m.seq <= v1'[i].seq /\ v5 <= v1'[i].seq
  <2> SUFFICES ASSUME NEW i \in 1..Len(v1')
               PROVE  /\ v1'[i].n = Jobs!Read' + i /\ v17[Jobs!Read' + i] = "sent"
                      /\ m.seq <= v1'[i].seq /\ v5 <= v1'[i].seq
    OBVIOUS
  <2>1. /\ v1[i + 1].n = Jobs!Read + (i + 1) /\ v17[Jobs!Read + (i + 1)] = "sent"
        /\ v1[1].seq <= v1[i + 1].seq /\ v5 <= v1[i + 1].seq
    BY <1>4, <1>5, <1>7
  <2>2. Jobs!Read + (i + 1) = Jobs!Read' + i
    BY <1>4, <1>6
  <2> QED
    BY <1>2, <2>1, <2>2
<1>9. \A i, j \in 1..Len(v1') : i <= j => v1'[i].seq <= v1'[j].seq
  BY <1>2, <1>5, <1>7
<1>10. v17[m.n] = "sent" /\ v5 <= m.seq
  BY <1>2, <1>4, <1>5, <1>6
<1>11. \A k \in v6 : k.n # m.n /\ k.n < Jobs!Read'
  BY <1>1, <1>4, <1>6, JobsFields
<1> HIDE DEF m
<1>12. Came(m, v3)
  <2>1. ~(m.seq < v5)
    BY <1>1, <1>2, <1>10, JobsFields
  <2> QED
    BY <1>1, <1>2, <1>4, <1>6, <1>8, <1>9, <1>10, <1>11, <2>1 DEF Came
<1> QED
  BY <1>12 DEF m

\* A message that comes from its timer is the only one with its number.
LEMMA JobsTimer ==
  ASSUME Jobs!JobsInv, NEW m \in v6, v1' = v1, v2' = v2
  PROVE  Came(m, FALSE)
<1>1. v1 \in Seq(Jobs!Messages) /\ v2 \in 0..MaxMsgs /\ Len(v1) \in Nat
      /\ v5 \in 0..MaxMsgs /\ v6 \subseteq Jobs!Messages
  BY DEF Jobs!JobsInv, Jobs!Typed, Jobs!TypeOK
<1>2. Jobs!Read' = Jobs!Read /\ Jobs!Read = v2 - Len(v1)
  BY DEF Jobs!Read
<1>3. /\ Jobs!Read \in Nat
      /\ \A i \in 1..Len(v1) : v1[i].n = Jobs!Read + i /\ v17[Jobs!Read + i] = "sent"
      /\ \A k \in v6 : k.n <= Jobs!Read /\ v17[k.n] = "postponed"
      /\ \A k, l \in v6 : k.n = l.n => k = l
  BY DEF Jobs!JobsInv, Jobs!Tracked
<1>4. /\ \A i \in 1..Len(v1) : v5 <= v1[i].seq
      /\ \A i, j \in 1..Len(v1) : i <= j => v1[i].seq <= v1[j].seq
      /\ \A k \in v6 : k.seq <= v5 /\ (k.seq < v5 => k.n < Jobs!Read)
  BY DEF Jobs!JobsInv, Jobs!Sequenced
<1>5. \A i \in 1..Len(v1) : m.seq <= v1[i].seq
  <2>1. \A i \in 1..Len(v1) : v1[i] \in Jobs!Messages
    BY <1>1
  <2>2. m.seq \in Nat /\ m.seq <= v5 /\ \A i \in 1..Len(v1) : v1[i].seq \in Nat
    BY <1>1, <1>4, <2>1, JobsFields
  <2> QED
    BY <1>1, <1>4, <2>2
<1>6. \A k \in v6 : k.seq < m.seq => k.n < Jobs!Read
  BY <1>1, <1>4, JobsFields
<1>7. Jobs!Read <= v2
  BY <1>1, <1>2
<1> QED
  BY <1>1, <1>2, <1>3, <1>4, <1>5, <1>6, <1>7, JobsFields DEF Came
-----------------------------------------------------------------------------
(* handle_json_msg.                                                        *)

\* What becomes of the message is another fate; its number is in no other place.
LEMMA JobsTracked ==
  ASSUME Jobs!JobsInv, NEW m, NEW c, Came(m, c), NEW f \in Jobs!Fates \ {"none"},
         v17' = [v17 EXCEPT ![m.n] = f],
         \/ v6' = v6 \ {m}
         \/ f = "postponed" /\ v6' = v6 \cup {m}
  PROVE  /\ v17' \in [1..MaxMsgs -> Jobs!Fates] /\ v6' \subseteq Jobs!Messages
         /\ v1' \in Seq(Jobs!Messages) /\ v2' \in 0..MaxMsgs
         /\ Jobs!Read' \in Nat
         /\ \A i \in 1..Len(v1') :
               v1'[i].n = Jobs!Read' + i /\ v17'[Jobs!Read' + i] = "sent"
         /\ \A n \in 1..MaxMsgs : n <= v2' <=> v17'[n] # "none"
         /\ \A k \in v6' : k.n <= Jobs!Read' /\ v17'[k.n] = "postponed"
         /\ \A k, l \in v6' : k.n = l.n => k = l
         /\ m.n \in 1..MaxMsgs /\ v17'[m.n] = f
         /\ \A n \in 1..MaxMsgs : n # m.n => v17'[n] = v17[n]
<1>1. /\ v17 \in [1..MaxMsgs -> Jobs!Fates] /\ v2 \in 0..MaxMsgs /\ v6 \subseteq Jobs!Messages
  BY DEF Jobs!JobsInv, Jobs!Typed, Jobs!TypeOK
<1>2. /\ m \in Jobs!Messages /\ v2' = v2 /\ v1' \in Seq(Jobs!Messages)
      /\ Jobs!Read' \in Nat /\ Jobs!Read <= Jobs!Read' /\ m.n <= Jobs!Read' /\ Jobs!Read' <= v2
      /\ \A i \in 1..Len(v1') : v1'[i].n = Jobs!Read' + i /\ v17[Jobs!Read' + i] = "sent"
      /\ \A k \in v6 : k # m => k.n # m.n
      /\ v17[m.n] \in {"sent", "postponed"}
  BY DEF Came
<1>3. m.n \in 1..MaxMsgs /\ m.n \in Nat
  BY <1>2, JobsFields
<1>4. /\ Jobs!Read \in Nat
      /\ \A n \in 1..MaxMsgs : n <= v2 <=> v17[n] # "none"
      /\ \A k \in v6 : k.n <= Jobs!Read /\ v17[k.n] = "postponed"
      /\ \A k, l \in v6 : k.n = l.n => k = l
  BY DEF Jobs!JobsInv, Jobs!Tracked
<1>5. \A n : n \in 1..MaxMsgs => v17'[n] = IF n = m.n THEN f ELSE v17[n]
  BY <1>1
<1>6. v17' \in [1..MaxMsgs -> Jobs!Fates]
  BY <1>1, <1>3
<1>7. \A i \in 1..Len(v1') : v17'[Jobs!Read' + i] = "sent"
  <2> SUFFICES ASSUME NEW i \in 1..Len(v1') PROVE v17'[Jobs!Read' + i] = "sent"
    OBVIOUS
  <2>1. v1'[i] \in Jobs!Messages /\ v1'[i].n = Jobs!Read' + i /\ v17[Jobs!Read' + i] = "sent"
    BY <1>2
  <2>2. Jobs!Read' + i \in 1..MaxMsgs
    BY <2>1, JobsFields
  <2>3. Jobs!Read' + i # m.n
    BY <1>2, <1>3
  <2> QED
    BY <1>5, <2>1, <2>2, <2>3
<1>8. \A n \in 1..MaxMsgs : n <= v2' <=> v17'[n] # "none"
  BY <1>1, <1>2, <1>4, <1>5
<1>9. v6' \subseteq Jobs!Messages /\ \A k \in v6' : k = m \/ k \in v6
  BY <1>1, <1>2
<1>10. \A k \in v6' : k.n <= Jobs!Read' /\ v17'[k.n] = "postponed"
  <2> SUFFICES ASSUME NEW k \in v6' PROVE k.n <= Jobs!Read' /\ v17'[k.n] = "postponed"
    OBVIOUS
  <2>1. k.n \in 1..MaxMsgs /\ k.n \in Nat
    BY <1>9, JobsFields
  <2>2. CASE k = m
    <3>1. f = "postponed"
      BY <2>2
    <3> QED
      BY <1>2, <1>3, <1>5, <2>2, <3>1
  <2>3. CASE k # m /\ k \in v6
    <3>1. k.n # m.n /\ k.n <= Jobs!Read /\ v17[k.n] = "postponed"
      BY <1>2, <1>4, <2>3
    <3> QED
      BY <1>2, <1>4, <1>5, <2>1, <3>1
  <2> QED
    BY <1>9, <2>2, <2>3
<1>11. \A k, l \in v6' : k.n = l.n => k = l
  BY <1>2, <1>4, <1>9
<1> QED
  BY <1>1, <1>2, <1>3, <1>5, <1>6, <1>7, <1>8, <1>9, <1>10, <1>11

\* A message that is not old is of the latest query then.
LEMMA JobsSequenced ==
  ASSUME Jobs!JobsInv, NEW m, NEW c, Came(m, c),
         \/ v6' = v6 \ {m} /\ v5' = v5
         \/ v6' \subseteq v6 \cup {m} /\ v5' = m.seq /\ ~(m.seq < v5)
  PROVE  Jobs!Sequenced' /\ v5' \in 0..MaxMsgs /\ v5 <= v5'
<1>1. v5 \in 0..MaxMsgs /\ v6 \subseteq Jobs!Messages
  BY DEF Jobs!JobsInv, Jobs!Typed, Jobs!TypeOK
<1>2. /\ m \in Jobs!Messages
      /\ Jobs!Read' \in Nat /\ Jobs!Read <= Jobs!Read'
      /\ \A i \in 1..Len(v1') : m.seq <= v1'[i].seq /\ v5 <= v1'[i].seq
      /\ \A i, j \in 1..Len(v1') : i <= j => v1'[i].seq <= v1'[j].seq
      /\ \A k \in v6 : k.seq < m.seq => k.n < Jobs!Read'
  BY DEF Came
<1>3. \A k \in v6 : k.seq <= v5 /\ (k.seq < v5 => k.n < Jobs!Read)
  BY DEF Jobs!JobsInv, Jobs!Sequenced
<1>4. Jobs!Read \in Nat
  BY DEF Jobs!JobsInv, Jobs!Tracked
<1>5. v5' \in 0..MaxMsgs /\ v5 <= v5'
  BY <1>1, <1>2, JobsFields
<1>6. \A i \in 1..Len(v1') : v5' <= v1'[i].seq
  BY <1>2
<1>7. \A k \in v6' : k.seq <= v5' /\ (k.seq < v5' => k.n < Jobs!Read')
  <2> SUFFICES ASSUME NEW k \in v6' PROVE k.seq <= v5' /\ (k.seq < v5' => k.n < Jobs!Read')
    OBVIOUS
  <2>1. k.seq \in Nat /\ k.n \in Nat /\ m.seq \in Nat
    BY <1>1, <1>2, JobsFields
  <2>2. CASE v6' = v6 \ {m} /\ v5' = v5
    BY <1>2, <1>3, <1>4, <2>1, <2>2
  <2>3. CASE v6' \subseteq v6 \cup {m} /\ v5' = m.seq /\ ~(m.seq < v5)
    BY <1>1, <1>2, <1>3, <2>1, <2>3
  <2> QED
    BY <2>2, <2>3
<1> QED
  BY <1>2, <1>5, <1>6, <1>7 DEF Jobs!Sequenced
\* What the other messages have become stays, and so what is said of them.
LEMMA JobsFates ==
  ASSUME Jobs!JobsInv, NEW m, NEW c, Came(m, c),
         NEW f \in {"dropped", "postponed", "started", "written", "failed"},
         v17' = [v17 EXCEPT ![m.n] = f],
         f = "dropped" => m.n < Jobs!Read'
  PROVE  /\ v20' = v20 => Jobs!ListsLive'
         /\ Jobs!DroppedForNewer'
         /\ v18 \subseteq v18' /\ v19' = v19 => Jobs!CancelledForNewer'
         /\ v8 \in {"queued", "runs"} => v17'[v7.n] = "started"
         /\ v13 # "none" => v17'[v14.n] = "started"
         /\ \A i \in v12 \cup {v11.id} : i # 0 => v17'[i] \in {"answered", "no_list"}
<1>1. /\ v17 \in [1..MaxMsgs -> Jobs!Fates] /\ v2 \in 0..MaxMsgs
      /\ v7 \in Jobs!Messages \cup {Jobs!None} /\ v14 \in Jobs!Messages \cup {Jobs!None}
      /\ v12 \subseteq 0..MaxMsgs /\ v11.id \in 0..MaxMsgs
  BY DEF Jobs!JobsInv, Jobs!Typed, Jobs!TypeOK, Jobs!Lists
<1>2. m \in Jobs!Messages /\ v17[m.n] \in {"sent", "postponed"} /\ Jobs!Read' <= v2 /\ Jobs!Read' \in Nat
  BY DEF Came
<1>3. m.n \in 1..MaxMsgs
  BY <1>2, JobsFields
<1>4. \A n : n \in 1..MaxMsgs => v17'[n] = IF n = m.n THEN f ELSE v17[n]
  BY <1>1
<1>5. \A n \in 1..MaxMsgs : v17[n] \notin {"sent", "postponed"} => v17'[n] = v17[n]
  BY <1>2, <1>4
<1>6. ASSUME v20' = v20 PROVE Jobs!ListsLive'
  <2>1. Jobs!ListsLive
    BY DEF Jobs!JobsInv
  <2> QED
    BY <1>5, <1>6, <2>1 DEF Jobs!ListsLive
<1>7. Jobs!DroppedForNewer'
  <2>1. Jobs!DroppedForNewer
    BY DEF Jobs!JobsInv
  <2>2. \A n \in 1..MaxMsgs : n <= v2 <=> v17[n] # "none"
    BY DEF Jobs!JobsInv, Jobs!Tracked
  <2>3. \A n \in 1..MaxMsgs : v17[n] # "none" => v17'[n] # "none"
    BY <1>4
  <2>4. ASSUME f = "dropped"
        PROVE  m.n + 1 \in 1..MaxMsgs /\ m.n + 1 > m.n /\ v17'[m.n + 1] # "none"
    BY <1>1, <1>2, <1>3, <2>2, <2>3, <2>4
  <2>5. \A n \in 1..MaxMsgs : v17'[n] = "dropped" =>
          (n = m.n /\ f = "dropped") \/ v17[n] = "dropped"
    BY <1>4
  <2> QED
    BY <2>1, <2>3, <2>4, <2>5 DEF Jobs!DroppedForNewer
<1>8. ASSUME v18 \subseteq v18', v19' = v19 PROVE Jobs!CancelledForNewer'
  <2>1. Jobs!CancelledForNewer
    BY DEF Jobs!JobsInv
  <2>2. \A n \in 1..MaxMsgs : v17'[n] = "cancelled" => v17[n] = "cancelled"
    BY <1>4
  <2> QED
    BY <1>8, <2>1, <2>2 DEF Jobs!CancelledForNewer
<1>9. ASSUME v8 \in {"queued", "runs"} PROVE v17'[v7.n] = "started"
  <2>1. v7 # Jobs!None /\ v17[v7.n] = "started"
    BY <1>9 DEF Jobs!JobsInv, Jobs!Tracked, Jobs!Placed
  <2>2. v7.n \in 1..MaxMsgs
    BY <1>1, <2>1, JobsFields
  <2> QED
    BY <1>5, <2>1, <2>2
<1>10. ASSUME v13 # "none" PROVE v17'[v14.n] = "started"
  <2>1. v14 # Jobs!None /\ v17[v14.n] = "started"
    BY <1>10 DEF Jobs!JobsInv, Jobs!Tracked, Jobs!Placed
  <2>2. v14.n \in 1..MaxMsgs
    BY <1>1, <2>1, JobsFields
  <2> QED
    BY <1>5, <2>1, <2>2
<1>11. \A i \in v12 \cup {v11.id} : i # 0 => v17'[i] \in {"answered", "no_list"}
  <2>1. \A i \in v12 \cup {v11.id} : i # 0 => v17[i] \in {"answered", "no_list"}
    BY DEF Jobs!JobsInv, Jobs!Cached
  <2>2. \A i \in v12 \cup {v11.id} : i # 0 => i \in 1..MaxMsgs
    BY <1>1
  <2> QED
    BY <1>5, <2>1, <2>2
<1> QED
  BY <1>6, <1>7, <1>8, <1>9, <1>10, <1>11
\* An answer's place in the order of the queries does not change unless there is
\* another answer or another job.
LEMMA JobsAnswers ==
  ASSUME Jobs!JobsInv, v16' = v16, v7' \in {v7, Jobs!None}, v13' # "none" => v13 # "none" /\ v14' = v14,
         v5 <= v5', v5 \in 0..MaxMsgs, v5' \in 0..MaxMsgs
  PROVE  Jobs!Answered' /\ Jobs!AnswersInOrder' /\ v16' \in Seq(Jobs!Messages)
<1>1. /\ v16 \in Seq(Jobs!Messages) /\ Jobs!Answered /\ Jobs!AnswersInOrder
      /\ v7 \in Jobs!Messages \cup {Jobs!None} /\ v14 \in Jobs!Messages \cup {Jobs!None}
      /\ (v13 = "none" <=> v14 = Jobs!None)
  BY DEF Jobs!JobsInv, Jobs!Typed, Jobs!TypeOK, Jobs!Placed
<1>2. \A i \in 1..Len(v16) : v16[i].seq \in Nat
  BY <1>1, JobsFields
<1>3. (v7 # Jobs!None => v7.seq \in Nat) /\ (v13 # "none" => v14.seq \in Nat)
  BY <1>1, JobsFields
<1>4. Jobs!Answered'
  <2> HIDE DEF Jobs!None
  <2> QED
    BY <1>1, <1>2, <1>3 DEF Jobs!Answered
<1>5. Jobs!AnswersInOrder'
  BY <1>1 DEF Jobs!AnswersInOrder
<1> QED
  BY <1>1, <1>4, <1>5

\* An old message is dropped, and nothing else changes.
LEMMA JobsIgnore ==
  ASSUME Jobs!JobsInv, NEW m, NEW c, Came(m, c), Jobs!Ignore(m, c)
  PROVE  Jobs!JobsInv'
<1>1. /\ Jobs!TypeOK /\ v10 \in Jobs!Lists /\ v11 \in Jobs!Lists /\ v12 \subseteq 0..MaxMsgs
      /\ Jobs!OneJob /\ Jobs!Tracked /\ Jobs!Placed /\ Jobs!Spoiled /\ Jobs!Cached
  BY DEF Jobs!JobsInv, Jobs!Typed
<1>2. m \in Jobs!Messages /\ c \in BOOLEAN /\ (m.seq < v5 => m.n < Jobs!Read')
      /\ (c => v3 /\ v17[m.n] = "sent")
  BY DEF Came
<1>3. /\ m.seq < v5 /\ v3' = c /\ v6' = v6 \ {m} /\ v17' = [v17 EXCEPT ![m.n] = "dropped"]
      /\ UNCHANGED <<v4, v5, v7, v8, v9, v10, v11, v12, v13, v14, v15, v16, v18, v19, v20>>
  BY DEF Jobs!Ignore, Jobs!Old, Jobs!Handled, Jobs!Becomes, Jobs!pool, Jobs!lists, Jobs!child
<1>4. /\ "dropped" \in Jobs!Fates \ {"none"}
      /\ "dropped" \in {"dropped", "postponed", "started", "written", "failed"}
  BY DEF Jobs!Fates
<1>5. Jobs!Sequenced' /\ v5' \in 0..MaxMsgs /\ v5 <= v5'
  BY <1>3, JobsSequenced
<1>6. /\ v17' \in [1..MaxMsgs -> Jobs!Fates] /\ v6' \subseteq Jobs!Messages
      /\ v1' \in Seq(Jobs!Messages) /\ v2' \in 0..MaxMsgs /\ Jobs!Read' \in Nat
      /\ \A i \in 1..Len(v1') :
            v1'[i].n = Jobs!Read' + i /\ v17'[Jobs!Read' + i] = "sent"
      /\ \A n \in 1..MaxMsgs : n <= v2' <=> v17'[n] # "none"
      /\ \A k \in v6' : k.n <= Jobs!Read' /\ v17'[k.n] = "postponed"
      /\ \A k, l \in v6' : k.n = l.n => k = l
      /\ m.n \in 1..MaxMsgs /\ v17'[m.n] = "dropped"
  BY <1>3, <1>4, JobsTracked
<1>7. /\ Jobs!ListsLive' /\ Jobs!DroppedForNewer'
      /\ Jobs!CancelledForNewer'
      /\ v8 \in {"queued", "runs"} => v17'[v7.n] = "started"
      /\ v13 # "none" => v17'[v14.n] = "started"
      /\ \A i \in v12 \cup {v11.id} : i # 0 => v17'[i] \in {"answered", "no_list"}
  BY <1>2, <1>3, <1>4, JobsFates
<1>8. Jobs!Answered' /\ Jobs!AnswersInOrder' /\ v16' \in Seq(Jobs!Messages)
  BY <1>1, <1>3, <1>5, JobsAnswers DEF Jobs!TypeOK
<1>9. Jobs!Tracked'
  BY <1>3, <1>6, <1>7 DEF Jobs!Tracked
<1>10. Jobs!Typed'
  BY <1>1, <1>2, <1>3, <1>5, <1>6, <1>8 DEF Jobs!Typed, Jobs!TypeOK
<1>11. Jobs!OneJob' /\ Jobs!Placed'
  BY <1>1, <1>3 DEF Jobs!OneJob, Jobs!Placed
<1>12. Jobs!Spoiled'
  BY <1>1, <1>2, <1>3 DEF Jobs!Spoiled
<1>13. Jobs!Cached'
  BY <1>1, <1>3, <1>7 DEF Jobs!Cached
<1> QED
  BY <1>5, <1>7, <1>8, <1>9, <1>10, <1>11, <1>12, <1>13 DEF Jobs!JobsInv

\* A message that waits has the job spoiled.
LEMMA JobsPostpone ==
  ASSUME Jobs!JobsInv, NEW m, NEW c, Came(m, c), Jobs!Postpone(m, c)
  PROVE  Jobs!JobsInv'
<1>1. /\ Jobs!TypeOK /\ v10 \in Jobs!Lists /\ v11 \in Jobs!Lists /\ v12 \subseteq 0..MaxMsgs
      /\ Jobs!OneJob /\ Jobs!Tracked /\ Jobs!Placed /\ Jobs!Spoiled /\ Jobs!Cached
  BY DEF Jobs!JobsInv, Jobs!Typed
<1>2. m \in Jobs!Messages /\ c \in BOOLEAN /\ (m.seq < v5 => m.n < Jobs!Read')
      /\ (c => v3 /\ v17[m.n] = "sent")
  BY DEF Came
<1>3. /\ ~(m.seq < v5) /\ v4 /\ v5' = m.seq /\ v3' = TRUE /\ v4' = v4 /\ v6' = v6 \cup {m}
      /\ v17' = [v17 EXCEPT ![m.n] = "postponed"]
      /\ v13' = v13 \/ (v13 = "runs" /\ v13' = "killed")
      /\ v18' = v18 \cup ({v7.n, v14.n} \ {0})
      /\ UNCHANGED <<v7, v8, v9, v10, v11, v12, v14, v15, v16, v19, v20>>
  BY DEF Jobs!Postpone, Jobs!Old, Jobs!Becomes, Jobs!pool, Jobs!lists
<1>4. /\ "postponed" \in Jobs!Fates \ {"none"}
      /\ "postponed" \in {"dropped", "postponed", "started", "written", "failed"}
  BY DEF Jobs!Fates
<1>5. Jobs!Sequenced' /\ v5' \in 0..MaxMsgs /\ v5 <= v5'
  BY <1>3, JobsSequenced
<1>6. /\ v17' \in [1..MaxMsgs -> Jobs!Fates] /\ v6' \subseteq Jobs!Messages
      /\ v1' \in Seq(Jobs!Messages) /\ v2' \in 0..MaxMsgs /\ Jobs!Read' \in Nat
      /\ \A i \in 1..Len(v1') :
            v1'[i].n = Jobs!Read' + i /\ v17'[Jobs!Read' + i] = "sent"
      /\ \A n \in 1..MaxMsgs : n <= v2' <=> v17'[n] # "none"
      /\ \A k \in v6' : k.n <= Jobs!Read' /\ v17'[k.n] = "postponed"
      /\ \A k, l \in v6' : k.n = l.n => k = l
      /\ m.n \in 1..MaxMsgs /\ v17'[m.n] = "postponed"
  BY <1>3, <1>4, JobsTracked
<1>7. /\ Jobs!ListsLive' /\ Jobs!DroppedForNewer'
      /\ Jobs!CancelledForNewer'
      /\ v8 \in {"queued", "runs"} => v17'[v7.n] = "started"
      /\ v13 # "none" => v17'[v14.n] = "started"
      /\ \A i \in v12 \cup {v11.id} : i # 0 => v17'[i] \in {"answered", "no_list"}
  BY <1>2, <1>3, <1>4, JobsFates
<1>8. Jobs!Answered' /\ Jobs!AnswersInOrder' /\ v16' \in Seq(Jobs!Messages)
  BY <1>1, <1>3, <1>5, JobsAnswers DEF Jobs!TypeOK
<1>9. Jobs!Tracked'
  BY <1>3, <1>6, <1>7 DEF Jobs!Tracked
<1>s. /\ v18' \subseteq 1..MaxMsgs /\ v18 \subseteq v18'
      /\ v7 # Jobs!None => v7.n \in v18'
      /\ v14 # Jobs!None => v14.n \in v18'
  BY <1>1, <1>3, JobsFields DEF Jobs!TypeOK
<1>10. Jobs!Typed'
  BY <1>1, <1>2, <1>3, <1>5, <1>6, <1>8, <1>s DEF Jobs!Typed, Jobs!TypeOK
<1>11. Jobs!OneJob' /\ Jobs!Placed'
  BY <1>1, <1>3 DEF Jobs!OneJob, Jobs!Placed
<1>12. Jobs!Spoiled'
  BY <1>1, <1>3, <1>s DEF Jobs!Spoiled, Jobs!Placed
<1>13. Jobs!Cached'
  BY <1>1, <1>3, <1>7 DEF Jobs!Cached
<1> QED
  BY <1>5, <1>7, <1>8, <1>9, <1>10, <1>11, <1>12, <1>13 DEF Jobs!JobsInv
\* The server writes the counts at once and begins no job.
LEMMA JobsWriteMru ==
  ASSUME Jobs!JobsInv, NEW m, NEW c, Came(m, c), Jobs!WriteMru(m, c)
  PROVE  Jobs!JobsInv'
<1>1. /\ Jobs!TypeOK /\ v10 \in Jobs!Lists /\ v11 \in Jobs!Lists /\ v12 \subseteq 0..MaxMsgs
      /\ Jobs!OneJob /\ Jobs!Tracked /\ Jobs!Placed /\ Jobs!Spoiled /\ Jobs!Cached
  BY DEF Jobs!JobsInv, Jobs!Typed
<1>2. m \in Jobs!Messages /\ c \in BOOLEAN /\ (m.seq < v5 => m.n < Jobs!Read')
      /\ (c => v3 /\ v17[m.n] = "sent")
  BY DEF Came
<1>3. /\ ~(m.seq < v5) /\ ~v4 /\ v5' = m.seq /\ v3' = c /\ v6' = v6 \ {m}
      /\ v17' = [v17 EXCEPT ![m.n] = "written"]
      /\ UNCHANGED <<v4, v7, v8, v9, v10, v11, v12, v13, v14, v15, v16, v18, v19, v20>>
  BY DEF Jobs!WriteMru, Jobs!Idle, Jobs!Old, Jobs!Handled, Jobs!Becomes, Jobs!pool, Jobs!lists, Jobs!child
<1>4. /\ "written" \in Jobs!Fates \ {"none"}
      /\ "written" \in {"dropped", "postponed", "started", "written", "failed"}
  BY DEF Jobs!Fates
<1>5. Jobs!Sequenced' /\ v5' \in 0..MaxMsgs /\ v5 <= v5'
  BY <1>3, JobsSequenced
<1>6. /\ v17' \in [1..MaxMsgs -> Jobs!Fates] /\ v6' \subseteq Jobs!Messages
      /\ v1' \in Seq(Jobs!Messages) /\ v2' \in 0..MaxMsgs /\ Jobs!Read' \in Nat
      /\ \A i \in 1..Len(v1') :
            v1'[i].n = Jobs!Read' + i /\ v17'[Jobs!Read' + i] = "sent"
      /\ \A n \in 1..MaxMsgs : n <= v2' <=> v17'[n] # "none"
      /\ \A k \in v6' : k.n <= Jobs!Read' /\ v17'[k.n] = "postponed"
      /\ \A k, l \in v6' : k.n = l.n => k = l
      /\ m.n \in 1..MaxMsgs /\ v17'[m.n] = "written"
  BY <1>3, <1>4, JobsTracked
<1>7. /\ Jobs!ListsLive' /\ Jobs!DroppedForNewer'
      /\ Jobs!CancelledForNewer'
      /\ v8 \in {"queued", "runs"} => v17'[v7.n] = "started"
      /\ v13 # "none" => v17'[v14.n] = "started"
      /\ \A i \in v12 \cup {v11.id} : i # 0 => v17'[i] \in {"answered", "no_list"}
  BY <1>2, <1>3, <1>4, JobsFates
<1>8. Jobs!Answered' /\ Jobs!AnswersInOrder' /\ v16' \in Seq(Jobs!Messages)
  BY <1>1, <1>3, <1>5, JobsAnswers DEF Jobs!TypeOK
<1>9. Jobs!Tracked'
  BY <1>3, <1>6, <1>7 DEF Jobs!Tracked
<1>10. Jobs!Typed'
  BY <1>1, <1>2, <1>3, <1>5, <1>6, <1>8 DEF Jobs!Typed, Jobs!TypeOK
<1>11. Jobs!OneJob' /\ Jobs!Placed'
  BY <1>1, <1>3 DEF Jobs!OneJob, Jobs!Placed
<1>12. Jobs!Spoiled'
  BY <1>1, <1>2, <1>3 DEF Jobs!Spoiled
<1>13. Jobs!Cached'
  BY <1>1, <1>3, <1>7 DEF Jobs!Cached
<1> QED
  BY <1>5, <1>7, <1>8, <1>9, <1>10, <1>11, <1>12, <1>13 DEF Jobs!JobsInv

\* A grep that was not spawned is a job that nobody ends.
LEMMA JobsNotSpawned ==
  ASSUME Jobs!JobsInv, NEW m, NEW c, Came(m, c), Jobs!GrepNotSpawned(m, c)
  PROVE  Jobs!JobsInv'
<1>1. /\ Jobs!TypeOK /\ v10 \in Jobs!Lists /\ v11 \in Jobs!Lists /\ v12 \subseteq 0..MaxMsgs
      /\ Jobs!OneJob /\ Jobs!Tracked /\ Jobs!Placed /\ Jobs!Spoiled /\ Jobs!Cached
  BY DEF Jobs!JobsInv, Jobs!Typed
<1>2. m \in Jobs!Messages /\ c \in BOOLEAN /\ (m.seq < v5 => m.n < Jobs!Read')
      /\ (c => v3 /\ v17[m.n] = "sent")
  BY DEF Came
<1>3. /\ ~(m.seq < v5) /\ ~v4 /\ v5' = m.seq /\ v3' = c /\ v6' = v6 \ {m}
      /\ v17' = [v17 EXCEPT ![m.n] = "failed"]
      /\ v4' = TRUE
      /\ UNCHANGED <<v7, v8, v9, v10, v11, v12, v13, v14, v15, v16, v18, v19, v20>>
  BY DEF Jobs!GrepNotSpawned, Jobs!Idle, Jobs!Old, Jobs!Handled, Jobs!Becomes,
         Jobs!pool, Jobs!lists, Jobs!child
<1>4. /\ "failed" \in Jobs!Fates \ {"none"}
      /\ "failed" \in {"dropped", "postponed", "started", "written", "failed"}
  BY DEF Jobs!Fates
<1>5. Jobs!Sequenced' /\ v5' \in 0..MaxMsgs /\ v5 <= v5'
  BY <1>3, JobsSequenced
<1>6. /\ v17' \in [1..MaxMsgs -> Jobs!Fates] /\ v6' \subseteq Jobs!Messages
      /\ v1' \in Seq(Jobs!Messages) /\ v2' \in 0..MaxMsgs /\ Jobs!Read' \in Nat
      /\ \A i \in 1..Len(v1') :
            v1'[i].n = Jobs!Read' + i /\ v17'[Jobs!Read' + i] = "sent"
      /\ \A n \in 1..MaxMsgs : n <= v2' <=> v17'[n] # "none"
      /\ \A k \in v6' : k.n <= Jobs!Read' /\ v17'[k.n] = "postponed"
      /\ \A k, l \in v6' : k.n = l.n => k = l
      /\ m.n \in 1..MaxMsgs /\ v17'[m.n] = "failed"
  BY <1>3, <1>4, JobsTracked
<1>7. /\ Jobs!ListsLive' /\ Jobs!DroppedForNewer'
      /\ Jobs!CancelledForNewer'
      /\ v8 \in {"queued", "runs"} => v17'[v7.n] = "started"
      /\ v13 # "none" => v17'[v14.n] = "started"
      /\ \A i \in v12 \cup {v11.id} : i # 0 => v17'[i] \in {"answered", "no_list"}
  BY <1>2, <1>3, <1>4, JobsFates
<1>8. Jobs!Answered' /\ Jobs!AnswersInOrder' /\ v16' \in Seq(Jobs!Messages)
  BY <1>1, <1>3, <1>5, JobsAnswers DEF Jobs!TypeOK
<1>9. Jobs!Tracked'
  BY <1>3, <1>6, <1>7 DEF Jobs!Tracked
<1>10. Jobs!Typed'
  BY <1>1, <1>2, <1>3, <1>5, <1>6, <1>8 DEF Jobs!Typed, Jobs!TypeOK
<1>11. Jobs!OneJob' /\ Jobs!Placed'
  BY <1>1, <1>3 DEF Jobs!OneJob, Jobs!Placed
<1>12. Jobs!Spoiled'
  BY <1>1, <1>2, <1>3 DEF Jobs!Spoiled
<1>13. Jobs!Cached'
  BY <1>1, <1>3, <1>7 DEF Jobs!Cached
<1> QED
  BY <1>5, <1>7, <1>8, <1>9, <1>10, <1>11, <1>12, <1>13 DEF Jobs!JobsInv

\* The pool gets the message as the only job, with the list as it is.
LEMMA JobsQueueSearch ==
  ASSUME Jobs!JobsInv, NEW m, NEW c, Came(m, c), Jobs!QueueSearch(m, c)
  PROVE  Jobs!JobsInv'
<1>1. /\ Jobs!TypeOK /\ v10 \in Jobs!Lists /\ v11 \in Jobs!Lists /\ v12 \subseteq 0..MaxMsgs
      /\ Jobs!OneJob /\ Jobs!Tracked /\ Jobs!Placed /\ Jobs!Spoiled /\ Jobs!Cached
  BY DEF Jobs!JobsInv, Jobs!Typed
<1>2. m \in Jobs!Messages /\ c \in BOOLEAN /\ (m.seq < v5 => m.n < Jobs!Read')
      /\ (c => v3 /\ v17[m.n] = "sent")
  BY DEF Came
<1>3. /\ ~(m.seq < v5) /\ ~v4 /\ v5' = m.seq /\ v3' = c /\ v6' = v6 \ {m}
      /\ v17' = [v17 EXCEPT ![m.n] = "started"]
      /\ v4' = TRUE /\ m.cmd \in {"init", "search"}
      /\ v7' = m /\ v8' = "queued" /\ v9' = 0 /\ v10' = v11
      /\ v18' = v18 \cup IF c /\ v17[m.n] = "sent" THEN {m.n} ELSE {}
      /\ UNCHANGED <<v11, v12, v13, v14, v15, v16, v19, v20>>
  BY DEF Jobs!QueueSearch, Jobs!Begins, Jobs!Idle, Jobs!Old, Jobs!Handled, Jobs!Becomes,
         Jobs!lists, Jobs!child
<1>4. /\ "started" \in Jobs!Fates \ {"none"}
      /\ "started" \in {"dropped", "postponed", "started", "written", "failed"}
  BY DEF Jobs!Fates
<1>5. Jobs!Sequenced' /\ v5' \in 0..MaxMsgs /\ v5 <= v5'
  BY <1>3, JobsSequenced
<1>6. /\ v17' \in [1..MaxMsgs -> Jobs!Fates] /\ v6' \subseteq Jobs!Messages
      /\ v1' \in Seq(Jobs!Messages) /\ v2' \in 0..MaxMsgs /\ Jobs!Read' \in Nat
      /\ \A i \in 1..Len(v1') :
            v1'[i].n = Jobs!Read' + i /\ v17'[Jobs!Read' + i] = "sent"
      /\ \A n \in 1..MaxMsgs : n <= v2' <=> v17'[n] # "none"
      /\ \A k \in v6' : k.n <= Jobs!Read' /\ v17'[k.n] = "postponed"
      /\ \A k, l \in v6' : k.n = l.n => k = l
      /\ m.n \in 1..MaxMsgs /\ v17'[m.n] = "started"
  BY <1>3, <1>4, JobsTracked
<1>7. /\ Jobs!ListsLive' /\ Jobs!DroppedForNewer'
      /\ Jobs!CancelledForNewer'
      /\ v8 \in {"queued", "runs"} => v17'[v7.n] = "started"
      /\ v13 # "none" => v17'[v14.n] = "started"
      /\ \A i \in v12 \cup {v11.id} : i # 0 => v17'[i] \in {"answered", "no_list"}
  BY <1>2, <1>3, <1>4, JobsFates
<1>s. /\ v18 \subseteq v18' /\ v18' \subseteq 1..MaxMsgs /\ (c => m.n \in v18')
      /\ m # Jobs!None /\ m.n \in 1..MaxMsgs /\ m.seq \in 1..MaxMsgs
  BY <1>1, <1>2, <1>3, JobsFields DEF Jobs!TypeOK
<1>n. v7 = Jobs!None /\ v8 = "none" /\ v13 = "none" /\ v14 = Jobs!None
  BY <1>1, <1>3 DEF Jobs!OneJob, Jobs!Placed
<1>8. Jobs!Answered' /\ Jobs!AnswersInOrder' /\ v16' \in Seq(Jobs!Messages)
  <2>1. /\ v16 \in Seq(Jobs!Messages) /\ Jobs!AnswersInOrder
        /\ \A i \in 1..Len(v16) : v16[i].seq <= v5
    BY DEF Jobs!JobsInv, Jobs!Typed, Jobs!Answered
  <2>2. \A i \in 1..Len(v16) : v16[i].seq \in Nat
    BY <2>1, JobsFields
  <2>3. v5 \in Nat /\ m.seq \in Nat /\ v5 <= m.seq
    BY <1>1, <1>2, <1>3, JobsFields DEF Jobs!TypeOK
  <2>4. \A i \in 1..Len(v16) : v16[i].seq <= m.seq
    BY <2>1, <2>2, <2>3
  <2>5. Jobs!Answered'
    BY <1>3, <1>n, <2>3, <2>4 DEF Jobs!Answered
  <2> QED
    BY <1>3, <2>1, <2>5 DEF Jobs!AnswersInOrder
<1>9. Jobs!Tracked'
  BY <1>3, <1>6, <1>n DEF Jobs!Tracked
<1>10. Jobs!Typed'
  BY <1>1, <1>2, <1>3, <1>5, <1>6, <1>8, <1>s DEF Jobs!Typed, Jobs!TypeOK
<1>11. Jobs!OneJob' /\ Jobs!Placed'
  BY <1>1, <1>3, <1>s, <1>n DEF Jobs!OneJob, Jobs!Placed
<1>12. Jobs!Spoiled'
  BY <1>3, <1>s, <1>n DEF Jobs!Spoiled
<1>13. Jobs!Cached'
  BY <1>1, <1>3, <1>7 DEF Jobs!Cached
<1> QED
  BY <1>5, <1>7, <1>8, <1>9, <1>10, <1>11, <1>12, <1>13 DEF Jobs!JobsInv

\* The grep is the only job.
LEMMA JobsQueueGrep ==
  ASSUME Jobs!JobsInv, NEW m, NEW c, Came(m, c), Jobs!QueueGrep(m, c)
  PROVE  Jobs!JobsInv'
<1>1. /\ Jobs!TypeOK /\ v10 \in Jobs!Lists /\ v11 \in Jobs!Lists /\ v12 \subseteq 0..MaxMsgs
      /\ Jobs!OneJob /\ Jobs!Tracked /\ Jobs!Placed /\ Jobs!Spoiled /\ Jobs!Cached
  BY DEF Jobs!JobsInv, Jobs!Typed
<1>2. m \in Jobs!Messages /\ c \in BOOLEAN /\ (m.seq < v5 => m.n < Jobs!Read')
      /\ (c => v3 /\ v17[m.n] = "sent")
  BY DEF Came
<1>3. /\ ~(m.seq < v5) /\ ~v4 /\ v5' = m.seq /\ v3' = c /\ v6' = v6 \ {m}
      /\ v17' = [v17 EXCEPT ![m.n] = "started"]
      /\ v4' = TRUE /\ v13' = "runs" /\ v14' = m /\ v15' \in 0..MaxOutput
      /\ v18' = v18 \cup IF c /\ v17[m.n] = "sent" THEN {m.n} ELSE {}
      /\ UNCHANGED <<v7, v8, v9, v10, v11, v12, v16, v19, v20>>
  BY DEF Jobs!QueueGrep, Jobs!Begins, Jobs!Idle, Jobs!Old, Jobs!Handled, Jobs!Becomes,
         Jobs!pool, Jobs!lists
<1>4. /\ "started" \in Jobs!Fates \ {"none"}
      /\ "started" \in {"dropped", "postponed", "started", "written", "failed"}
  BY DEF Jobs!Fates
<1>5. Jobs!Sequenced' /\ v5' \in 0..MaxMsgs /\ v5 <= v5'
  BY <1>3, JobsSequenced
<1>6. /\ v17' \in [1..MaxMsgs -> Jobs!Fates] /\ v6' \subseteq Jobs!Messages
      /\ v1' \in Seq(Jobs!Messages) /\ v2' \in 0..MaxMsgs /\ Jobs!Read' \in Nat
      /\ \A i \in 1..Len(v1') :
            v1'[i].n = Jobs!Read' + i /\ v17'[Jobs!Read' + i] = "sent"
      /\ \A n \in 1..MaxMsgs : n <= v2' <=> v17'[n] # "none"
      /\ \A k \in v6' : k.n <= Jobs!Read' /\ v17'[k.n] = "postponed"
      /\ \A k, l \in v6' : k.n = l.n => k = l
      /\ m.n \in 1..MaxMsgs /\ v17'[m.n] = "started"
  BY <1>3, <1>4, JobsTracked
<1>7. /\ Jobs!ListsLive' /\ Jobs!DroppedForNewer'
      /\ Jobs!CancelledForNewer'
      /\ v8 \in {"queued", "runs"} => v17'[v7.n] = "started"
      /\ v13 # "none" => v17'[v14.n] = "started"
      /\ \A i \in v12 \cup {v11.id} : i # 0 => v17'[i] \in {"answered", "no_list"}
  BY <1>2, <1>3, <1>4, JobsFates
<1>s. /\ v18 \subseteq v18' /\ v18' \subseteq 1..MaxMsgs /\ (c => m.n \in v18')
      /\ m # Jobs!None /\ m.n \in 1..MaxMsgs /\ m.seq \in 1..MaxMsgs
  BY <1>1, <1>2, <1>3, JobsFields DEF Jobs!TypeOK
<1>n. v7 = Jobs!None /\ v8 = "none" /\ v13 = "none" /\ v14 = Jobs!None
  BY <1>1, <1>3 DEF Jobs!OneJob, Jobs!Placed
<1>8. Jobs!Answered' /\ Jobs!AnswersInOrder' /\ v16' \in Seq(Jobs!Messages)
  <2>1. /\ v16 \in Seq(Jobs!Messages) /\ Jobs!AnswersInOrder
        /\ \A i \in 1..Len(v16) : v16[i].seq <= v5
    BY DEF Jobs!JobsInv, Jobs!Typed, Jobs!Answered
  <2>2. \A i \in 1..Len(v16) : v16[i].seq \in Nat
    BY <2>1, JobsFields
  <2>3. v5 \in Nat /\ m.seq \in Nat /\ v5 <= m.seq
    BY <1>1, <1>2, <1>3, JobsFields DEF Jobs!TypeOK
  <2>4. \A i \in 1..Len(v16) : v16[i].seq <= m.seq
    BY <2>1, <2>2, <2>3
  <2>5. Jobs!Answered'
    BY <1>3, <1>n, <2>3, <2>4 DEF Jobs!Answered
  <2> QED
    BY <1>3, <2>1, <2>5 DEF Jobs!AnswersInOrder
<1>9. Jobs!Tracked'
  BY <1>3, <1>6, <1>n DEF Jobs!Tracked
<1>10. Jobs!Typed'
  BY <1>1, <1>2, <1>3, <1>5, <1>6, <1>8, <1>s DEF Jobs!Typed, Jobs!TypeOK
<1>11. Jobs!OneJob' /\ Jobs!Placed'
  BY <1>1, <1>3, <1>s, <1>n DEF Jobs!OneJob, Jobs!Placed
<1>12. Jobs!Spoiled'
  BY <1>3, <1>s, <1>n DEF Jobs!Spoiled
<1>13. Jobs!Cached'
  BY <1>1, <1>3, <1>7, <1>n DEF Jobs!Cached
<1> QED
  BY <1>5, <1>7, <1>8, <1>9, <1>10, <1>11, <1>12, <1>13 DEF Jobs!JobsInv
-----------------------------------------------------------------------------
(* The pool, the grep and their callbacks.                                 *)

\* Only the job's message gets another fate: what is said of those that wait
\* stays true.
LEMMA JobsStill ==
  ASSUME Jobs!JobsInv, UNCHANGED <<v1, v2, v5, v6>>,
         v17' \in [1..MaxMsgs -> Jobs!Fates],
         \A n \in 1..MaxMsgs : v17'[n] # v17[n] =>
            v17[n] = "started" /\ v17'[n] \in {"answered", "no_list", "cancelled"}
  PROVE  /\ Jobs!Read' \in Nat /\ Jobs!Sequenced' /\ Jobs!DroppedForNewer'
         /\ v1' \in Seq(Jobs!Messages)
         /\ \A i \in 1..Len(v1') :
               v1'[i].n = Jobs!Read' + i /\ v17'[Jobs!Read' + i] = "sent"
         /\ \A n \in 1..MaxMsgs : n <= v2' <=> v17'[n] # "none"
         /\ \A k \in v6' : k.n <= Jobs!Read' /\ v17'[k.n] = "postponed"
         /\ \A k, l \in v6' : k.n = l.n => k = l
         /\ v20' = v20 => Jobs!ListsLive'
         /\ \A i \in v12 \cup {v11.id} : i # 0 => v17'[i] \in {"answered", "no_list"}
<1>1. /\ v1 \in Seq(Jobs!Messages) /\ v6 \subseteq Jobs!Messages
      /\ v12 \subseteq 0..MaxMsgs /\ v11.id \in 0..MaxMsgs
  BY DEF Jobs!JobsInv, Jobs!Typed, Jobs!TypeOK, Jobs!Lists
<1>2. /\ Jobs!Read \in Nat
      /\ \A i \in 1..Len(v1) : v1[i].n = Jobs!Read + i /\ v17[Jobs!Read + i] = "sent"
      /\ \A n \in 1..MaxMsgs : n <= v2 <=> v17[n] # "none"
      /\ \A k \in v6 : k.n <= Jobs!Read /\ v17[k.n] = "postponed"
      /\ \A k, l \in v6 : k.n = l.n => k = l
  BY DEF Jobs!JobsInv, Jobs!Tracked
<1>3. Jobs!Read' = Jobs!Read
  BY DEF Jobs!Read
<1>4. Jobs!Sequenced'
  BY <1>3 DEF Jobs!JobsInv, Jobs!Sequenced
<1>5. \A n \in 1..MaxMsgs : v17[n] # "started" => v17'[n] = v17[n]
  OBVIOUS
<1>6. \A i \in 1..Len(v1) : Jobs!Read + i \in 1..MaxMsgs
  <2> SUFFICES ASSUME NEW i \in 1..Len(v1) PROVE Jobs!Read + i \in 1..MaxMsgs
    OBVIOUS
  <2>1. v1[i] \in Jobs!Messages /\ v1[i].n = Jobs!Read + i
    BY <1>1, <1>2
  <2> QED
    BY <2>1, JobsFields
<1>7. \A i \in 1..Len(v1') :
         v1'[i].n = Jobs!Read' + i /\ v17'[Jobs!Read' + i] = "sent"
  BY <1>2, <1>3, <1>5, <1>6
<1>8. \A n \in 1..MaxMsgs : n <= v2' <=> v17'[n] # "none"
  BY <1>2
<1>9. \A k \in v6' : k.n <= Jobs!Read' /\ v17'[k.n] = "postponed"
  BY <1>1, <1>2, <1>3, <1>5, JobsFields
<1>10. Jobs!DroppedForNewer'
  <2>1. Jobs!DroppedForNewer
    BY DEF Jobs!JobsInv
  <2>2. \A n \in 1..MaxMsgs : v17'[n] = "dropped" => v17[n] = "dropped"
    OBVIOUS
  <2>3. \A n \in 1..MaxMsgs : v17[n] # "none" => v17'[n] # "none"
    OBVIOUS
  <2> QED
    BY <2>1, <2>2, <2>3 DEF Jobs!DroppedForNewer
<1>11. ASSUME v20' = v20 PROVE Jobs!ListsLive'
  <2>1. Jobs!ListsLive
    BY DEF Jobs!JobsInv
  <2> QED
    BY <1>5, <1>11, <2>1 DEF Jobs!ListsLive
<1>12. \A i \in v12 \cup {v11.id} : i # 0 => v17'[i] \in {"answered", "no_list"}
  <2>1. \A i \in v12 \cup {v11.id} : i # 0 => v17[i] \in {"answered", "no_list"}
    BY DEF Jobs!JobsInv, Jobs!Cached
  <2>2. \A i \in v12 \cup {v11.id} : i # 0 => i \in 1..MaxMsgs
    BY <1>1
  <2> QED
    BY <1>5, <2>1, <2>2
<1> QED
  BY <1>1, <1>2, <1>3, <1>4, <1>7, <1>8, <1>9, <1>10, <1>11, <1>12

\* An answer to a query that is not older than those that have one.
LEMMA JobsAnswer ==
  ASSUME Jobs!JobsInv, NEW m \in Jobs!Messages, v16' = Append(v16, m),
         \A i \in 1..Len(v16) : v16[i].seq <= m.seq,
         m.seq <= v5, v5' = v5, v7' \in {m, Jobs!None}, v13' = "none"
  PROVE  Jobs!Answered' /\ Jobs!AnswersInOrder' /\ v16' \in Seq(Jobs!Messages)
<1>1. v16 \in Seq(Jobs!Messages) /\ Jobs!AnswersInOrder
  BY DEF Jobs!JobsInv, Jobs!Typed
<1>2. /\ v16' \in Seq(Jobs!Messages) /\ Len(v16) \in Nat /\ Len(v16') = Len(v16) + 1
      /\ \A i \in 1..Len(v16) : v16'[i] = v16[i]
      /\ v16'[Len(v16) + 1] = m
  BY <1>1, AppendProperties
<1>3. m.seq \in Nat /\ v5 \in Nat /\ \A i \in 1..Len(v16) : v16[i].seq \in Nat
  BY <1>1, JobsFields DEF Jobs!JobsInv, Jobs!Typed, Jobs!TypeOK
<1>4. \A i \in 1..Len(v16') : i \in 1..Len(v16) \/ i = Len(v16) + 1
  BY <1>2
<1>5. \A i \in 1..Len(v16') : v16'[i].seq <= m.seq
  BY <1>2, <1>3, <1>4
<1>6. \A i \in 1..Len(v16') : v16'[i].seq \in Nat
  BY <1>2, <1>3, <1>4
<1>7. Jobs!Answered'
  BY <1>3, <1>5, <1>6 DEF Jobs!Answered
<1>8. \A i \in 2..Len(v16') : v16'[i - 1].seq <= v16'[i].seq
  <2> SUFFICES ASSUME NEW i \in 2..Len(v16') PROVE v16'[i - 1].seq <= v16'[i].seq
    OBVIOUS
  <2>1. i - 1 \in 1..Len(v16)
    BY <1>2
  <2>2. CASE i \in 2..Len(v16)
    BY <1>1, <1>2, <2>1, <2>2 DEF Jobs!AnswersInOrder
  <2>3. CASE i = Len(v16) + 1
    BY <1>2, <2>1, <2>3
  <2> QED
    BY <1>2, <2>2, <2>3
<1> QED
  BY <1>2, <1>7, <1>8 DEF Jobs!AnswersInOrder

\* The pool takes the message it has.
LEMMA JobsPoolTakes ==
  ASSUME Jobs!JobsInv, Jobs!PoolTakes
  PROVE  Jobs!JobsInv'
<1>1. /\ Jobs!TypeOK /\ v10 \in Jobs!Lists /\ v11 \in Jobs!Lists /\ v12 \subseteq 0..MaxMsgs
      /\ v16 \in Seq(Jobs!Messages) /\ v17 \in [1..MaxMsgs -> Jobs!Fates]
      /\ Jobs!OneJob /\ Jobs!Tracked /\ Jobs!Placed /\ Jobs!Answered /\ Jobs!Spoiled
      /\ Jobs!Cached /\ Jobs!CancelledForNewer
  BY DEF Jobs!JobsInv, Jobs!Typed
<1>2. v8 = "queued" /\ v8' = "runs"
      /\ UNCHANGED <<v1, v2, v3, v4, v5, v6, v7, v9, v10, v11, v12, v13, v14, v15, v16, v17, v18, v19, v20>>
  BY DEF Jobs!PoolTakes, Jobs!flags, Jobs!pool, Jobs!lists, Jobs!child, Jobs!seen
<1>3. /\ v17' \in [1..MaxMsgs -> Jobs!Fates] /\ v17' = v17
      /\ \A n \in 1..MaxMsgs : v17'[n] # v17[n] =>
            v17[n] = "started" /\ v17'[n] \in {"answered", "no_list", "cancelled"}
  BY <1>1, <1>2
<1>4. /\ Jobs!Read' \in Nat /\ Jobs!Sequenced' /\ Jobs!DroppedForNewer'
      /\ v1' \in Seq(Jobs!Messages)
      /\ \A i \in 1..Len(v1') :
            v1'[i].n = Jobs!Read' + i /\ v17'[Jobs!Read' + i] = "sent"
      /\ \A n \in 1..MaxMsgs : n <= v2' <=> v17'[n] # "none"
      /\ \A k \in v6' : k.n <= Jobs!Read' /\ v17'[k.n] = "postponed"
      /\ \A k, l \in v6' : k.n = l.n => k = l
      /\ v20' = v20 => Jobs!ListsLive'
      /\ \A i \in v12 \cup {v11.id} : i # 0 => v17'[i] \in {"answered", "no_list"}
  BY <1>2, <1>3, JobsStill
<1>5. Jobs!Answered' /\ Jobs!AnswersInOrder' /\ v16' \in Seq(Jobs!Messages)
  BY <1>1, <1>2, JobsAnswers DEF Jobs!TypeOK
<1>6. Jobs!ListsLive'
  BY <1>2, <1>4
<1>7. Jobs!CancelledForNewer'
  BY <1>1, <1>2, <1>3 DEF Jobs!CancelledForNewer
<1>8. Jobs!Tracked'
  BY <1>1, <1>2, <1>4, <1>3 DEF Jobs!Tracked
<1>9. Jobs!Typed'
  BY <1>1, <1>2, <1>3, <1>4, <1>5 DEF Jobs!Typed, Jobs!TypeOK
<1>10. Jobs!OneJob' /\ Jobs!Placed'
  BY <1>1, <1>2 DEF Jobs!OneJob, Jobs!Placed
<1>11. Jobs!Spoiled'
  BY <1>1, <1>2 DEF Jobs!Spoiled
<1>12. Jobs!Cached'
  BY <1>1, <1>2, <1>4 DEF Jobs!Cached
<1> QED
  BY <1>4, <1>5, <1>6, <1>7, <1>8, <1>9, <1>10, <1>11, <1>12 DEF Jobs!JobsInv

\* The list that the message replaces is freed; no search has it.
LEMMA JobsInitFile ==
  ASSUME Jobs!JobsInv, Jobs!InitFile
  PROVE  Jobs!JobsInv'
<1>1. /\ Jobs!TypeOK /\ v10 \in Jobs!Lists /\ v11 \in Jobs!Lists /\ v12 \subseteq 0..MaxMsgs
      /\ v16 \in Seq(Jobs!Messages) /\ v17 \in [1..MaxMsgs -> Jobs!Fates]
      /\ Jobs!OneJob /\ Jobs!Tracked /\ Jobs!Placed /\ Jobs!Answered /\ Jobs!Spoiled
      /\ Jobs!Cached /\ Jobs!CancelledForNewer
  BY DEF Jobs!JobsInv, Jobs!Typed
<1>2. /\ v8 = "runs" /\ v7.cmd = "init" /\ v8' = "after"
      /\ v12' = v12 \cup (IF v11.len > 0 THEN {v11.id} ELSE {})
      /\ \/ \E n \in 0..MaxFiles : v11' = [id |-> v7.n, len |-> n]
         \/ v11' = [v11 EXCEPT !.id = v7.n]
      /\ \/ v16' = Append(v16, v7) /\ v17' = [v17 EXCEPT ![v7.n] = "answered"]
         \/ v16' = v16 /\ v17' = [v17 EXCEPT ![v7.n] = "no_list"]
      /\ UNCHANGED <<v1, v2, v3, v4, v5, v6, v7, v9, v10, v13, v14, v15, v18, v19, v20>>
  BY DEF Jobs!InitFile, Jobs!Answer, Jobs!Becomes, Jobs!flags, Jobs!pool, Jobs!lists, Jobs!child, Jobs!seen
<1>m. /\ v7 \in Jobs!Messages /\ v7.n \in 1..MaxMsgs /\ v7 # Jobs!None
      /\ v17[v7.n] = "started" /\ v7.seq \in Nat /\ v7.n # 0
  BY <1>1, <1>2, JobsFields DEF Jobs!Tracked, Jobs!Placed, Jobs!TypeOK
<1>n. v13 = "none" /\ v14 = Jobs!None
  BY <1>1, <1>m DEF Jobs!OneJob, Jobs!Placed
<1>l. v11'.id = v7.n /\ v11' \in Jobs!Lists
  <2>1. v7.n \in 0..MaxMsgs
    BY <1>m
  <2>2. CASE \E n \in 0..MaxFiles : v11' = [id |-> v7.n, len |-> n]
    BY <2>1, <2>2 DEF Jobs!Lists
  <2>3. CASE v11' = [v11 EXCEPT !.id = v7.n]
    BY <1>1, <2>1, <2>3 DEF Jobs!Lists
  <2> QED
    BY <1>2, <2>2, <2>3
<1>f. /\ v17' \in [1..MaxMsgs -> Jobs!Fates]
      /\ \A n \in 1..MaxMsgs : n # v7.n => v17'[n] = v17[n]
      /\ v17'[v7.n] \in {"answered", "no_list"}
  BY <1>1, <1>2, <1>m DEF Jobs!Fates
<1>3. /\ v17' \in [1..MaxMsgs -> Jobs!Fates]
      /\ \A n \in 1..MaxMsgs : v17'[n] # v17[n] =>
            v17[n] = "started" /\ v17'[n] \in {"answered", "no_list", "cancelled"}
  BY <1>m, <1>f
<1>4. /\ Jobs!Read' \in Nat /\ Jobs!Sequenced' /\ Jobs!DroppedForNewer'
      /\ v1' \in Seq(Jobs!Messages)
      /\ \A i \in 1..Len(v1') :
            v1'[i].n = Jobs!Read' + i /\ v17'[Jobs!Read' + i] = "sent"
      /\ \A n \in 1..MaxMsgs : n <= v2' <=> v17'[n] # "none"
      /\ \A k \in v6' : k.n <= Jobs!Read' /\ v17'[k.n] = "postponed"
      /\ \A k, l \in v6' : k.n = l.n => k = l
      /\ v20' = v20 => Jobs!ListsLive'
      /\ \A i \in v12 \cup {v11.id} : i # 0 => v17'[i] \in {"answered", "no_list"}
  BY <1>2, <1>3, JobsStill
<1>5. Jobs!Answered' /\ Jobs!AnswersInOrder' /\ v16' \in Seq(Jobs!Messages)
  <2>1. CASE v16' = v16
    BY <1>1, <1>2, <1>n, <2>1, JobsAnswers DEF Jobs!TypeOK
  <2>2. CASE v16' = Append(v16, v7)
    <3>1. v7.seq <= v5 /\ \A i \in 1..Len(v16) : v16[i].seq <= v7.seq
      BY <1>1, <1>m DEF Jobs!Answered
    <3> QED
      BY <1>1, <1>2, <1>m, <1>n, <2>2, <3>1, JobsAnswer
  <2> QED
    BY <1>2, <2>1, <2>2
<1>6. Jobs!ListsLive'
  BY <1>2, <1>4
<1>7. Jobs!CancelledForNewer'
  BY <1>1, <1>2, <1>3, <1>m, <1>f DEF Jobs!CancelledForNewer
<1>8. Jobs!Tracked'
  BY <1>1, <1>2, <1>4, <1>n DEF Jobs!Tracked
<1>9. Jobs!Typed'
  <2>1. v12' \subseteq 0..MaxMsgs
    BY <1>1, <1>2 DEF Jobs!Lists
  <2> QED
    BY <1>1, <1>2, <1>3, <1>4, <1>5, <1>l, <2>1 DEF Jobs!Typed, Jobs!TypeOK
<1>10. Jobs!OneJob' /\ Jobs!Placed'
  BY <1>1, <1>2 DEF Jobs!OneJob, Jobs!Placed
<1>11. Jobs!Spoiled'
  BY <1>1, <1>2 DEF Jobs!Spoiled
<1>12. Jobs!Cached'
  <2>1. v11.len > 0 => v11.id # 0
    BY <1>1 DEF Jobs!Cached, Jobs!Lists
  <2>2. v7.n \notin v12'
    BY <1>1, <1>2, <1>m, <2>1 DEF Jobs!Cached
  <2>3. \A i \in v12' \cup {v11'.id} : i # 0 => v17'[i] \in {"answered", "no_list"}
    BY <1>2, <1>4, <1>f, <1>l
  <2>4. 0 \notin v12'
    BY <1>1, <1>2, <2>1 DEF Jobs!Cached
  <2> QED
    BY <1>2, <1>l, <1>m, <2>2, <2>3, <2>4 DEF Jobs!Cached
<1> QED
  BY <1>4, <1>5, <1>6, <1>7, <1>8, <1>9, <1>10, <1>11, <1>12 DEF Jobs!JobsInv

\* A search that finds cancel set is spoiled.
LEMMA JobsSearchCancelled ==
  ASSUME Jobs!JobsInv, Jobs!SearchCancelled
  PROVE  Jobs!JobsInv'
<1>1. /\ Jobs!TypeOK /\ v10 \in Jobs!Lists /\ v11 \in Jobs!Lists /\ v12 \subseteq 0..MaxMsgs
      /\ v16 \in Seq(Jobs!Messages) /\ v17 \in [1..MaxMsgs -> Jobs!Fates]
      /\ Jobs!OneJob /\ Jobs!Tracked /\ Jobs!Placed /\ Jobs!Answered /\ Jobs!Spoiled
      /\ Jobs!Cached /\ Jobs!CancelledForNewer
  BY DEF Jobs!JobsInv, Jobs!Typed
<1>2. /\ v8 = "runs" /\ v3 /\ v8' = "after" /\ v17' = [v17 EXCEPT ![v7.n] = "cancelled"]
      /\ UNCHANGED <<v1, v2, v3, v4, v5, v6, v7, v9, v10, v11, v12, v13, v14, v15, v16, v18, v19, v20>>
  BY DEF Jobs!SearchCancelled, Jobs!Becomes, Jobs!flags, Jobs!pool, Jobs!lists, Jobs!child, Jobs!seen
<1>m. /\ v7 \in Jobs!Messages /\ v7.n \in 1..MaxMsgs /\ v7 # Jobs!None
      /\ v17[v7.n] = "started" /\ v7.seq \in Nat /\ v7.n # 0
  BY <1>1, <1>2, JobsFields DEF Jobs!Tracked, Jobs!Placed, Jobs!TypeOK
<1>n. v13 = "none" /\ v14 = Jobs!None
  BY <1>1, <1>m DEF Jobs!OneJob, Jobs!Placed
<1>f. /\ v17' \in [1..MaxMsgs -> Jobs!Fates]
      /\ \A n \in 1..MaxMsgs : n # v7.n => v17'[n] = v17[n]
      /\ v17'[v7.n] \in {"cancelled"}
  BY <1>1, <1>2, <1>m DEF Jobs!Fates
<1>3. /\ v17' \in [1..MaxMsgs -> Jobs!Fates]
      /\ \A n \in 1..MaxMsgs : v17'[n] # v17[n] =>
            v17[n] = "started" /\ v17'[n] \in {"answered", "no_list", "cancelled"}
  BY <1>m, <1>f
<1>4. /\ Jobs!Read' \in Nat /\ Jobs!Sequenced' /\ Jobs!DroppedForNewer'
      /\ v1' \in Seq(Jobs!Messages)
      /\ \A i \in 1..Len(v1') :
            v1'[i].n = Jobs!Read' + i /\ v17'[Jobs!Read' + i] = "sent"
      /\ \A n \in 1..MaxMsgs : n <= v2' <=> v17'[n] # "none"
      /\ \A k \in v6' : k.n <= Jobs!Read' /\ v17'[k.n] = "postponed"
      /\ \A k, l \in v6' : k.n = l.n => k = l
      /\ v20' = v20 => Jobs!ListsLive'
      /\ \A i \in v12 \cup {v11.id} : i # 0 => v17'[i] \in {"answered", "no_list"}
  BY <1>2, <1>3, JobsStill
<1>5. Jobs!Answered' /\ Jobs!AnswersInOrder' /\ v16' \in Seq(Jobs!Messages)
  BY <1>1, <1>2, JobsAnswers DEF Jobs!TypeOK
<1>6. Jobs!ListsLive'
  BY <1>2, <1>4
<1>7. Jobs!CancelledForNewer'
  <2>1. v7.n \in v18
    BY <1>1, <1>2, <1>m DEF Jobs!Spoiled
  <2> QED
    BY <1>1, <1>2, <1>f, <2>1 DEF Jobs!CancelledForNewer
<1>8. Jobs!Tracked'
  BY <1>1, <1>2, <1>4, <1>n DEF Jobs!Tracked
<1>9. Jobs!Typed'
  BY <1>1, <1>2, <1>3, <1>4, <1>5 DEF Jobs!Typed, Jobs!TypeOK
<1>10. Jobs!OneJob' /\ Jobs!Placed'
  BY <1>1, <1>2 DEF Jobs!OneJob, Jobs!Placed
<1>11. Jobs!Spoiled'
  BY <1>1, <1>2 DEF Jobs!Spoiled
<1>12. Jobs!Cached'
  BY <1>1, <1>2, <1>4 DEF Jobs!Cached
<1> QED
  BY <1>4, <1>5, <1>6, <1>7, <1>8, <1>9, <1>10, <1>11, <1>12 DEF Jobs!JobsInv

\* The search reads the list that is cached.
LEMMA JobsSearchFile ==
  ASSUME Jobs!JobsInv, Jobs!SearchFile
  PROVE  Jobs!JobsInv'
<1>1. /\ Jobs!TypeOK /\ v10 \in Jobs!Lists /\ v11 \in Jobs!Lists /\ v12 \subseteq 0..MaxMsgs
      /\ v16 \in Seq(Jobs!Messages) /\ v17 \in [1..MaxMsgs -> Jobs!Fates]
      /\ Jobs!OneJob /\ Jobs!Tracked /\ Jobs!Placed /\ Jobs!Answered /\ Jobs!Spoiled
      /\ Jobs!Cached /\ Jobs!CancelledForNewer
  BY DEF Jobs!JobsInv, Jobs!Typed
<1>2. /\ v8 = "runs" /\ v7.cmd = "search" /\ v9 < v10.len /\ v9' = v9 + 1
      /\ v20' = v20 \cup (IF v10.id \in v12 THEN {"freed_list"} ELSE {})
            \cup (IF v17[v10.id] = "no_list" THEN {"no_list"} ELSE {})
      /\ UNCHANGED <<v1, v2, v3, v4, v5, v6, v7, v8, v10, v11, v12, v13, v14, v15, v16, v17, v18, v19>>
  BY DEF Jobs!SearchFile, Jobs!flags, Jobs!pool, Jobs!lists, Jobs!child, Jobs!seen
<1>l. v10 = v11 /\ v10.id \notin v12 /\ v10.id \in 1..MaxMsgs
  BY <1>1, <1>2 DEF Jobs!Cached, Jobs!Lists, Jobs!TypeOK
<1>3. /\ v17' \in [1..MaxMsgs -> Jobs!Fates] /\ v17' = v17
      /\ \A n \in 1..MaxMsgs : v17'[n] # v17[n] =>
            v17[n] = "started" /\ v17'[n] \in {"answered", "no_list", "cancelled"}
  BY <1>1, <1>2
<1>4. /\ Jobs!Read' \in Nat /\ Jobs!Sequenced' /\ Jobs!DroppedForNewer'
      /\ v1' \in Seq(Jobs!Messages)
      /\ \A i \in 1..Len(v1') :
            v1'[i].n = Jobs!Read' + i /\ v17'[Jobs!Read' + i] = "sent"
      /\ \A n \in 1..MaxMsgs : n <= v2' <=> v17'[n] # "none"
      /\ \A k \in v6' : k.n <= Jobs!Read' /\ v17'[k.n] = "postponed"
      /\ \A k, l \in v6' : k.n = l.n => k = l
      /\ v20' = v20 => Jobs!ListsLive'
      /\ \A i \in v12 \cup {v11.id} : i # 0 => v17'[i] \in {"answered", "no_list"}
  BY <1>2, <1>3, JobsStill
<1>5. Jobs!Answered' /\ Jobs!AnswersInOrder' /\ v16' \in Seq(Jobs!Messages)
  BY <1>1, <1>2, JobsAnswers DEF Jobs!TypeOK
<1>6. Jobs!ListsLive'
  <2>1. Jobs!ListsLive
    BY DEF Jobs!JobsInv
  <2>2. v20' = v20 \/ (v17[v10.id] = "no_list" /\ v20' = v20 \cup {"no_list"})
    BY <1>2, <1>l
  <2> QED
    BY <1>3, <1>l, <2>1, <2>2 DEF Jobs!ListsLive
<1>7. Jobs!CancelledForNewer'
  BY <1>1, <1>2, <1>3 DEF Jobs!CancelledForNewer
<1>8. Jobs!Tracked'
  BY <1>1, <1>2, <1>4, <1>3 DEF Jobs!Tracked
<1>9. Jobs!Typed'
  <2>1. v9' \in 0..MaxFiles
    BY <1>1, <1>2 DEF Jobs!TypeOK, Jobs!Lists
  <2>2. v20' \subseteq {"freed_list", "no_list", "context"}
    BY <1>1, <1>2 DEF Jobs!TypeOK
  <2> QED
    BY <1>1, <1>2, <1>3, <1>4, <1>5, <2>1, <2>2 DEF Jobs!Typed, Jobs!TypeOK
<1>10. Jobs!OneJob' /\ Jobs!Placed'
  BY <1>1, <1>2 DEF Jobs!OneJob, Jobs!Placed
<1>11. Jobs!Spoiled'
  BY <1>1, <1>2 DEF Jobs!Spoiled
<1>12. Jobs!Cached'
  BY <1>1, <1>2, <1>4 DEF Jobs!Cached
<1> QED
  BY <1>4, <1>5, <1>6, <1>7, <1>8, <1>9, <1>10, <1>11, <1>12 DEF Jobs!JobsInv

\* The search answers its own query.
LEMMA JobsSearchEnds ==
  ASSUME Jobs!JobsInv, Jobs!SearchEnds
  PROVE  Jobs!JobsInv'
<1>1. /\ Jobs!TypeOK /\ v10 \in Jobs!Lists /\ v11 \in Jobs!Lists /\ v12 \subseteq 0..MaxMsgs
      /\ v16 \in Seq(Jobs!Messages) /\ v17 \in [1..MaxMsgs -> Jobs!Fates]
      /\ Jobs!OneJob /\ Jobs!Tracked /\ Jobs!Placed /\ Jobs!Answered /\ Jobs!Spoiled
      /\ Jobs!Cached /\ Jobs!CancelledForNewer
  BY DEF Jobs!JobsInv, Jobs!Typed
<1>2. /\ v8 = "runs" /\ v8' = "after" /\ v16' = Append(v16, v7)
      /\ v17' = [v17 EXCEPT ![v7.n] = "answered"]
      /\ UNCHANGED <<v1, v2, v3, v4, v5, v6, v7, v9, v10, v11, v12, v13, v14, v15, v18, v19, v20>>
  BY DEF Jobs!SearchEnds, Jobs!Answer, Jobs!Becomes, Jobs!flags, Jobs!pool, Jobs!lists, Jobs!child, Jobs!seen
<1>m. /\ v7 \in Jobs!Messages /\ v7.n \in 1..MaxMsgs /\ v7 # Jobs!None
      /\ v17[v7.n] = "started" /\ v7.seq \in Nat /\ v7.n # 0
  BY <1>1, <1>2, JobsFields DEF Jobs!Tracked, Jobs!Placed, Jobs!TypeOK
<1>n. v13 = "none" /\ v14 = Jobs!None
  BY <1>1, <1>m DEF Jobs!OneJob, Jobs!Placed
<1>f. /\ v17' \in [1..MaxMsgs -> Jobs!Fates]
      /\ \A n \in 1..MaxMsgs : n # v7.n => v17'[n] = v17[n]
      /\ v17'[v7.n] \in {"answered"}
  BY <1>1, <1>2, <1>m DEF Jobs!Fates
<1>3. /\ v17' \in [1..MaxMsgs -> Jobs!Fates]
      /\ \A n \in 1..MaxMsgs : v17'[n] # v17[n] =>
            v17[n] = "started" /\ v17'[n] \in {"answered", "no_list", "cancelled"}
  BY <1>m, <1>f
<1>4. /\ Jobs!Read' \in Nat /\ Jobs!Sequenced' /\ Jobs!DroppedForNewer'
      /\ v1' \in Seq(Jobs!Messages)
      /\ \A i \in 1..Len(v1') :
            v1'[i].n = Jobs!Read' + i /\ v17'[Jobs!Read' + i] = "sent"
      /\ \A n \in 1..MaxMsgs : n <= v2' <=> v17'[n] # "none"
      /\ \A k \in v6' : k.n <= Jobs!Read' /\ v17'[k.n] = "postponed"
      /\ \A k, l \in v6' : k.n = l.n => k = l
      /\ v20' = v20 => Jobs!ListsLive'
      /\ \A i \in v12 \cup {v11.id} : i # 0 => v17'[i] \in {"answered", "no_list"}
  BY <1>2, <1>3, JobsStill
<1>5. Jobs!Answered' /\ Jobs!AnswersInOrder' /\ v16' \in Seq(Jobs!Messages)
  <2>1. v7.seq <= v5 /\ \A i \in 1..Len(v16) : v16[i].seq <= v7.seq
    BY <1>1, <1>m DEF Jobs!Answered
  <2> QED
    BY <1>1, <1>2, <1>m, <1>n, <2>1, JobsAnswer
<1>6. Jobs!ListsLive'
  BY <1>2, <1>4
<1>7. Jobs!CancelledForNewer'
  BY <1>1, <1>2, <1>3, <1>m, <1>f DEF Jobs!CancelledForNewer
<1>8. Jobs!Tracked'
  BY <1>1, <1>2, <1>4, <1>n DEF Jobs!Tracked
<1>9. Jobs!Typed'
  BY <1>1, <1>2, <1>3, <1>4, <1>5 DEF Jobs!Typed, Jobs!TypeOK
<1>10. Jobs!OneJob' /\ Jobs!Placed'
  BY <1>1, <1>2 DEF Jobs!OneJob, Jobs!Placed
<1>11. Jobs!Spoiled'
  BY <1>1, <1>2 DEF Jobs!Spoiled
<1>12. Jobs!Cached'
  BY <1>1, <1>2, <1>4 DEF Jobs!Cached
<1> QED
  BY <1>4, <1>5, <1>6, <1>7, <1>8, <1>9, <1>10, <1>11, <1>12 DEF Jobs!JobsInv

\* The job is over when its callback has run.
LEMMA JobsAfter ==
  ASSUME Jobs!JobsInv, Jobs!After
  PROVE  Jobs!JobsInv'
<1>1. /\ Jobs!TypeOK /\ v10 \in Jobs!Lists /\ v11 \in Jobs!Lists /\ v12 \subseteq 0..MaxMsgs
      /\ v16 \in Seq(Jobs!Messages) /\ v17 \in [1..MaxMsgs -> Jobs!Fates]
      /\ Jobs!OneJob /\ Jobs!Tracked /\ Jobs!Placed /\ Jobs!Answered /\ Jobs!Spoiled
      /\ Jobs!Cached /\ Jobs!CancelledForNewer
  BY DEF Jobs!JobsInv, Jobs!Typed
<1>2. /\ v8 = "after" /\ v8' = "none" /\ v7' = Jobs!None /\ v4' = FALSE
      /\ UNCHANGED <<v1, v2, v3, v5, v6, v9, v10, v11, v12, v13, v14, v15, v16, v17, v18, v19, v20>>
  BY DEF Jobs!After, Jobs!flags, Jobs!pool, Jobs!lists, Jobs!child, Jobs!seen
<1>n. v13 = "none" /\ v7 # Jobs!None
  BY <1>1, <1>2 DEF Jobs!OneJob, Jobs!Placed
<1>3. /\ v17' \in [1..MaxMsgs -> Jobs!Fates] /\ v17' = v17
      /\ \A n \in 1..MaxMsgs : v17'[n] # v17[n] =>
            v17[n] = "started" /\ v17'[n] \in {"answered", "no_list", "cancelled"}
  BY <1>1, <1>2
<1>4. /\ Jobs!Read' \in Nat /\ Jobs!Sequenced' /\ Jobs!DroppedForNewer'
      /\ v1' \in Seq(Jobs!Messages)
      /\ \A i \in 1..Len(v1') :
            v1'[i].n = Jobs!Read' + i /\ v17'[Jobs!Read' + i] = "sent"
      /\ \A n \in 1..MaxMsgs : n <= v2' <=> v17'[n] # "none"
      /\ \A k \in v6' : k.n <= Jobs!Read' /\ v17'[k.n] = "postponed"
      /\ \A k, l \in v6' : k.n = l.n => k = l
      /\ v20' = v20 => Jobs!ListsLive'
      /\ \A i \in v12 \cup {v11.id} : i # 0 => v17'[i] \in {"answered", "no_list"}
  BY <1>2, <1>3, JobsStill
<1>5. Jobs!Answered' /\ Jobs!AnswersInOrder' /\ v16' \in Seq(Jobs!Messages)
  BY <1>1, <1>2, JobsAnswers DEF Jobs!TypeOK
<1>6. Jobs!ListsLive'
  BY <1>2, <1>4
<1>7. Jobs!CancelledForNewer'
  BY <1>1, <1>2, <1>3 DEF Jobs!CancelledForNewer
<1>8. Jobs!Tracked'
  BY <1>1, <1>2, <1>4, <1>3 DEF Jobs!Tracked
<1>9. Jobs!Typed'
  BY <1>1, <1>2, <1>3, <1>4, <1>5 DEF Jobs!Typed, Jobs!TypeOK
<1>10. Jobs!OneJob' /\ Jobs!Placed'
  BY <1>1, <1>2, <1>n DEF Jobs!OneJob, Jobs!Placed
<1>11. Jobs!Spoiled'
  BY <1>1, <1>2 DEF Jobs!Spoiled
<1>12. Jobs!Cached'
  BY <1>1, <1>2, <1>4 DEF Jobs!Cached
<1> QED
  BY <1>4, <1>5, <1>6, <1>7, <1>8, <1>9, <1>10, <1>11, <1>12 DEF Jobs!JobsInv

\* A grep whose lines are dropped is spoiled.
LEMMA JobsReadPipe ==
  ASSUME Jobs!JobsInv, Jobs!ReadPipe
  PROVE  Jobs!JobsInv'
<1>1. /\ Jobs!TypeOK /\ v10 \in Jobs!Lists /\ v11 \in Jobs!Lists /\ v12 \subseteq 0..MaxMsgs
      /\ v16 \in Seq(Jobs!Messages) /\ v17 \in [1..MaxMsgs -> Jobs!Fates]
      /\ Jobs!OneJob /\ Jobs!Tracked /\ Jobs!Placed /\ Jobs!Answered /\ Jobs!Spoiled
      /\ Jobs!Cached /\ Jobs!CancelledForNewer
  BY DEF Jobs!JobsInv, Jobs!Typed
<1>2. /\ v13 \in {"runs", "exited"} /\ v15 > 0 /\ v15' = v15 - 1
      /\ v19' = v19 \cup IF v3 THEN {v14.n} ELSE {}
      /\ UNCHANGED <<v1, v2, v3, v4, v5, v6, v7, v8, v9, v10, v11, v12, v13, v14, v16, v17, v18, v20>>
  BY DEF Jobs!ReadPipe, Jobs!flags, Jobs!pool, Jobs!lists, Jobs!child, Jobs!seen
<1>m. v14 \in Jobs!Messages /\ v14.n \in 1..MaxMsgs /\ (v3 => v14.n \in v18)
  BY <1>1, <1>2, JobsFields DEF Jobs!Placed, Jobs!Spoiled, Jobs!TypeOK
<1>3. /\ v17' \in [1..MaxMsgs -> Jobs!Fates] /\ v17' = v17
      /\ \A n \in 1..MaxMsgs : v17'[n] # v17[n] =>
            v17[n] = "started" /\ v17'[n] \in {"answered", "no_list", "cancelled"}
  BY <1>1, <1>2
<1>4. /\ Jobs!Read' \in Nat /\ Jobs!Sequenced' /\ Jobs!DroppedForNewer'
      /\ v1' \in Seq(Jobs!Messages)
      /\ \A i \in 1..Len(v1') :
            v1'[i].n = Jobs!Read' + i /\ v17'[Jobs!Read' + i] = "sent"
      /\ \A n \in 1..MaxMsgs : n <= v2' <=> v17'[n] # "none"
      /\ \A k \in v6' : k.n <= Jobs!Read' /\ v17'[k.n] = "postponed"
      /\ \A k, l \in v6' : k.n = l.n => k = l
      /\ v20' = v20 => Jobs!ListsLive'
      /\ \A i \in v12 \cup {v11.id} : i # 0 => v17'[i] \in {"answered", "no_list"}
  BY <1>2, <1>3, JobsStill
<1>5. Jobs!Answered' /\ Jobs!AnswersInOrder' /\ v16' \in Seq(Jobs!Messages)
  BY <1>1, <1>2, JobsAnswers DEF Jobs!TypeOK
<1>6. Jobs!ListsLive'
  BY <1>2, <1>4
<1>7. Jobs!CancelledForNewer'
  BY <1>1, <1>2, <1>m DEF Jobs!CancelledForNewer
<1>8. Jobs!Tracked'
  BY <1>1, <1>2, <1>4, <1>3 DEF Jobs!Tracked
<1>9. Jobs!Typed'
  <2>1. v15' \in 0..MaxOutput
    BY <1>1, <1>2 DEF Jobs!TypeOK
  <2>2. v19 \subseteq 1..MaxMsgs
    BY <1>1 DEF Jobs!TypeOK
  <2>3. v19' \subseteq 1..MaxMsgs
    BY <1>2, <1>m, <2>2
  <2> QED
    BY <1>1, <1>2, <1>3, <1>4, <1>5, <2>1, <2>3 DEF Jobs!Typed, Jobs!TypeOK
<1>10. Jobs!OneJob' /\ Jobs!Placed'
  BY <1>1, <1>2 DEF Jobs!OneJob, Jobs!Placed
<1>11. Jobs!Spoiled'
  BY <1>1, <1>2 DEF Jobs!Spoiled
<1>12. Jobs!Cached'
  BY <1>1, <1>2, <1>4 DEF Jobs!Cached
<1> QED
  BY <1>4, <1>5, <1>6, <1>7, <1>8, <1>9, <1>10, <1>11, <1>12 DEF Jobs!JobsInv

\* Output that comes late touches the context, and no job.
LEMMA JobsReadPipeLate ==
  ASSUME Jobs!JobsInv, Jobs!ReadPipeLate
  PROVE  Jobs!JobsInv'
<1>1. /\ Jobs!TypeOK /\ v10 \in Jobs!Lists /\ v11 \in Jobs!Lists /\ v12 \subseteq 0..MaxMsgs
      /\ v16 \in Seq(Jobs!Messages) /\ v17 \in [1..MaxMsgs -> Jobs!Fates]
      /\ Jobs!OneJob /\ Jobs!Tracked /\ Jobs!Placed /\ Jobs!Answered /\ Jobs!Spoiled
      /\ Jobs!Cached /\ Jobs!CancelledForNewer
  BY DEF Jobs!JobsInv, Jobs!Typed
<1>2. /\ v15 > 0 /\ v15' = v15 - 1 /\ v20' = v20 \cup {"context"}
      /\ UNCHANGED <<v1, v2, v3, v4, v5, v6, v7, v8, v9, v10, v11, v12, v13, v14, v16, v17, v18, v19>>
  BY DEF Jobs!ReadPipeLate, Jobs!flags, Jobs!pool, Jobs!lists, Jobs!child, Jobs!seen
<1>3. /\ v17' \in [1..MaxMsgs -> Jobs!Fates] /\ v17' = v17
      /\ \A n \in 1..MaxMsgs : v17'[n] # v17[n] =>
            v17[n] = "started" /\ v17'[n] \in {"answered", "no_list", "cancelled"}
  BY <1>1, <1>2
<1>4. /\ Jobs!Read' \in Nat /\ Jobs!Sequenced' /\ Jobs!DroppedForNewer'
      /\ v1' \in Seq(Jobs!Messages)
      /\ \A i \in 1..Len(v1') :
            v1'[i].n = Jobs!Read' + i /\ v17'[Jobs!Read' + i] = "sent"
      /\ \A n \in 1..MaxMsgs : n <= v2' <=> v17'[n] # "none"
      /\ \A k \in v6' : k.n <= Jobs!Read' /\ v17'[k.n] = "postponed"
      /\ \A k, l \in v6' : k.n = l.n => k = l
      /\ v20' = v20 => Jobs!ListsLive'
      /\ \A i \in v12 \cup {v11.id} : i # 0 => v17'[i] \in {"answered", "no_list"}
  BY <1>2, <1>3, JobsStill
<1>5. Jobs!Answered' /\ Jobs!AnswersInOrder' /\ v16' \in Seq(Jobs!Messages)
  BY <1>1, <1>2, JobsAnswers DEF Jobs!TypeOK
<1>6. Jobs!ListsLive'
  <2>1. Jobs!ListsLive
    BY DEF Jobs!JobsInv
  <2> QED
    BY <1>2, <2>1 DEF Jobs!ListsLive
<1>7. Jobs!CancelledForNewer'
  BY <1>1, <1>2, <1>3 DEF Jobs!CancelledForNewer
<1>8. Jobs!Tracked'
  BY <1>1, <1>2, <1>4, <1>3 DEF Jobs!Tracked
<1>9. Jobs!Typed'
  <2>1. v15' \in 0..MaxOutput /\ v20' \subseteq {"freed_list", "no_list", "context"}
    BY <1>1, <1>2 DEF Jobs!TypeOK
  <2> QED
    BY <1>1, <1>2, <1>3, <1>4, <1>5, <2>1 DEF Jobs!Typed, Jobs!TypeOK
<1>10. Jobs!OneJob' /\ Jobs!Placed'
  BY <1>1, <1>2 DEF Jobs!OneJob, Jobs!Placed
<1>11. Jobs!Spoiled'
  BY <1>1, <1>2 DEF Jobs!Spoiled
<1>12. Jobs!Cached'
  BY <1>1, <1>2, <1>4 DEF Jobs!Cached
<1> QED
  BY <1>4, <1>5, <1>6, <1>7, <1>8, <1>9, <1>10, <1>11, <1>12 DEF Jobs!JobsInv

\* A grep that ends has still to be waited for.
LEMMA JobsGrepEnds ==
  ASSUME Jobs!JobsInv, Jobs!GrepEnds
  PROVE  Jobs!JobsInv'
<1>1. /\ Jobs!TypeOK /\ v10 \in Jobs!Lists /\ v11 \in Jobs!Lists /\ v12 \subseteq 0..MaxMsgs
      /\ v16 \in Seq(Jobs!Messages) /\ v17 \in [1..MaxMsgs -> Jobs!Fates]
      /\ Jobs!OneJob /\ Jobs!Tracked /\ Jobs!Placed /\ Jobs!Answered /\ Jobs!Spoiled
      /\ Jobs!Cached /\ Jobs!CancelledForNewer
  BY DEF Jobs!JobsInv, Jobs!Typed
<1>2. v13 = "runs" /\ v13' = "exited"
      /\ UNCHANGED <<v1, v2, v3, v4, v5, v6, v7, v8, v9, v10, v11, v12, v14, v15, v16, v17, v18, v19, v20>>
  BY DEF Jobs!GrepEnds, Jobs!flags, Jobs!pool, Jobs!lists, Jobs!child, Jobs!seen
<1>3. /\ v17' \in [1..MaxMsgs -> Jobs!Fates] /\ v17' = v17
      /\ \A n \in 1..MaxMsgs : v17'[n] # v17[n] =>
            v17[n] = "started" /\ v17'[n] \in {"answered", "no_list", "cancelled"}
  BY <1>1, <1>2
<1>4. /\ Jobs!Read' \in Nat /\ Jobs!Sequenced' /\ Jobs!DroppedForNewer'
      /\ v1' \in Seq(Jobs!Messages)
      /\ \A i \in 1..Len(v1') :
            v1'[i].n = Jobs!Read' + i /\ v17'[Jobs!Read' + i] = "sent"
      /\ \A n \in 1..MaxMsgs : n <= v2' <=> v17'[n] # "none"
      /\ \A k \in v6' : k.n <= Jobs!Read' /\ v17'[k.n] = "postponed"
      /\ \A k, l \in v6' : k.n = l.n => k = l
      /\ v20' = v20 => Jobs!ListsLive'
      /\ \A i \in v12 \cup {v11.id} : i # 0 => v17'[i] \in {"answered", "no_list"}
  BY <1>2, <1>3, JobsStill
<1>5. Jobs!Answered' /\ Jobs!AnswersInOrder' /\ v16' \in Seq(Jobs!Messages)
  BY <1>1, <1>2, JobsAnswers DEF Jobs!TypeOK
<1>6. Jobs!ListsLive'
  BY <1>2, <1>4
<1>7. Jobs!CancelledForNewer'
  BY <1>1, <1>2, <1>3 DEF Jobs!CancelledForNewer
<1>8. Jobs!Tracked'
  BY <1>1, <1>2, <1>4, <1>3 DEF Jobs!Tracked
<1>9. Jobs!Typed'
  BY <1>1, <1>2, <1>3, <1>4, <1>5 DEF Jobs!Typed, Jobs!TypeOK
<1>10. Jobs!OneJob' /\ Jobs!Placed'
  BY <1>1, <1>2 DEF Jobs!OneJob, Jobs!Placed
<1>11. Jobs!Spoiled'
  BY <1>1, <1>2 DEF Jobs!Spoiled
<1>12. Jobs!Cached'
  BY <1>1, <1>2, <1>4 DEF Jobs!Cached
<1> QED
  BY <1>4, <1>5, <1>6, <1>7, <1>8, <1>9, <1>10, <1>11, <1>12 DEF Jobs!JobsInv

\* The grep was the only job; one that was killed is spoiled.
LEMMA JobsOnProcExit ==
  ASSUME Jobs!JobsInv, Jobs!OnProcExit
  PROVE  Jobs!JobsInv'
<1>1. /\ Jobs!TypeOK /\ v10 \in Jobs!Lists /\ v11 \in Jobs!Lists /\ v12 \subseteq 0..MaxMsgs
      /\ v16 \in Seq(Jobs!Messages) /\ v17 \in [1..MaxMsgs -> Jobs!Fates]
      /\ Jobs!OneJob /\ Jobs!Tracked /\ Jobs!Placed /\ Jobs!Answered /\ Jobs!Spoiled
      /\ Jobs!Cached /\ Jobs!CancelledForNewer
  BY DEF Jobs!JobsInv, Jobs!Typed
<1>2. /\ v13 \in {"killed", "exited"} /\ v13' = "none" /\ v14' = Jobs!None /\ v4' = FALSE
      /\ \/ v16' = Append(v16, v14) /\ v17' = [v17 EXCEPT ![v14.n] = "answered"]
         \/ v13 = "killed" /\ v16' = v16 /\ v17' = [v17 EXCEPT ![v14.n] = "cancelled"]
      /\ UNCHANGED <<v1, v2, v3, v5, v6, v7, v8, v9, v10, v11, v12, v15, v18, v19, v20>>
  BY DEF Jobs!OnProcExit, Jobs!Answer, Jobs!Becomes, Jobs!flags, Jobs!pool, Jobs!lists, Jobs!child, Jobs!seen
<1>m. /\ v14 \in Jobs!Messages /\ v14.n \in 1..MaxMsgs /\ v14 # Jobs!None
      /\ v17[v14.n] = "started" /\ v14.seq \in Nat /\ v14.n # 0
  BY <1>1, <1>2, JobsFields DEF Jobs!Tracked, Jobs!Placed, Jobs!TypeOK
<1>n. v7 = Jobs!None /\ v8 = "none"
  BY <1>1, <1>2 DEF Jobs!OneJob, Jobs!Placed
<1>f. /\ v17' \in [1..MaxMsgs -> Jobs!Fates]
      /\ \A n \in 1..MaxMsgs : n # v14.n => v17'[n] = v17[n]
      /\ v17'[v14.n] \in {"answered", "cancelled"}
  BY <1>1, <1>2, <1>m DEF Jobs!Fates
<1>3. /\ v17' \in [1..MaxMsgs -> Jobs!Fates]
      /\ \A n \in 1..MaxMsgs : v17'[n] # v17[n] =>
            v17[n] = "started" /\ v17'[n] \in {"answered", "no_list", "cancelled"}
  BY <1>m, <1>f
<1>4. /\ Jobs!Read' \in Nat /\ Jobs!Sequenced' /\ Jobs!DroppedForNewer'
      /\ v1' \in Seq(Jobs!Messages)
      /\ \A i \in 1..Len(v1') :
            v1'[i].n = Jobs!Read' + i /\ v17'[Jobs!Read' + i] = "sent"
      /\ \A n \in 1..MaxMsgs : n <= v2' <=> v17'[n] # "none"
      /\ \A k \in v6' : k.n <= Jobs!Read' /\ v17'[k.n] = "postponed"
      /\ \A k, l \in v6' : k.n = l.n => k = l
      /\ v20' = v20 => Jobs!ListsLive'
      /\ \A i \in v12 \cup {v11.id} : i # 0 => v17'[i] \in {"answered", "no_list"}
  BY <1>2, <1>3, JobsStill
<1>5. Jobs!Answered' /\ Jobs!AnswersInOrder' /\ v16' \in Seq(Jobs!Messages)
  <2>1. CASE v16' = v16
    BY <1>1, <1>2, <2>1, JobsAnswers DEF Jobs!TypeOK
  <2>2. CASE v16' = Append(v16, v14)
    <3>1. v14.seq <= v5 /\ \A i \in 1..Len(v16) : v16[i].seq <= v14.seq
      BY <1>1, <1>2 DEF Jobs!Answered
    <3> QED
      BY <1>2, <1>m, <1>n, <2>2, <3>1, JobsAnswer
  <2> QED
    BY <1>2, <2>1, <2>2
<1>6. Jobs!ListsLive'
  BY <1>2, <1>4
<1>7. Jobs!CancelledForNewer'
  <2>1. v17'[v14.n] = "cancelled" => v14.n \in v18
    BY <1>1, <1>2, <1>m DEF Jobs!Spoiled
  <2> QED
    BY <1>1, <1>2, <1>f, <2>1 DEF Jobs!CancelledForNewer
<1>8. Jobs!Tracked'
  BY <1>1, <1>2, <1>4, <1>n DEF Jobs!Tracked
<1>9. Jobs!Typed'
  BY <1>1, <1>2, <1>3, <1>4, <1>5 DEF Jobs!Typed, Jobs!TypeOK
<1>10. Jobs!OneJob' /\ Jobs!Placed'
  BY <1>1, <1>2, <1>n DEF Jobs!OneJob, Jobs!Placed
<1>11. Jobs!Spoiled'
  BY <1>1, <1>2 DEF Jobs!Spoiled
<1>12. Jobs!Cached'
  BY <1>1, <1>2, <1>4 DEF Jobs!Cached
<1> QED
  BY <1>4, <1>5, <1>6, <1>7, <1>8, <1>9, <1>10, <1>11, <1>12 DEF Jobs!JobsInv

-----------------------------------------------------------------------------
(* The client, and all together.                                           *)

\* At first nothing has come.
LEMMA JobsInit == Jobs!Init => Jobs!JobsInv
<1> SUFFICES ASSUME Jobs!Init PROVE Jobs!JobsInv
  OBVIOUS
<1>1. /\ v1 = <<>> /\ v2 = 0 /\ v3 = FALSE /\ v4 = FALSE /\ v5 = 0
      /\ v6 = {} /\ v7 = Jobs!None /\ v8 = "none" /\ v9 = 0
      /\ v10 = [id |-> 0, len |-> 0] /\ v11 = [id |-> 0, len |-> 0]
      /\ v12 = {} /\ v20 = {} /\ v13 = "none" /\ v14 = Jobs!None /\ v15 = 0
      /\ v16 = <<>> /\ v17 = [n \in 1..MaxMsgs |-> "none"] /\ v18 = {} /\ v19 = {}
  BY DEF Jobs!Init
<1>2. MaxMsgs \in Nat /\ MaxFiles \in Nat /\ MaxOutput \in Nat
  BY DEF Jobs!JobsAssumption
<1>3. <<>> \in Seq(Jobs!Messages) /\ Len(v1) = 0 /\ Len(v16) = 0
  BY <1>1
<1>4. Jobs!TypeOK
  <2>1. /\ v2 \in 0..MaxMsgs /\ v5 \in 0..MaxMsgs /\ v9 \in 0..MaxFiles
        /\ v15 \in 0..MaxOutput
    BY <1>1, <1>2
  <2>2. /\ v3 \in BOOLEAN /\ v4 \in BOOLEAN
        /\ v8 \in {"none", "queued", "runs", "after"}
        /\ v13 \in {"none", "runs", "killed", "exited"}
    BY <1>1
  <2>3. v7 \in Jobs!Messages \cup {Jobs!None} /\ v14 \in Jobs!Messages \cup {Jobs!None}
    BY <1>1
  <2> QED
    BY <1>1, <2>1, <2>2, <2>3 DEF Jobs!TypeOK
<1>5. Jobs!Typed
  BY <1>1, <1>2, <1>3, <1>4 DEF Jobs!Typed, Jobs!Lists, Jobs!Fates
<1>6. Jobs!OneJob /\ Jobs!ListsLive /\ Jobs!AnswersInOrder
  BY <1>1, <1>3 DEF Jobs!OneJob, Jobs!ListsLive, Jobs!AnswersInOrder
<1>7. Jobs!DroppedForNewer /\ Jobs!CancelledForNewer
  BY <1>1 DEF Jobs!DroppedForNewer, Jobs!CancelledForNewer
<1>8. Jobs!Tracked
  BY <1>1, <1>2, <1>3 DEF Jobs!Tracked, Jobs!Read
<1>9. Jobs!Placed /\ Jobs!Spoiled
  BY <1>1 DEF Jobs!Placed, Jobs!Spoiled
<1>10. Jobs!Sequenced /\ Jobs!Answered
  BY <1>1, <1>3 DEF Jobs!Sequenced, Jobs!Answered
<1>11. Jobs!Cached
  BY <1>1 DEF Jobs!Cached
<1> QED
  BY <1>5, <1>6, <1>7, <1>8, <1>9, <1>10, <1>11 DEF Jobs!JobsInv

\* A message that is sent is of the latest query or of the next.
LEMMA JobsClientSends ==
  ASSUME Jobs!JobsInv, Jobs!ClientSends
  PROVE  Jobs!JobsInv'
<1>1. /\ Jobs!TypeOK /\ v1 \in Seq(Jobs!Messages) /\ v16 \in Seq(Jobs!Messages)
      /\ v10 \in Jobs!Lists /\ v11 \in Jobs!Lists /\ v12 \subseteq 0..MaxMsgs
      /\ v17 \in [1..MaxMsgs -> Jobs!Fates] /\ v2 \in 0..MaxMsgs /\ v5 \in 0..MaxMsgs
      /\ v6 \subseteq Jobs!Messages
      /\ Jobs!OneJob /\ Jobs!ListsLive /\ Jobs!AnswersInOrder /\ Jobs!DroppedForNewer
      /\ Jobs!CancelledForNewer
      /\ Jobs!Tracked /\ Jobs!Placed /\ Jobs!Sequenced /\ Jobs!Answered /\ Jobs!Spoiled
      /\ Jobs!Cached
  BY DEF Jobs!JobsInv, Jobs!Typed, Jobs!TypeOK
<1> DEFINE last == IF v1 # <<>> THEN v1[Len(v1)].seq ELSE v5
<1>2. PICK cmd \in Jobs!Commands, seq \in 1..MaxMsgs :
        /\ seq \in {last, last + 1}
        /\ v1' = Append(v1, [n |-> v2', seq |-> seq, cmd |-> cmd])
        /\ v17' = [v17 EXCEPT ![v2'] = "sent"]
  BY DEF Jobs!ClientSends, Jobs!Becomes
<1>3. /\ v2 < MaxMsgs /\ v2' = v2 + 1
      /\ UNCHANGED <<v3, v4, v5, v6, v7, v8, v9, v10, v11, v12, v13, v14, v15, v16, v18, v19, v20>>
  BY DEF Jobs!ClientSends, Jobs!flags, Jobs!pool, Jobs!lists, Jobs!child
<1> DEFINE m == [n |-> v2', seq |-> seq, cmd |-> cmd]
<1>4. v2' \in 1..MaxMsgs /\ v2' \in Nat
  BY <1>1, <1>3
<1>5. m \in Jobs!Messages /\ m.n = v2' /\ m.seq = seq
  BY <1>4 DEF Jobs!Messages
<1>6. /\ v1' \in Seq(Jobs!Messages) /\ Len(v1) \in Nat /\ Len(v1') = Len(v1) + 1
      /\ \A i \in 1..Len(v1) : v1'[i] = v1[i]
      /\ v1'[Len(v1) + 1] = m
  BY <1>1, <1>2, <1>5, AppendProperties
<1>7. \A i \in 1..Len(v1') : i \in 1..Len(v1) \/ i = Len(v1) + 1
  BY <1>6
<1>8. Jobs!Read' = Jobs!Read /\ Jobs!Read = v2 - Len(v1) /\ Jobs!Read \in Nat
  BY <1>1, <1>3, <1>6 DEF Jobs!Read, Jobs!Tracked
<1>9. /\ v17' \in [1..MaxMsgs -> Jobs!Fates] /\ v17'[v2'] = "sent" /\ v17[v2'] = "none"
      /\ \A n \in 1..MaxMsgs : n # v2' => v17'[n] = v17[n]
  BY <1>1, <1>2, <1>3, <1>4 DEF Jobs!Fates, Jobs!Tracked
<1>10. \A n \in 1..MaxMsgs : v17[n] # "none" => v17'[n] = v17[n]
  BY <1>9
<1> HIDE DEF m
<1>11. /\ \A i \in 1..Len(v1) : v1[i].n = Jobs!Read + i /\ v17[Jobs!Read + i] = "sent"
       /\ \A n \in 1..MaxMsgs : n <= v2 <=> v17[n] # "none"
       /\ \A k \in v6 : k.n <= Jobs!Read /\ v17[k.n] = "postponed"
       /\ \A k, l \in v6 : k.n = l.n => k = l
       /\ v8 \in {"queued", "runs"} => v17[v7.n] = "started"
       /\ v13 # "none" => v17[v14.n] = "started"
  BY <1>1 DEF Jobs!Tracked
<1>12. Jobs!Tracked'
  <2>1. \A i \in 1..Len(v1') : v1'[i].n = Jobs!Read' + i /\ v17'[Jobs!Read' + i] = "sent"
    <3> SUFFICES ASSUME NEW i \in 1..Len(v1')
                 PROVE  v1'[i].n = Jobs!Read' + i /\ v17'[Jobs!Read' + i] = "sent"
      OBVIOUS
    <3>1. CASE i \in 1..Len(v1)
      <4>1. v1[i] \in Jobs!Messages /\ v1[i].n = Jobs!Read + i /\ v17[Jobs!Read + i] = "sent"
        BY <1>1, <1>11, <3>1
      <4>2. Jobs!Read + i \in 1..MaxMsgs
        BY <4>1, JobsFields
      <4> QED
        BY <1>6, <1>8, <1>10, <3>1, <4>1, <4>2
    <3>2. CASE i = Len(v1) + 1
      <4>1. Jobs!Read' + i = v2'
        BY <1>1, <1>3, <1>6, <1>8, <3>2
      <4> QED
        BY <1>5, <1>6, <1>9, <3>2, <4>1
    <3> QED
      BY <1>7, <3>1, <3>2
  <2>2. \A n \in 1..MaxMsgs : n <= v2' <=> v17'[n] # "none"
    BY <1>1, <1>3, <1>9, <1>11
  <2>3. \A k \in v6' : k.n <= Jobs!Read' /\ v17'[k.n] = "postponed"
    BY <1>1, <1>3, <1>8, <1>10, <1>11, JobsFields
  <2>4. v8' \in {"queued", "runs"} => v17'[v7'.n] = "started"
    <3> SUFFICES ASSUME v8 \in {"queued", "runs"} PROVE v17'[v7.n] = "started"
      BY <1>3
    <3>1. v7.n \in 1..MaxMsgs /\ v17[v7.n] = "started"
      BY <1>1, <1>11, JobsFields DEF Jobs!Placed, Jobs!TypeOK
    <3> QED
      BY <1>10, <3>1
  <2>5. v13' # "none" => v17'[v14'.n] = "started"
    <3> SUFFICES ASSUME v13 # "none" PROVE v17'[v14.n] = "started"
      BY <1>3
    <3>1. v14.n \in 1..MaxMsgs /\ v17[v14.n] = "started"
      BY <1>1, <1>11, JobsFields DEF Jobs!Placed, Jobs!TypeOK
    <3> QED
      BY <1>10, <3>1
  <2> QED
    BY <1>3, <1>8, <1>11, <2>1, <2>2, <2>3, <2>4, <2>5 DEF Jobs!Tracked
<1>13. Jobs!Sequenced'
  <2>1. \A i \in 1..Len(v1) : v5 <= v1[i].seq /\ v1[i].seq \in Nat
    BY <1>1, JobsFields DEF Jobs!Sequenced
  <2>2. \A i, j \in 1..Len(v1) : i <= j => v1[i].seq <= v1[j].seq
    BY <1>1 DEF Jobs!Sequenced
  <2>3. last \in Nat /\ v5 <= last /\ \A i \in 1..Len(v1) : v1[i].seq <= last
    <3>1. CASE v1 = <<>>
      BY <1>1, <3>1
    <3>2. CASE v1 # <<>>
      <4>1. Len(v1) \in 1..Len(v1)
        BY <1>1, <3>2
      <4> QED
        BY <2>1, <2>2, <3>2, <4>1
    <3> QED
      BY <3>1, <3>2
  <2> HIDE DEF last
  <2>4. v5 <= m.seq /\ m.seq \in Nat /\ \A i \in 1..Len(v1) : v1[i].seq <= m.seq
    BY <1>1, <1>2, <1>5, <2>1, <2>3
  <2>5. \A i \in 1..Len(v1') : v5 <= v1'[i].seq
    BY <1>6, <1>7, <2>1, <2>4
  <2>6. \A i, j \in 1..Len(v1') : i <= j => v1'[i].seq <= v1'[j].seq
    <3> SUFFICES ASSUME NEW i \in 1..Len(v1'), NEW j \in 1..Len(v1'), i <= j
                 PROVE  v1'[i].seq <= v1'[j].seq
      OBVIOUS
    <3>1. CASE j \in 1..Len(v1)
      <4>1. i \in 1..Len(v1)
        BY <1>6, <3>1
      <4> QED
        BY <1>6, <2>2, <3>1, <4>1
    <3>2. CASE j = Len(v1) + 1 /\ i \in 1..Len(v1)
      BY <1>6, <2>4, <3>2
    <3>3. CASE j = Len(v1) + 1 /\ i = Len(v1) + 1
      BY <1>6, <2>4, <3>3
    <3> QED
      BY <1>7, <3>1, <3>2, <3>3
  <2>7. \A k \in v6 : k.seq <= v5 /\ (k.seq < v5 => k.n < Jobs!Read)
    BY <1>1 DEF Jobs!Sequenced
  <2> QED
    BY <1>3, <1>8, <2>5, <2>6, <2>7 DEF Jobs!Sequenced
<1>14. Jobs!Typed'
  BY <1>1, <1>3, <1>4, <1>6, <1>9 DEF Jobs!Typed, Jobs!TypeOK
<1>15. Jobs!ListsLive'
  BY <1>1, <1>3, <1>10 DEF Jobs!ListsLive
<1>16. Jobs!DroppedForNewer'
  <2>1. \A n \in 1..MaxMsgs : v17'[n] = "dropped" => v17[n] = "dropped"
    BY <1>9
  <2>2. \A n \in 1..MaxMsgs : v17[n] # "none" => v17'[n] # "none"
    BY <1>10
  <2> QED
    BY <1>1, <2>1, <2>2 DEF Jobs!DroppedForNewer
<1>17. Jobs!CancelledForNewer'
  <2>1. \A n \in 1..MaxMsgs : v17'[n] = "cancelled" => v17[n] = "cancelled"
    BY <1>9
  <2> QED
    BY <1>1, <1>3, <2>1 DEF Jobs!CancelledForNewer
<1>18. Jobs!OneJob' /\ Jobs!Placed' /\ Jobs!Spoiled'
  BY <1>1, <1>3 DEF Jobs!OneJob, Jobs!Placed, Jobs!Spoiled
<1>19. Jobs!Answered' /\ Jobs!AnswersInOrder'
  BY <1>1, <1>3 DEF Jobs!Answered, Jobs!AnswersInOrder
<1>20. Jobs!Cached'
  <2>1. \A i \in v12 \cup {v11.id} : i # 0 => v17'[i] \in {"answered", "no_list"}
    <3>1. \A i \in v12 \cup {v11.id} : i # 0 => i \in 1..MaxMsgs
      BY <1>1 DEF Jobs!Lists
    <3>2. \A i \in v12 \cup {v11.id} : i # 0 => v17[i] \in {"answered", "no_list"}
      BY <1>1 DEF Jobs!Cached
    <3> QED
      BY <1>10, <3>1, <3>2
  <2> QED
    BY <1>1, <1>3, <2>1 DEF Jobs!Cached
<1> QED
  BY <1>12, <1>13, <1>14, <1>15, <1>16, <1>17, <1>18, <1>19, <1>20 DEF Jobs!JobsInv

\* Whatever handle_json_msg does with the message.
LEMMA JobsHandles ==
  ASSUME Jobs!JobsInv, NEW m, NEW c, Came(m, c), Jobs!handle_json_msg(m, c)
  PROVE  Jobs!JobsInv'
BY JobsIgnore, JobsPostpone, JobsQueueSearch, JobsWriteMru, JobsQueueGrep, JobsNotSpawned
   DEF Jobs!handle_json_msg

\* A step of the client, the loop, the pool or the grep.
LEMMA JobsNext ==
  ASSUME Jobs!JobsInv, Jobs!Next
  PROVE  Jobs!JobsInv'
<1>1. CASE Jobs!ClientSends
  BY <1>1, JobsClientSends
<1>2. CASE Jobs!Pool
  BY <1>2, JobsPoolTakes, JobsInitFile, JobsSearchCancelled, JobsSearchFile, JobsSearchEnds
     DEF Jobs!Pool
<1>3. CASE Jobs!ReadMessage
  BY <1>3, JobsRead, JobsHandles DEF Jobs!ReadMessage
<1>4. CASE Jobs!Timer
  <2>1. PICK m \in v6 : Jobs!handle_json_msg(m, FALSE) /\ UNCHANGED <<v1, v2>>
    BY <1>4 DEF Jobs!Timer
  <2>2. Came(m, FALSE)
    BY <2>1, JobsTimer
  <2> QED
    BY <2>1, <2>2, JobsHandles
<1>5. CASE Jobs!After \/ Jobs!ReadPipe \/ Jobs!ReadPipeLate \/ Jobs!OnProcExit
  BY <1>5, JobsAfter, JobsReadPipe, JobsReadPipeLate, JobsOnProcExit
<1>6. CASE Jobs!GrepEnds
  BY <1>6, JobsGrepEnds
<1> QED
  BY <1>1, <1>2, <1>3, <1>4, <1>5, <1>6 DEF Jobs!Next, Jobs!Loop

\* A step that changes none of the jobs' variables.
LEMMA JobsUnchanged ==
  ASSUME Jobs!JobsInv, UNCHANGED all
  PROVE  Jobs!JobsInv'
<1>1. UNCHANGED <<v1, v2, v3, v4, v5, v6, v7, v8, v9, v10>>
  BY DEF all
<1>2. UNCHANGED <<v11, v12, v13, v14, v15, v16, v17, v18, v19, v20>>
  BY DEF all
<1>3. /\ Jobs!Typed' /\ Jobs!OneJob' /\ Jobs!ListsLive' /\ Jobs!AnswersInOrder'
      /\ Jobs!DroppedForNewer' /\ Jobs!CancelledForNewer'
  BY <1>1, <1>2 DEF Jobs!JobsInv, Jobs!Typed, Jobs!TypeOK, Jobs!OneJob, Jobs!ListsLive,
     Jobs!AnswersInOrder, Jobs!DroppedForNewer, Jobs!CancelledForNewer
<1>4. Jobs!Tracked' /\ Jobs!Placed' /\ Jobs!Sequenced'
  BY <1>1, <1>2 DEF Jobs!JobsInv, Jobs!Tracked, Jobs!Read, Jobs!Placed, Jobs!Sequenced
<1>5. Jobs!Answered' /\ Jobs!Spoiled' /\ Jobs!Cached'
  BY <1>1, <1>2 DEF Jobs!JobsInv, Jobs!Answered, Jobs!Spoiled, Jobs!Cached
<1> QED
  BY <1>3, <1>4, <1>5 DEF Jobs!JobsInv

\* The invariant of the jobs.
LEMMA JobsInvariant == Safety => [](part = "jobs" => Jobs!JobsInv)
<1> DEFINE Inv == part = "jobs" => Jobs!JobsInv
<1>1. Init => Inv
  BY JobsInit DEF Init
<1>2. Inv /\ [Next]_all => Inv'
  <2> SUFFICES ASSUME Inv, [Next]_all, part' = "jobs" PROVE Jobs!JobsInv'
    OBVIOUS
  <2>1. CASE JobsStep
    BY <2>1, JobsNext DEF JobsStep
  <2>2. CASE UNCHANGED all
    BY <2>2, JobsUnchanged DEF all
  <2>3. /\ ~InputStep /\ ~JoinedStep /\ ~MatchStep /\ ~RankingStep /\ ~PoolStep
        /\ ~ListsStep /\ ~MruStep /\ ~CommandsStep
    BY DEF InputStep, JoinedStep, MatchStep, RankingStep, PoolStep, ListsStep, MruStep,
       CommandsStep
  <2> QED
    BY <2>1, <2>2, <2>3 DEF Next
<1> QED
  BY <1>1, <1>2, PTL DEF Safety

\* The flags of json_msg_handler.c keep one job at a time and its list allocated,
\* answers come in the order of the queries, and a message is dropped or
\* cancelled for a later one only.
THEOREM JobsHold == Safety => []JobsSound
<1>1. (part = "jobs" => Jobs!JobsInv) => JobsSound
  BY DEF JobsSound, Jobs!JobsInv, Jobs!Typed
<1> QED
  BY <1>1, JobsInvariant, PTL

-----------------------------------------------------------------------------
\* The pool of strings.

\* In the block in use everything lies before pos.
BeforePos ==
    \A i \in 1..Len(v5) :
        v5[i].block = v2 => v5[i].at + v5[i].size <= v3

\* pos tells where the next string may go only together with BeforePos.
StringsInv == Pool!TypeOK /\ Pool!InBounds /\ BeforePos /\ Pool!Disjoint /\ Pool!AllFreed

\* The first block, empty.
LEMMA StringsInit == Pool!init_str_pool => StringsInv
BY DEF Pool!PoolAssumption, Pool!init_str_pool, StringsInv, Pool!TypeOK, Pool!InBounds,
   BeforePos, Pool!Disjoint, Pool!AllFreed, Pool!Strings

\* A string is put behind the others of the block in use.
LEMMA StringBehind ==
  ASSUME StringsInv, v6 = <<>>, NEW len \in StringLengths, Pool!PutBehind(len + 1)
  PROVE  StringsInv'
<1> DEFINE n == len + 1
           w == Pool!Written(v2, v3, n)
<1> USE DEF StringsInv
<1>1. /\ n \in Nat /\ v3 \in Nat /\ v4 \in Nat /\ v2 \in Nat
      /\ v3 + n + 1 <= v4 /\ v3' = v3 + n + 1
      /\ v1' = v1 /\ v2' = v2 /\ v4' = v4 /\ v6' = v6
  BY DEF Pool!PoolAssumption, Pool!PutBehind, Pool!Fits, Pool!NextPos, Pool!TypeOK
<1>2. w \in Pool!Strings /\ w.block = v2 /\ w.at = v3 /\ w.at + w.size = v3'
  BY <1>1 DEF Pool!Written, Pool!Strings
<1>3. /\ v5' \in Seq(Pool!Strings) /\ Len(v5') = Len(v5) + 1
      /\ \A i \in 1..Len(v5) : v5'[i] = v5[i]
      /\ v5'[Len(v5) + 1] = w
  <2>1. v5 \in Seq(Pool!Strings) /\ v5' = Append(v5, w)
    BY DEF Pool!TypeOK, Pool!PutBehind
  <2> HIDE DEF w
  <2> QED BY <2>1, <1>2
<1>4. \A i \in 1..Len(v5) : v5[i] \in Pool!Strings
  BY DEF Pool!TypeOK
<1> HIDE DEF w, n
<1>5. Pool!TypeOK'
  BY <1>1, <1>3 DEF Pool!TypeOK
<1>6. Pool!InBounds'
  <2>1. SUFFICES ASSUME NEW i \in 1..Len(v5')
                 PROVE  /\ v5'[i].block \in 1..v2'
                        /\ v5'[i].at + v5'[i].size <= v1'[v5'[i].block]
    BY DEF Pool!InBounds
  <2>2. CASE i \in 1..Len(v5)
    BY <2>2, <1>1, <1>3 DEF Pool!InBounds
  <2>3. CASE i = Len(v5) + 1
    BY <2>3, <1>1, <1>2, <1>3 DEF Pool!TypeOK
  <2> QED BY <2>1, <2>2, <2>3, <1>3
<1>7. BeforePos'
  <2>1. SUFFICES ASSUME NEW i \in 1..Len(v5'), v5'[i].block = v2'
                 PROVE  v5'[i].at + v5'[i].size <= v3'
    BY DEF BeforePos
  <2>2. CASE i \in 1..Len(v5)
    <3>1. /\ v5'[i] = v5[i] /\ v5[i].block = v2
          /\ v5[i].at \in Nat /\ v5[i].size \in Nat
      BY <2>1, <2>2, <1>1, <1>3, <1>4 DEF Pool!Strings
    <3>2. v5[i].at + v5[i].size <= v3
      BY <3>1, <2>2 DEF BeforePos
    <3>3. v3 <= v3'
      BY <1>1
    <3> QED BY <3>1, <3>2, <3>3, <1>1
  <2>3. CASE i = Len(v5) + 1
    BY <2>3, <1>1, <1>2, <1>3
  <2> QED BY <2>1, <2>2, <2>3, <1>3
<1>8. Pool!Disjoint'
  <2>1. SUFFICES ASSUME NEW i \in 1..Len(v5'), NEW j \in 1..Len(v5'),
                        i < j, v5'[i].block = v5'[j].block
                 PROVE  v5'[i].at + v5'[i].size <= v5'[j].at
    BY DEF Pool!Disjoint
  <2>2. CASE j \in 1..Len(v5)
    BY <2>1, <2>2, <1>3 DEF Pool!Disjoint
  <2>3. CASE j = Len(v5) + 1
    BY <2>1, <2>3, <1>1, <1>2, <1>3 DEF BeforePos
  <2> QED BY <2>2, <2>3, <1>3
<1>9. Pool!AllFreed'
  BY <1>1 DEF Pool!AllFreed
<1> QED BY <1>5, <1>6, <1>7, <1>8, <1>9

\* A string that does not fit begins a new block.
LEMMA StringInNewBlock ==
  ASSUME StringsInv, v6 = <<>>, NEW len \in StringLengths, Pool!PutInNewBlock(len + 1)
  PROVE  StringsInv'
<1> DEFINE n == len + 1
           size == v4 + n + 1
           w == Pool!Written(v2 + 1, 0, n)
<1> USE DEF StringsInv
<1>1. /\ n \in Nat /\ v4 \in Nat /\ v2 \in Nat /\ size \in Nat /\ v3' \in 0..v4'
      /\ v3' = n + 1 /\ v4' = size /\ v2' = v2 + 1 /\ v6' = v6
      /\ v1' = Append(v1, size)
  BY DEF Pool!PoolAssumption, Pool!PutInNewBlock, Pool!NextPos, Pool!TypeOK
<1>2. w \in Pool!Strings /\ w.block = v2' /\ w.at = 0 /\ w.at + w.size = v3' /\ w.size <= size
  BY <1>1 DEF Pool!Written, Pool!Strings
<1>3. /\ v5' \in Seq(Pool!Strings) /\ Len(v5') = Len(v5) + 1
      /\ \A i \in 1..Len(v5) : v5'[i] = v5[i]
      /\ v5'[Len(v5) + 1] = w
  <2>1. v5 \in Seq(Pool!Strings) /\ v5' = Append(v5, w)
    BY DEF Pool!TypeOK, Pool!PutInNewBlock
  <2> HIDE DEF w
  <2> QED BY <2>1, <1>2
<1> HIDE DEF w, n, size
<1>4. /\ v1' \in Seq(Nat) /\ Len(v1') = v2' /\ v1'[v2'] = v4'
      /\ \A b \in 1..v2 : v1'[b] = v1[b]
  BY <1>1 DEF Pool!TypeOK
<1>5. Pool!TypeOK'
  BY <1>1, <1>3, <1>4 DEF Pool!TypeOK
<1>6. Pool!InBounds'
  <2>1. SUFFICES ASSUME NEW i \in 1..Len(v5')
                 PROVE  /\ v5'[i].block \in 1..v2'
                        /\ v5'[i].at + v5'[i].size <= v1'[v5'[i].block]
    BY DEF Pool!InBounds
  <2>2. CASE i \in 1..Len(v5)
    BY <2>2, <1>1, <1>3, <1>4 DEF Pool!InBounds
  <2>3. CASE i = Len(v5) + 1
    BY <2>3, <1>1, <1>2, <1>3, <1>4 DEF Pool!TypeOK
  <2> QED BY <2>2, <2>3, <1>3
<1>7. BeforePos'
  <2>1. SUFFICES ASSUME NEW i \in 1..Len(v5'), v5'[i].block = v2'
                 PROVE  v5'[i].at + v5'[i].size <= v3'
    BY DEF BeforePos
  <2>2. CASE i \in 1..Len(v5)
    BY <2>1, <2>2, <1>1, <1>3 DEF Pool!InBounds
  <2>3. CASE i = Len(v5) + 1
    BY <2>3, <1>1, <1>2, <1>3
  <2> QED BY <2>2, <2>3, <1>3
<1>8. Pool!Disjoint'
  <2>1. SUFFICES ASSUME NEW i \in 1..Len(v5'), NEW j \in 1..Len(v5'),
                        i < j, v5'[i].block = v5'[j].block
                 PROVE  v5'[i].at + v5'[i].size <= v5'[j].at
    BY DEF Pool!Disjoint
  <2>2. CASE j \in 1..Len(v5)
    BY <2>1, <2>2, <1>3 DEF Pool!Disjoint
  <2>3. CASE j = Len(v5) + 1
    BY <2>1, <2>3, <1>1, <1>2, <1>3 DEF Pool!InBounds
  <2> QED BY <2>2, <2>3, <1>3
<1>9. Pool!AllFreed'
  BY <1>1 DEF Pool!AllFreed
<1> QED BY <1>5, <1>6, <1>7, <1>8, <1>9

\* Freeing the blocks changes none of them.
LEMMA BlocksFreed == StringsInv /\ Pool!deinit_str_pool => StringsInv'
<1> SUFFICES ASSUME StringsInv, Pool!deinit_str_pool PROVE StringsInv'
  OBVIOUS
<1>1. v6' = [i \in 1..v2 |-> i] /\ UNCHANGED <<v1, v2, v3, v4, v5>>
  BY DEF Pool!deinit_str_pool
<1>2. v2 \in Nat /\ v6' \in Seq(Nat)
  BY <1>1 DEF StringsInv, Pool!TypeOK
<1> QED
  BY <1>1, <1>2 DEF StringsInv, Pool!TypeOK, Pool!InBounds, BeforePos, Pool!Disjoint,
     Pool!AllFreed

\* Every step keeps the invariant.
LEMMA StringsNext ==
  ASSUME StringsInv, [Pool!Next]_Pool!vars
  PROVE  StringsInv'
<1>1. CASE Pool!pool_str
  BY <1>1, StringBehind, StringInNewBlock DEF Pool!pool_str
<1>2. CASE Pool!deinit_str_pool
  BY <1>2, BlocksFreed
<1>3. CASE UNCHANGED Pool!vars
  BY <1>3 DEF Pool!vars, StringsInv, Pool!TypeOK, Pool!InBounds, BeforePos, Pool!Disjoint,
     Pool!AllFreed
<1> QED BY <1>1, <1>2, <1>3 DEF Pool!Next

\* The invariant of the pool.
LEMMA StringsInvariant == Safety => [](part = "pool" => StringsInv)
<1> DEFINE Inv == part = "pool" => StringsInv
<1>1. Init => Inv
  BY StringsInit DEF Init
<1>2. Inv /\ [Next]_all => Inv'
  <2> SUFFICES ASSUME Inv, [Next]_all, part' = "pool" PROVE StringsInv'
    OBVIOUS
  <2>1. CASE PoolStep
    BY <2>1, StringsNext DEF PoolStep
  <2>2. CASE UNCHANGED all
    BY <2>2, StringsNext DEF all, Pool!vars
  <2>3. /\ ~JobsStep /\ ~InputStep /\ ~JoinedStep /\ ~MatchStep /\ ~RankingStep
        /\ ~ListsStep /\ ~MruStep /\ ~CommandsStep
    BY DEF JobsStep, InputStep, JoinedStep, MatchStep, RankingStep, ListsStep, MruStep,
       CommandsStep
  <2> QED
    BY <2>1, <2>2, <2>3 DEF Next
<1> QED
  BY <1>1, <1>2, PTL DEF Safety

\* pool_str writes every string, with both zeros, in its block and behind the others
\* there, what is left of a block is never computed below zero, and deinit_str_pool
\* frees each block once: for any first block and any strings.
THEOREM StringsHold == Safety => []PoolSound
<1>1. (part = "pool" => StringsInv) => PoolSound
  BY DEF PoolSound, StringsInv
<1> QED
  BY <1>1, StringsInvariant, PTL

-----------------------------------------------------------------------------
\* The commands and their memory.

\* A search whose fields have been read.
Asks == v1.parsed /\ v1.cmd \in Command!Lists /\ v1.value # Command!Whole

\* Types; what is kept was loaded.
LoadsTyped ==
  /\ v2 \in {"idle", "queued", "after"} /\ v6 \in 0..MaxLoads
  /\ v4 \in [Command!Lists -> [id : 0..v6, len : 0..MaxLen]]
  /\ v5 \in [Command!Lists -> 0..v6]
  /\ v7 \in [Command!Lists -> [caches : SUBSET (1..v6), pools : SUBSET (1..v6)]]

\* What the server keeps of a list is allocated, and of two lists nothing else is.
Allocated ==
  /\ \A l \in Command!Lists :
        /\ v4[l].id \in v7[l].caches \cup {0} /\ v5[l] \in v7[l].pools \cup {0}
        /\ v4[l].len > 0 => v4[l].id # 0
  /\ \A l \in {"mru", "yank"} : v7[l].caches \subseteq {v4[l].id} /\ v7[l].pools \subseteq {v5[l]}
  /\ v7["file"].caches = v7["file"].pools /\ v4["file"].id = v5["file"]

\* A job that is queued has captured the list as it is, and has not answered.
Captured ==
  v2 = "queued" =>
    /\ v9 = Command!Nothing /\ v3.list \in Command!Lists
    /\ v3.id = v4[v3.list].id /\ v3.len = v4[v3.list].len
    /\ Asks => v3.list = v1.cmd /\ v3.value = v1.value

\* The answer of a search is of its list, as it is.
OfItsList == v9 # Command!Nothing /\ Asks => v9.list = v1.cmd /\ v9.load = v4[v9.list].id

CommandsInv == LoadsTyped /\ Allocated /\ Captured /\ OfItsList /\ v8 = {}

\* Nothing has been loaded.
LEMMA CommandsInit == Command!Init => CommandsInv
<1> SUFFICES ASSUME Command!Init PROVE CommandsInv
  OBVIOUS
<1>1. MaxLoads \in Nat /\ MaxLen \in Nat
  BY DEF Command!CommandsAssumption
<1>2. LoadsTyped
  BY <1>1 DEF Command!Init, Command!NULL, LoadsTyped
<1>3. Allocated
  BY DEF Command!Init, Command!NULL, Command!Lists, Allocated
<1>4. Captured /\ OfItsList /\ v8 = {}
  BY DEF Command!Init, Captured, OfItsList
<1> QED BY <1>2, <1>3, <1>4 DEF CommandsInv

\* The job of a message is about the list that the message names.
LEMMA CommandsHandle ==
  ASSUME CommandsInv, NEW cmd, NEW value, NEW order, Command!handle_json_msg(cmd, value, order)
  PROVE  CommandsInv'
<1> DEFINE f == Command!Fields(Command!Tokens(cmd, value, order))
<1>1. /\ v9' = Command!Nothing /\ UNCHANGED <<v4, v5, v6, v7, v8>>
      /\ v1' = [cmd |-> cmd, value |-> value, parsed |-> f.cmd = cmd /\ f.value = value /\ f.seq = "7"]
      /\ \/ v3' = Command!Queue(f) /\ v2' = IF v3' = Command!NoJob THEN "idle" ELSE "queued"
         \/ v3' = Command!NoJob /\ v2' = "idle"
  BY DEF Command!handle_json_msg, Command!memory
<1> HIDE DEF f
<1>2. LoadsTyped' /\ Allocated'
  <2>1. v2' \in {"idle", "queued", "after"}
    BY <1>1
  <2> QED BY <1>1, <2>1 DEF CommandsInv, LoadsTyped, Allocated
<1>3. Captured'
  <2> SUFFICES ASSUME v2' = "queued"
               PROVE  /\ v3'.list \in Command!Lists
                      /\ v3'.id = v4[v3'.list].id /\ v3'.len = v4[v3'.list].len
                      /\ Asks' => v3'.list = v1'.cmd /\ v3'.value = v1'.value
    BY <1>1 DEF Captured
  <2>1. v3' = Command!Queue(f) /\ v3' # Command!NoJob
    BY <1>1
  <2>2. Asks' => f.cmd = v1'.cmd /\ f.value = v1'.value /\ v1'.cmd \in {"file", "mru", "yank"}
    BY <1>1 DEF Asks, Command!Lists
  <2>3. CASE f.cmd \in {"init_file", "file", "init_path", "path"}
    <3>1. v3' = [list |-> "file", cmd |-> f.cmd, value |-> f.value,
                 id |-> v4["file"].id, len |-> v4["file"].len]
      BY <2>1, <2>3 DEF Command!Queue
    <3> QED BY <2>2, <2>3, <3>1 DEF Command!Lists
  <2>4. CASE f.cmd = "init_mru"
    <3>1. v3' = [list |-> "mru", cmd |-> f.cmd, value |-> Command!Whole,
                 id |-> v4["mru"].id, len |-> v4["mru"].len]
      BY <2>1, <2>4 DEF Command!Queue
    <3> QED BY <2>2, <2>4, <3>1 DEF Command!Lists
  <2>5. CASE f.cmd = "mru"
    <3>1. v3' = [list |-> "mru", cmd |-> f.cmd, value |-> f.value,
                 id |-> v4["mru"].id, len |-> v4["mru"].len]
      BY <2>1, <2>5 DEF Command!Queue
    <3> QED BY <2>2, <2>5, <3>1 DEF Command!Lists
  <2>6. CASE f.cmd = "init_yank"
    <3>1. v3' = [list |-> "yank", cmd |-> f.cmd, value |-> Command!Whole,
                 id |-> v4["yank"].id, len |-> v4["yank"].len]
      BY <2>1, <2>6 DEF Command!Queue
    <3> QED BY <2>2, <2>6, <3>1 DEF Command!Lists
  <2>7. CASE f.cmd = "yank"
    <3>1. v3' = [list |-> "yank", cmd |-> f.cmd, value |-> f.value,
                 id |-> v4["yank"].id, len |-> v4["yank"].len]
      BY <2>1, <2>7 DEF Command!Queue
    <3> QED BY <2>2, <2>7, <3>1 DEF Command!Lists
  <2>8. CASE f.cmd \notin Command!Commands
    BY <2>1, <2>8 DEF Command!Queue, Command!Commands
  <2> QED BY <2>3, <2>4, <2>5, <2>6, <2>7, <2>8 DEF Command!Commands
<1>4. OfItsList' /\ v8' = {}
  BY <1>1 DEF CommandsInv, OfItsList
<1> QED BY <1>2, <1>3, <1>4 DEF CommandsInv

\* What loading a list does to the others, and to the answer.
LEMMA CommandsLoading ==
  ASSUME CommandsInv, NEW l \in Command!Lists, Command!Loading(l)
  PROVE  /\ v6 \in Nat /\ v6' = v6 + 1 /\ v6' \in 0..MaxLoads /\ v2' = "after"
         /\ Captured' /\ OfItsList'
         /\ \A k \in Command!Lists :
               /\ v4[k].id \in 0..v6 /\ v4[k].len \in 0..MaxLen /\ v5[k] \in 0..v6
               /\ v7[k].caches \subseteq 1..v6 /\ v7[k].pools \subseteq 1..v6
<1>1. /\ MaxLoads \in Nat /\ v6 \in 0..MaxLoads /\ v6 < MaxLoads /\ v6' = v6 + 1
      /\ v2 = "queued" /\ v2' = "after" /\ v3.list = l /\ v3.value = Command!Whole /\ v1' = v1
  BY DEF CommandsInv, LoadsTyped, Command!Loading, Command!New, Command!CommandsAssumption
<1>2. ~Asks
  BY <1>1 DEF CommandsInv, Captured, Asks
<1>3. ~Asks'
  BY <1>1, <1>2 DEF Asks
<1>4. Captured' /\ OfItsList'
  BY <1>1, <1>3 DEF Captured, OfItsList
<1>5. \A k \in Command!Lists :
               /\ v4[k].id \in 0..v6 /\ v4[k].len \in 0..MaxLen /\ v5[k] \in 0..v6
               /\ v7[k].caches \subseteq 1..v6 /\ v7[k].pools \subseteq 1..v6
  BY DEF CommandsInv, LoadsTyped
<1> QED BY <1>1, <1>4, <1>5

\* A list that is loaded as number v6 + 1, with what is left of the old one.
LEMMA CommandsLoaded ==
  ASSUME CommandsInv, NEW l \in Command!Lists, Command!Loading(l), v8' = v8,
         NEW c \in [id : {0, v6 + 1}, len : 0..MaxLen],
         NEW a \in [caches : SUBSET (1..v6 + 1), pools : SUBSET (1..v6 + 1)],
         v4' = [v4 EXCEPT ![l] = c], v5' = [v5 EXCEPT ![l] = v6 + 1], v7' = [v7 EXCEPT ![l] = a],
         c.id # 0 => c.id \in a.caches, c.len > 0 => c.id # 0, v6 + 1 \in a.pools,
         l # "file" => a.caches \subseteq {c.id} /\ a.pools \subseteq {v6 + 1},
         l = "file" => a.caches = a.pools /\ c.id = v6 + 1
  PROVE  CommandsInv'
<1>1. /\ v6 \in Nat /\ v6' = v6 + 1 /\ v6' \in 0..MaxLoads /\ v2' = "after"
      /\ Captured' /\ OfItsList'
  BY CommandsLoading
<1>2. /\ v4 \in [Command!Lists -> [id : 0..v6, len : 0..MaxLen]]
      /\ v5 \in [Command!Lists -> 0..v6]
      /\ v7 \in [Command!Lists -> [caches : SUBSET (1..v6), pools : SUBSET (1..v6)]]
  BY DEF CommandsInv, LoadsTyped
<1>3. /\ v4'[l] = c /\ v5'[l] = v6 + 1 /\ v7'[l] = a
      /\ \A k \in Command!Lists : k # l => v4'[k] = v4[k] /\ v5'[k] = v5[k] /\ v7'[k] = v7[k]
  BY <1>2
<1>4. LoadsTyped'
  <2>1. c \in [id : 0..v6', len : 0..MaxLen]
    BY <1>1
  <2>2. \A k \in Command!Lists : v4[k] \in [id : 0..v6', len : 0..MaxLen] /\ v5[k] \in 0..v6'
    BY <1>1, <1>2
  <2>3. \A k \in Command!Lists : v7[k] \in [caches : SUBSET (1..v6'), pools : SUBSET (1..v6')]
    <3> SUFFICES ASSUME NEW k \in Command!Lists
                 PROVE  v7[k] \in [caches : SUBSET (1..v6'), pools : SUBSET (1..v6')]
      OBVIOUS
    <3>1. v7[k] \in [caches : SUBSET (1..v6), pools : SUBSET (1..v6)] /\ 1..v6 \subseteq 1..v6'
      BY <1>1, <1>2
    <3> QED BY <3>1
  <2>4. v4' \in [Command!Lists -> [id : 0..v6', len : 0..MaxLen]]
    BY <1>2, <2>1, <2>2
  <2>5. v5' \in [Command!Lists -> 0..v6']
    BY <1>1, <1>2, <2>2
  <2>6. v7' \in [Command!Lists -> [caches : SUBSET (1..v6'), pools : SUBSET (1..v6')]]
    BY <1>1, <1>2, <2>3
  <2> QED BY <1>1, <2>4, <2>5, <2>6 DEF LoadsTyped
<1>5. Allocated'
  <2>1. \A k \in Command!Lists :
        /\ v4'[k].id \in v7'[k].caches \cup {0} /\ v5'[k] \in v7'[k].pools \cup {0}
        /\ v4'[k].len > 0 => v4'[k].id # 0
    BY <1>3 DEF CommandsInv, Allocated
  <2>2. \A k \in {"mru", "yank"} :
            v7'[k].caches \subseteq {v4'[k].id} /\ v7'[k].pools \subseteq {v5'[k]}
    BY <1>3 DEF CommandsInv, Allocated, Command!Lists
  <2>3. v7'["file"].caches = v7'["file"].pools /\ v4'["file"].id = v5'["file"]
    BY <1>3 DEF CommandsInv, Allocated, Command!Lists
  <2> QED BY <2>1, <2>2, <2>3 DEF Allocated
<1> QED BY <1>1, <1>4, <1>5 DEF CommandsInv

\* The list of files; one that was empty is not freed.
LEMMA CommandsFile ==
  ASSUME CommandsInv, Command!init_file
  PROVE  CommandsInv'
<1>1. "file" \in Command!Lists /\ Command!Loading("file") /\ v8' = v8 /\ MaxLen \in Nat
  BY DEF Command!init_file, Command!Lists, Command!CommandsAssumption
<1>2. /\ v6 \in Nat /\ v4["file"].len \in 0..MaxLen
      /\ v7["file"].caches \subseteq 1..v6 /\ v7["file"].pools \subseteq 1..v6
      /\ v7["file"].caches = v7["file"].pools /\ v4["file"].id = v5["file"]
  BY <1>1, CommandsLoading DEF CommandsInv, Allocated
<1>3. PICK c \in [id : {0, v6 + 1}, len : 0..MaxLen] :
        v4' = [v4 EXCEPT !["file"] = c] /\ c.id = v6 + 1
  <2>1. CASE \E n \in 0..MaxLen : v4' = [v4 EXCEPT !["file"] = [id |-> v6 + 1, len |-> n]]
    <3>1. PICK n \in 0..MaxLen : v4' = [v4 EXCEPT !["file"] = [id |-> v6 + 1, len |-> n]]
      BY <2>1
    <3>2. /\ [id |-> v6 + 1, len |-> n] \in [id : {0, v6 + 1}, len : 0..MaxLen]
          /\ [id |-> v6 + 1, len |-> n].id = v6 + 1
      OBVIOUS
    <3> QED BY <3>1, <3>2
  <2>2. CASE v4' = [v4 EXCEPT !["file"].id = v6 + 1]
    <3>1. v4["file"] \in [id : 0..v6, len : 0..MaxLen]
      BY <1>1 DEF CommandsInv, LoadsTyped
    <3>2. [v4["file"] EXCEPT !.id = v6 + 1] \in [id : {0, v6 + 1}, len : 0..MaxLen]
      BY <3>1
    <3>3. v4' = [v4 EXCEPT !["file"] = [v4["file"] EXCEPT !.id = v6 + 1]]
      BY <2>2
    <3>4. [v4["file"] EXCEPT !.id = v6 + 1].id = v6 + 1
      BY <3>1
    <3> QED BY <3>2, <3>3, <3>4
  <2> QED BY <2>1, <2>2 DEF Command!init_file, Command!New
<1> DEFINE o == Command!Freed_file
           a == [caches |-> o.caches \cup {v6 + 1}, pools |-> o.pools \cup {v6 + 1}]
<1>4. o.caches = o.pools /\ o.caches \subseteq 1..v6
  BY <1>2 DEF Command!Freed_file
<1>5. v5' = [v5 EXCEPT !["file"] = v6 + 1] /\ v7' = [v7 EXCEPT !["file"] = a]
  BY DEF Command!init_file, Command!With, Command!New
<1> HIDE DEF o
<1>6. a \in [caches : SUBSET (1..v6 + 1), pools : SUBSET (1..v6 + 1)]
  <2>1. o.caches \cup {v6 + 1} \subseteq 1..v6 + 1
    BY <1>2, <1>4
  <2> QED BY <1>4, <2>1
<1>7. a.caches = a.pools /\ v6 + 1 \in a.caches
  BY <1>4
<1> HIDE DEF a
<1>8. /\ c.id # 0 => c.id \in a.caches
      /\ c.len > 0 => c.id # 0
  BY <1>2, <1>3, <1>7
<1> QED BY <1>1, <1>3, <1>5, <1>6, <1>7, <1>8, CommandsLoaded

\* The lists whose memory is freed whether they are empty or not.
LEMMA CommandsFreed ==
  ASSUME CommandsInv, NEW l \in {"mru", "yank"}
  PROVE  Command!Freed(l).caches = {} /\ Command!Freed(l).pools = {}
BY DEF CommandsInv, Allocated, Command!Freed

\* The most recently used files; there may be no list but its strings' pool.
LEMMA CommandsMru ==
  ASSUME CommandsInv, Command!init_mru
  PROVE  CommandsInv'
<1>1. "mru" \in Command!Lists /\ Command!Loading("mru") /\ v8' = v8 /\ MaxLen \in Nat
      /\ v5' = [v5 EXCEPT !["mru"] = v6 + 1]
  BY DEF Command!init_mru, Command!Lists, Command!CommandsAssumption, Command!New
<1>2. v6 \in Nat
  BY <1>1, CommandsLoading
<1>3. Command!Freed("mru").caches = {} /\ Command!Freed("mru").pools = {}
  BY CommandsFreed
<1>4. CASE v4' = [v4 EXCEPT !["mru"] = Command!deinit_mru] /\
           v7' = [v7 EXCEPT !["mru"] = [caches |-> Command!Freed("mru").caches,
                                        pools |-> Command!With(Command!Freed("mru")).pools]]
  <2> DEFINE c == [id |-> 0, len |-> 0]
             a == [caches |-> {}, pools |-> {v6 + 1}]
  <2>1. v4' = [v4 EXCEPT !["mru"] = c] /\ v7' = [v7 EXCEPT !["mru"] = a]
    BY <1>3, <1>4 DEF Command!deinit_mru, Command!With, Command!New, Command!NULL
  <2>2. c \in [id : {0, v6 + 1}, len : 0..MaxLen] /\ c.id = 0 /\ c.len = 0
    BY <1>1
  <2>3. a \in [caches : SUBSET (1..v6 + 1), pools : SUBSET (1..v6 + 1)]
    BY <1>2
  <2>4. a.caches = {} /\ a.pools = {v6 + 1} /\ ~(c.len > 0)
    OBVIOUS
  <2> HIDE DEF c, a
  <2> QED BY <1>1, <2>1, <2>2, <2>3, <2>4, CommandsLoaded
<1>5. ASSUME NEW n \in 0..MaxLen, v4' = [v4 EXCEPT !["mru"] = [id |-> v6 + 1, len |-> n]],
             v7' = [v7 EXCEPT !["mru"] = Command!With(Command!Freed("mru"))]
      PROVE  CommandsInv'
  <2> DEFINE c == [id |-> v6 + 1, len |-> n]
             a == [caches |-> {v6 + 1}, pools |-> {v6 + 1}]
  <2>1. v4' = [v4 EXCEPT !["mru"] = c] /\ v7' = [v7 EXCEPT !["mru"] = a]
    BY <1>3, <1>5 DEF Command!With, Command!New
  <2>2. c \in [id : {0, v6 + 1}, len : 0..MaxLen] /\ c.id = v6 + 1 /\ c.id # 0
    BY <1>2
  <2>3. a \in [caches : SUBSET (1..v6 + 1), pools : SUBSET (1..v6 + 1)]
    BY <1>2
  <2>4. a.caches = {v6 + 1} /\ a.pools = {v6 + 1}
    OBVIOUS
  <2> HIDE DEF c, a
  <2> QED BY <1>1, <2>1, <2>2, <2>3, <2>4, CommandsLoaded
<1> QED BY <1>4, <1>5 DEF Command!init_mru, Command!New

\* The yanks.
LEMMA CommandsYank ==
  ASSUME CommandsInv, Command!init_yank
  PROVE  CommandsInv'
<1>1. "yank" \in Command!Lists /\ Command!Loading("yank") /\ v8' = v8 /\ MaxLen \in Nat
      /\ v5' = [v5 EXCEPT !["yank"] = v6 + 1]
  BY DEF Command!init_yank, Command!Lists, Command!CommandsAssumption, Command!New
<1>2. v6 \in Nat
  BY <1>1, CommandsLoading
<1>3. Command!Freed("yank").caches = {} /\ Command!Freed("yank").pools = {}
  BY CommandsFreed
<1>4. PICK n \in 0..MaxLen : v4' = [v4 EXCEPT !["yank"] = [id |-> v6 + 1, len |-> n]]
  BY DEF Command!init_yank, Command!New
<1> DEFINE c == [id |-> v6 + 1, len |-> n]
           a == [caches |-> {v6 + 1}, pools |-> {v6 + 1}]
<1>5. v4' = [v4 EXCEPT !["yank"] = c]
  BY <1>4
<1>6. v7' = [v7 EXCEPT !["yank"] = a]
  BY <1>3 DEF Command!init_yank, Command!With, Command!New
<1>7. c \in [id : {0, v6 + 1}, len : 0..MaxLen] /\ c.id = v6 + 1 /\ c.id # 0
  BY <1>2
<1>8. a \in [caches : SUBSET (1..v6 + 1), pools : SUBSET (1..v6 + 1)]
  BY <1>2
<1>9. a.caches = {v6 + 1} /\ a.pools = {v6 + 1}
  OBVIOUS
<1> HIDE DEF c, a
<1> QED BY <1>1, <1>5, <1>6, <1>7, <1>8, <1>9, CommandsLoaded

\* A search reads the list that was captured, which is the one there is.
LEMMA CommandsSearch ==
  ASSUME CommandsInv, Command!Search
  PROVE  CommandsInv'
<1>1. /\ v2 = "queued" /\ v2' = "after" /\ UNCHANGED <<v1, v3, v4, v5, v6, v7>>
      /\ v9' = [list |-> v3.list, load |-> v3.id, len |-> v3.len]
      /\ v8' = v8 \cup
          (IF v3.len > 0 /\ v3.id \notin v7[v3.list].caches THEN {"freed"} ELSE {})
  BY DEF Command!Search
<1>2. /\ v3.list \in Command!Lists /\ v3.id = v4[v3.list].id /\ v3.len = v4[v3.list].len
      /\ Asks => v3.list = v1.cmd
  BY <1>1 DEF CommandsInv, Captured
<1>3. v8' = {}
  <2>1. v3.len > 0 => v3.id \in v7[v3.list].caches
    BY <1>2 DEF CommandsInv, Allocated
  <2> QED BY <1>1, <2>1 DEF CommandsInv
<1>4. LoadsTyped' /\ Allocated'
  BY <1>1 DEF CommandsInv, LoadsTyped, Allocated
<1>5. Captured'
  BY <1>1 DEF Captured
<1>6. OfItsList'
  <2>1. v9'.list = v3.list /\ v9'.load = v3.id
    BY <1>1
  <2>2. Asks' <=> Asks
    BY <1>1 DEF Asks
  <2> QED BY <1>1, <1>2, <2>1, <2>2 DEF OfItsList
<1> QED BY <1>3, <1>4, <1>5, <1>6 DEF CommandsInv

\* The job is done, or the step is of another part's variables.
LEMMA CommandsAfter ==
  ASSUME CommandsInv, Command!After \/ UNCHANGED <<v1, v2, v3, v4, v5, v6, v7, v8, v9>>
  PROVE  CommandsInv'
<1>1. CASE Command!After
  <2>1. v2' = "idle" /\ UNCHANGED <<v1, v4, v5, v6, v7, v8, v9>>
    BY <1>1 DEF Command!After, Command!memory
  <2>2. LoadsTyped' /\ Allocated' /\ Captured'
    BY <2>1 DEF CommandsInv, LoadsTyped, Allocated, Captured
  <2>3. OfItsList' /\ v8' = {}
    BY <2>1 DEF CommandsInv, OfItsList, Asks
  <2> QED BY <2>2, <2>3 DEF CommandsInv
<1>2. CASE UNCHANGED <<v1, v2, v3, v4, v5, v6, v7, v8, v9>>
  <2>1. LoadsTyped' /\ Allocated'
    BY <1>2 DEF CommandsInv, LoadsTyped, Allocated
  <2>2. Captured' /\ OfItsList' /\ v8' = {}
    BY <1>2 DEF CommandsInv, Captured, OfItsList, Asks
  <2> QED BY <2>1, <2>2 DEF CommandsInv
<1> QED BY <1>1, <1>2

\* The invariant of the commands.
LEMMA CommandsKeep ==
  ASSUME part = "commands" => CommandsInv, [Next]_all, part' = "commands"
  PROVE  part = "commands" /\ CommandsInv'
<1>1. CASE CommandsStep
  BY <1>1, CommandsHandle, CommandsFile, CommandsMru, CommandsYank, CommandsSearch,
     CommandsAfter DEF CommandsStep, Command!Next
<1>2. CASE UNCHANGED all
  BY <1>2, CommandsAfter DEF all
<1>3. /\ ~JobsStep /\ ~InputStep /\ ~JoinedStep /\ ~MatchStep /\ ~RankingStep
      /\ ~PoolStep /\ ~ListsStep /\ ~MruStep
  BY DEF JobsStep, InputStep, JoinedStep, MatchStep, RankingStep, PoolStep, ListsStep,
     MruStep
<1> QED
  BY <1>1, <1>2, <1>3 DEF Next

\* What the server keeps of a list is allocated, a search reads no list that is
\* not there, the memory of lists that are replaced is freed but for lists of
\* files that were empty, and, if its fields were read as they were written, a
\* search is answered from its list as it was loaded last.
THEOREM CommandsHold ==
  Safety => [](part = "commands" =>
                 /\ Command!TypeOK /\ Command!OnlyEmptyLeak /\ v8 = {}
                 /\ Command!Parsed => Command!RightList)
<1> DEFINE Inv == part = "commands" => CommandsInv
           P == part = "commands" =>
                  /\ Command!TypeOK /\ Command!OnlyEmptyLeak /\ v8 = {}
                  /\ Command!Parsed => Command!RightList
<1>1. Init => Inv
  BY CommandsInit DEF Init
<1>2. Inv /\ [Next]_all => Inv'
  BY CommandsKeep
<1>3. Inv => P
  <2> SUFFICES ASSUME CommandsInv
               PROVE  /\ Command!TypeOK /\ Command!OnlyEmptyLeak /\ v8 = {}
                      /\ Command!Parsed => Command!RightList
    OBVIOUS
  <2>1. Command!TypeOK
    BY DEF CommandsInv, LoadsTyped, Allocated, Command!TypeOK, Command!NULL
  <2>2. Command!OnlyEmptyLeak
    BY DEF CommandsInv, Allocated, Command!OnlyEmptyLeak
  <2>3. v8 = {}
    BY DEF CommandsInv
  <2>4. ASSUME Command!Parsed PROVE Command!RightList
    <3>1. ASSUME v9 # Command!Nothing, v1.value # Command!Whole, v1.cmd \in Command!Lists
          PROVE  v9.list = v1.cmd /\ v9.load = v4[v9.list].id
      <4>1. v1.parsed
        BY <2>4, <3>1 DEF Command!Parsed, Command!Lists
      <4> QED BY <3>1, <4>1 DEF CommandsInv, OfItsList, Asks
    <3> QED BY <2>3, <3>1 DEF Command!RightList
  <2> QED BY <2>1, <2>2, <2>3, <2>4
<1> QED BY <1>1, <1>2, <1>3, PTL DEF Safety

\* A list that has a line is not forgotten when the next is loaded.
LEMMA FullFreed ==
  ASSUME CommandsInv, CommandsStep
  PROVE  Command!FullAreFreed
<1> SUFFICES ASSUME NEW l \in Command!Lists, v6' # v6, v4[l].len > 0, v4'[l].id # v4[l].id
             PROVE  v4[l].id \notin v7'[l].caches /\ v5[l] \notin v7'[l].pools
  BY DEF Command!FullAreFreed
<1>1. PICK k \in Command!Lists : Command!Loading(k) /\
        \/ k = "file" /\ Command!init_file
        \/ k = "mru" /\ Command!init_mru
        \/ k = "yank" /\ Command!init_yank
  BY DEF CommandsStep, Command!Next, Command!handle_json_msg, Command!memory, Command!Search,
     Command!After, Command!init_file, Command!init_mru, Command!init_yank, Command!Lists
<1>2. /\ v6 \in Nat /\ v4[l].id \in 0..v6 /\ v5[l] \in 0..v6 /\ v4[l].len \in 0..MaxLen
      /\ v4 \in [Command!Lists -> [id : 0..v6, len : 0..MaxLen]]
      /\ v7 \in [Command!Lists -> [caches : SUBSET (1..v6), pools : SUBSET (1..v6)]]
      /\ MaxLen \in Nat
  BY <1>1, CommandsLoading DEF CommandsInv, LoadsTyped, Command!CommandsAssumption
<1>3. CASE k = "file" /\ Command!init_file
  <2>1. l = "file"
    BY <1>2, <1>3 DEF Command!init_file
  <2>2. v7'["file"] = [caches |-> (v7["file"].caches \ {v4["file"].id}) \cup {v6 + 1},
                       pools |-> (v7["file"].pools \ {v5["file"]}) \cup {v6 + 1}]
    <3>1. v7' = [v7 EXCEPT !["file"] = Command!With(Command!Freed_file)]
      BY <1>3 DEF Command!init_file
    <3>2. Command!Freed_file = [caches |-> v7["file"].caches \ {v4["file"].id},
                                pools |-> v7["file"].pools \ {v5["file"]}]
      BY <1>2, <2>1 DEF Command!Freed_file
    <3>3. v7'["file"] = Command!With(Command!Freed_file)
      BY <1>2, <2>1, <3>1
    <3> QED BY <3>2, <3>3 DEF Command!With, Command!New
  <2> QED BY <1>2, <2>1, <2>2
<1>4. CASE k = "mru" /\ Command!init_mru
  <2>1. l = "mru"
    BY <1>2, <1>4 DEF Command!init_mru
  <2>2. Command!Freed("mru").caches = {} /\ Command!Freed("mru").pools = {}
    BY CommandsFreed
  <2>3. v7'["mru"].caches \subseteq {v6 + 1} /\ v7'["mru"].pools = {v6 + 1}
    BY <1>2, <1>4, <2>1, <2>2 DEF Command!init_mru, Command!With, Command!New
  <2> QED BY <1>2, <2>1, <2>3
<1>5. CASE k = "yank" /\ Command!init_yank
  <2>1. l = "yank"
    BY <1>2, <1>5 DEF Command!init_yank
  <2>2. Command!Freed("yank").caches = {} /\ Command!Freed("yank").pools = {}
    BY CommandsFreed
  <2>3. v7'["yank"].caches = {v6 + 1} /\ v7'["yank"].pools = {v6 + 1}
    BY <1>2, <1>5, <2>1, <2>2 DEF Command!init_yank, Command!With, Command!New
  <2> QED BY <1>2, <2>1, <2>3
<1> QED BY <1>1, <1>3, <1>4, <1>5

\* What is loaded over a list that has a line frees it, with its strings
\* (init_file, init_mru, init_yank): the commands' share of FuzzySteps.
THEOREM FullListsFreed ==
  Safety => [][part = "commands" => Command!FullAreFreed]_all
<1> DEFINE Inv == part = "commands" => CommandsInv
<1>1. Init => Inv
  BY CommandsInit DEF Init
<1>2. Inv /\ [Next]_all => Inv'
  BY CommandsKeep
<1>3. Inv /\ [Next]_all => [part = "commands" => Command!FullAreFreed]_all
  <2> SUFFICES ASSUME Inv, Next, part = "commands" PROVE Command!FullAreFreed
    OBVIOUS
  <2>1. CommandsStep
    BY DEF Next, JobsStep, InputStep, JoinedStep, MatchStep, RankingStep, PoolStep,
       ListsStep, MruStep
  <2> QED BY <2>1, FullFreed
<1> QED BY <1>1, <1>2, <1>3, PTL DEF Safety
=============================================================================
