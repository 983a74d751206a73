---------------------------- MODULE KtForProofs ----------------------------
(***************************************************************************)
(* kt_for and kt_forpool, for any number of threads, jobs, calls and       *)
(* spurious wakeups.  Each job below a counter was done by whoever moved   *)
(* the counter past it; that no job has two counters is arithmetic: the    *)
(* remainder of a job by the number of threads is the counter it is on.    *)
(***************************************************************************)
EXTENDS KtForpool, FiniteSetTheorems, TLAPS

-----------------------------------------------------------------------------
(* Remainders.                                                             *)

\* A multiple of m is no less than m.
LEMMA Multiple ==
  ASSUME NEW m \in Nat \ {0}, NEW d \in Nat \ {0}
  PROVE  m * d >= m
OBVIOUS

\* Quotient and remainder.
LEMMA DivMod ==
  ASSUME NEW a \in Nat, NEW m \in Nat \ {0}
  PROVE  a = m * (a \div m) + (a % m) /\ a % m \in 0..m-1 /\ a \div m \in Nat
<1>1. a = m * (a \div m) + (a % m) /\ a % m \in 0..m-1
  OBVIOUS
<1>2. a \div m \in Nat
  OBVIOUS
<1> QED BY <1>1, <1>2

\* A number between 0 and m that is left over is the remainder.
LEMMA Remainder ==
  ASSUME NEW m \in Nat \ {0}, NEW q \in Nat, NEW r \in 0..m-1
  PROVE  (m * q + r) % m = r
<1> DEFINE a == m * q + r
           p == a \div m
           s == a % m
<1>1. m * q \in Nat /\ a \in Nat
  OBVIOUS
<1>2. a = m * p + s /\ s \in 0..m-1 /\ p \in Nat
  BY <1>1, DivMod
<1> HIDE DEF p, s
<1>3. CASE p > q
  <2>1. p - q \in Nat \ {0} /\ m * (p - q) = m * p - m * q
    BY <1>2, <1>3
  <2>2. m * (p - q) >= m
    BY <2>1, Multiple
  <2> QED BY <1>1, <1>2, <2>1, <2>2
<1>4. CASE p < q
  <2>1. q - p \in Nat \ {0} /\ m * (q - p) = m * q - m * p
    BY <1>2, <1>4
  <2>2. m * (q - p) >= m
    BY <2>1, Multiple
  <2> QED BY <1>1, <1>2, <2>1, <2>2
<1>5. CASE p = q
  <2>1. s = r
    BY <1>1, <1>2, <1>5
  <2> QED BY <2>1 DEF s
<1> QED BY <1>2, <1>3, <1>4, <1>5

\* A number below m is its own remainder.
LEMMA SmallRemainder ==
  ASSUME NEW m \in Nat \ {0}, NEW r \in 0..m-1
  PROVE  r % m = r
OBVIOUS

\* Adding m keeps the remainder.
LEMMA NextRemainder ==
  ASSUME NEW a \in Nat, NEW m \in Nat \ {0}
  PROVE  (a + m) % m = a % m
<1> DEFINE q == a \div m
           r == a % m
<1>1. a = m * q + r /\ r \in 0..m-1 /\ q \in Nat
  BY DivMod
<1> HIDE DEF q, r
<1>2. m * (q + 1) + r = a + m /\ q + 1 \in Nat
  BY <1>1
<1>3. (m * (q + 1) + r) % m = r
  BY <1>1, <1>2, Remainder
<1> QED BY <1>2, <1>3 DEF r

\* Two numbers of one remainder are m apart.
LEMMA RemaindersApart ==
  ASSUME NEW a \in Nat, NEW b \in Nat, NEW m \in Nat \ {0}, a % m = b % m, a < b
  PROVE  a + m <= b
<1> DEFINE q == a \div m
           p == b \div m
           r == a % m
<1>1. a = m * q + r /\ b = m * p + r /\ r \in 0..m-1 /\ q \in Nat /\ p \in Nat
  BY DivMod
<1> HIDE DEF q, p, r
<1>2. p > q
  <2>1. ASSUME p <= q PROVE FALSE
    <3>1. m * p <= m * q
      BY <1>1, <2>1
    <3> QED BY <3>1, <1>1
  <2> QED BY <2>1, <1>1
<1>3. p - q \in Nat \ {0} /\ m * (p - q) = m * p - m * q
  BY <1>1, <1>2
<1>4. m * (p - q) >= m
  BY <1>3, Multiple
<1> QED BY <1>1, <1>3, <1>4

-----------------------------------------------------------------------------
(* Threads, jobs and counters.                                             *)

\* A scan of the counters that has not begun, or has found the least so far.
Scanned(q) ==
    \/ q = Start
    \/ q.at \in 1..n_threads /\ q.min \in Nat /\ q.min_i \in 0..q.at - 1

Cells ==
    /\ n_threads \in Nat \ {0} /\ n \in Nat
    /\ i \in [Threads -> Nat] /\ runs \in [Jobs -> Nat]
    /\ seen \in [Threads -> [at : Nat, min : Int, min_i : Int]]
    /\ \A t \in Threads : Scanned(seen[t])

\* Counter c is at a job of its own.
OnCourse(c) == i[c] % n_threads = c

\* The jobs that counter c has passed have been done.
Passed(c) == \A k \in Jobs : k % n_threads = c /\ k < i[c] => runs[k] > 0

\* The jobs done are those that their counters have passed, and each was once.
Exact == \A k \in Jobs : runs[k] = IF k < i[k % n_threads] THEN 1 ELSE 0

\* Counter c moves on, and the job that it was at is done, if it is one.
Deal(c) ==
    /\ i' = [i EXCEPT ![c] = @ + n_threads]
    /\ IF i[c] >= n THEN UNCHANGED runs ELSE Call(i[c])
    /\ UNCHANGED <<n_threads, n>>

\* A job has a counter.
LEMMA JobsCounter ==
  ASSUME Cells, NEW k \in Jobs
  PROVE  k \in Nat /\ k % n_threads \in Threads
BY DivMod DEF Cells, Jobs, Threads

\* What changes when a counter moves on: it, and the runs of the job it was at.
LEMMA DealCells ==
  ASSUME Cells, NEW c \in Threads, Deal(c)
  PROVE  /\ n_threads' = n_threads /\ n' = n /\ Threads' = Threads /\ Jobs' = Jobs
         /\ i' \in [Threads -> Nat] /\ runs' \in [Jobs -> Nat]
         /\ i'[c] = i[c] + n_threads /\ \A d \in Threads : d # c => i'[d] = i[d]
         /\ i[c] >= n => runs' = runs
         /\ i[c] < n => /\ i[c] \in Jobs /\ runs'[i[c]] = runs[i[c]] + 1
                        /\ \A k \in Jobs : k # i[c] => runs'[k] = runs[k]
<1>1. n_threads' = n_threads /\ n' = n /\ Threads' = Threads /\ Jobs' = Jobs
  BY DEF Deal, Threads, Jobs
<1>2. i[c] \in Nat /\ n \in Nat /\ n_threads \in Nat
  BY DEF Cells
<1>3. /\ i' \in [Threads -> Nat] /\ i'[c] = i[c] + n_threads
      /\ \A d \in Threads : d # c => i'[d] = i[d]
  BY <1>2 DEF Cells, Deal
<1>4. CASE i[c] >= n
  BY <1>1, <1>2, <1>3, <1>4 DEF Cells, Deal
<1>5. CASE i[c] < n
  <2>1. i[c] \in Jobs /\ runs' = [runs EXCEPT ![i[c]] = @ + 1]
    BY <1>2, <1>5 DEF Deal, Call, Jobs
  <2> QED BY <1>1, <1>2, <1>3, <1>5, <2>1 DEF Cells
<1> QED BY <1>2, <1>4, <1>5

\* A counter stays on course, and what it has passed is done.
LEMMA DealPasses ==
  ASSUME Cells, NEW c \in Threads, Deal(c), NEW d \in Threads, OnCourse(d)
  PROVE  OnCourse(d)' /\ (Passed(d) => Passed(d)')
<1>1. i[c] \in Nat /\ i[d] \in Nat /\ n_threads \in Nat \ {0} /\ n \in Nat
  BY DEF Cells
<1>2. i'[d] = i[d] \/ i'[d] = i[d] + n_threads
  BY DealCells
<1>3. OnCourse(d)'
  BY <1>1, <1>2, DealCells, NextRemainder DEF OnCourse
<1>4. ASSUME Passed(d), NEW k \in Jobs, k % n_threads = d, k < i'[d]
      PROVE  runs'[k] > 0
  <2>1. k \in Nat /\ runs[k] \in Nat
    BY JobsCounter DEF Cells
  <2>2. CASE k = i[c]
    <3>1. k < n
      BY <1>1 DEF Jobs
    <3>2. runs'[k] = runs[k] + 1
      BY <2>2, <3>1, DealCells
    <3> QED BY <2>1, <3>2
  <2>3. CASE k # i[c] /\ k < i[d]
    <3>1. runs[k] > 0
      BY <1>4, <2>3 DEF Passed
    <3>2. runs'[k] = runs[k]
      BY <1>1, <2>3, DealCells
    <3> QED BY <3>1, <3>2
  <2>4. CASE k # i[c] /\ k >= i[d]
    <3>1. c = d
      BY <1>1, <1>4, <2>1, <2>4, DealCells
    <3>2. i[d] % n_threads = k % n_threads /\ i[d] < k
      BY <1>1, <1>4, <2>1, <2>4, <3>1 DEF OnCourse
    <3>3. i[d] + n_threads <= k
      BY <1>1, <2>1, <3>2, RemaindersApart
    <3> QED BY <1>1, <1>2, <1>4, <2>1, <3>3
  <2> QED BY <1>1, <2>1, <2>2, <2>3, <2>4
<1>5. Passed(d) => Passed(d)'
  BY <1>4, DealCells DEF Passed
<1> QED BY <1>3, <1>5

\* With all counters on course nobody does a job again.
LEMMA DealExact ==
  ASSUME Cells, NEW c \in Threads, Deal(c), \A d \in Threads : OnCourse(d), Exact
  PROVE  Exact'
<1>1. i[c] \in Nat /\ n_threads \in Nat \ {0} /\ n \in Nat
  BY DEF Cells
<1> SUFFICES ASSUME NEW k \in Jobs
             PROVE  runs'[k] = IF k < i'[k % n_threads] THEN 1 ELSE 0
  BY DealCells DEF Exact
<1> DEFINE d == k % n_threads
<1>2. k \in Nat /\ d \in Threads /\ k < n
  BY JobsCounter, <1>1 DEF Jobs
<1>3. runs[k] = IF k < i[d] THEN 1 ELSE 0
  BY DEF Exact
<1>4. i[d] \in Nat /\ i[d] % n_threads = d
  BY <1>2 DEF Cells, OnCourse
<1>5. CASE k = i[c]
  <2>1. d = c
    BY <1>5 DEF OnCourse
  <2>2. runs'[k] = runs[k] + 1 /\ i'[d] = i[c] + n_threads
    BY <1>1, <1>2, <1>5, <2>1, DealCells
  <2>3. ~(k < i[d]) /\ k < i'[d]
    BY <1>1, <1>2, <1>5, <2>1, <2>2
  <2> QED BY <1>3, <2>2, <2>3
<1>6. CASE k # i[c] /\ d # c
  <2>1. i'[d] = i[d] /\ runs'[k] = runs[k]
    BY <1>1, <1>2, <1>6, DealCells
  <2> QED BY <1>3, <2>1
<1>7. CASE k # i[c] /\ d = c
  <2>1. i'[d] = i[d] + n_threads /\ runs'[k] = runs[k]
    BY <1>1, <1>2, <1>7, DealCells
  <2>2. i[d] < k => i[d] + n_threads <= k
    BY <1>1, <1>2, <1>4, RemaindersApart
  <2>3. k < i'[d] <=> k < i[d]
    <3> HIDE DEF d
    <3> QED BY <1>1, <1>2, <1>4, <1>7, <2>1, <2>2
  <2> QED BY <1>3, <2>1, <2>3
<1> QED BY <1>5, <1>6, <1>7

-----------------------------------------------------------------------------
(* A thread's steps.                                                       *)

\* __sync_fetch_and_add on a thread's own counter.
LEMMA OwnDeals ==
  ASSUME Cells, NEW t \in Threads, Own(t)
  PROVE  /\ pc[t] = "own" /\ Deal(t) /\ Cells'
         /\ pc' = IF i[t] >= n THEN [pc EXCEPT ![t] = "scan"] ELSE pc
<1>1. pc[t] = "own" /\ Deal(t) /\ seen' = seen
      /\ pc' = IF i[t] >= n THEN [pc EXCEPT ![t] = "scan"] ELSE pc
  BY DEF Own, Deal
<1>2. Cells'
  BY <1>1, DealCells DEF Cells, Scanned
<1> QED BY <1>1, <1>2

\* steal_work's atomic addition, to the counter that was the least.
LEMMA TakeDeals ==
  ASSUME Cells, NEW t \in Threads, NEW last, Take(t, last)
  PROVE  /\ pc[t] = "scan" /\ seen[t].min_i \in Threads /\ Deal(seen[t].min_i) /\ Cells'
         /\ pc' = [pc EXCEPT ![t] = last] \/ pc' = pc
<1> DEFINE c == seen[t].min_i
<1>1. n_threads \in Nat \ {0} /\ Scanned(seen[t]) /\ seen[t].at = n_threads
  BY DEF Cells, Take
<1>2. c \in Threads
  BY <1>1 DEF Scanned, Start, Threads
<1>3. /\ pc[t] = "scan" /\ Deal(c) /\ seen' = [seen EXCEPT ![t] = Start]
      /\ pc' = [pc EXCEPT ![t] = last] \/ pc' = pc
  BY DEF Take, Deal, Stolen, Counter
<1>4. /\ n_threads' = n_threads /\ n' = n /\ Threads' = Threads
      /\ i' \in [Threads -> Nat] /\ runs' \in [Jobs' -> Nat]
  BY <1>2, <1>3, DealCells
<1>5. /\ seen' \in [Threads -> [at : Nat, min : Int, min_i : Int]]
      /\ \A u \in Threads : Scanned(seen'[u])
  BY <1>3 DEF Cells, Start, None, Scanned
<1>6. Cells'
  BY <1>1, <1>4, <1>5 DEF Cells, Scanned
<1> QED BY <1>2, <1>3, <1>6

\* steal_work looks at one more counter.
LEMMA ScanLooks ==
  ASSUME Cells, NEW t \in Threads, Scan(t)
  PROVE  Cells' /\ UNCHANGED <<n_threads, n, i, pc, runs>>
<1> DEFINE q == seen[t]
           r == seen'[t]
<1>1. /\ UNCHANGED <<n_threads, n, i, pc, runs>> /\ q.at < n_threads
      /\ seen' = [seen EXCEPT ![t] =
            IF Less(q, t) THEN [at |-> q.at + 1, min |-> i[q.at], min_i |-> q.at]
            ELSE [q EXCEPT !.at = @ + 1]]
  BY DEF Scan
<1>2. n_threads \in Nat /\ q \in [at : Nat, min : Int, min_i : Int] /\ Scanned(q)
  BY DEF Cells
<1>3. q.at \in Threads /\ i[q.at] \in Nat
  BY <1>1, <1>2 DEF Threads, Cells
<1>4. r \in [at : Nat, min : Int, min_i : Int] /\ Scanned(r)
  <2>1. CASE Less(q, t)
    <3>1. r = [at |-> q.at + 1, min |-> i[q.at], min_i |-> q.at]
      BY <1>1, <2>1 DEF Cells
    <3> QED BY <1>1, <1>2, <1>3, <3>1 DEF Scanned
  <2>2. CASE ~Less(q, t)
    <3>1. r = [q EXCEPT !.at = @ + 1]
      BY <1>1, <2>2 DEF Cells
    <3>2. q # Start
      BY <2>2 DEF Less, Start
    <3> QED BY <1>1, <1>2, <3>1, <3>2 DEF Scanned
  <2> QED BY <2>1, <2>2
<1>5. \A u \in Threads : u # t => seen'[u] = seen[u]
  BY <1>1 DEF Cells
<1>6. seen' \in [Threads -> [at : Nat, min : Int, min_i : Int]]
  BY <1>1, <1>4, <1>5 DEF Cells
<1>7. Threads' = Threads /\ Jobs' = Jobs
  BY <1>1 DEF Threads, Jobs
<1> HIDE DEF r, q
<1>8. \A u \in Threads : Scanned(seen'[u])
  BY <1>4, <1>5 DEF Cells, r
<1> QED BY <1>1, <1>6, <1>7, <1>8 DEF Cells, Scanned

-----------------------------------------------------------------------------
(* kt_for.                                                                 *)

\* The threads that have left their own jobs have come to their end; the caller
\* joins threads that have ended, or does the jobs itself.
Ended ==
    /\ main \in [created : 0..n_threads, joined : 0..n_threads]
    /\ pc \in [Threads -> {"none", "own", "scan", "exit"}]
    /\ \A t \in Threads : pc[t] \in {"scan", "exit"} => i[t] >= n
    /\ n_threads > 1 /\ main.joined > 0 => main.created = n_threads
    /\ n_threads > 1 => \A t \in 0..main.joined - 1 : pc[t] = "exit"
    /\ n_threads = 1 => pc[0] = "none" /\ (main.joined = 1 => i[0] >= n)

ForInv == Cells /\ (\A c \in Threads : OnCourse(c)) /\ Exact /\ Ended

\* When the threads are created.
LEMMA ForInit ==
  ASSUME ForAssumption, Init
  PROVE  ForInv
<1>1. n_threads \in Nat \ {0} /\ n \in Nat
  BY DEF ForAssumption, Init
<1>2. Cells
  BY <1>1 DEF Init, Cells, Scanned, Start, None, Threads, Jobs
<1>3. \A c \in Threads : OnCourse(c)
  BY <1>1, SmallRemainder DEF Init, OnCourse, Threads
<1>4. Exact
  <2> SUFFICES ASSUME NEW k \in Jobs PROVE runs[k] = IF k < i[k % n_threads] THEN 1 ELSE 0
    BY DEF Exact
  <2>1. k \in Nat /\ k % n_threads \in Threads
    BY <1>2, JobsCounter
  <2>2. k % n_threads <= k
    <3>1. k = n_threads * (k \div n_threads) + (k % n_threads) /\ k \div n_threads \in Nat
      BY <1>1, <2>1, DivMod
    <3>2. n_threads * (k \div n_threads) \in Nat
      BY <1>1, <3>1
    <3> DEFINE a == n_threads * (k \div n_threads)
               r == k % n_threads
    <3>3. a \in Nat /\ r \in 0..n_threads - 1 /\ k = a + r
      BY <2>1, <3>1, <3>2 DEF Threads
    <3> HIDE DEF a, r
    <3>4. r <= k
      BY <1>1, <3>3
    <3> QED BY <3>4 DEF r
  <2>3. i[k % n_threads] = k % n_threads /\ runs[k] = 0
    BY <2>1 DEF Init
  <2> QED BY <2>1, <2>2, <2>3 DEF Threads
<1>5. Ended
  BY <1>1 DEF Init, Ended, Threads
<1> QED BY <1>2, <1>3, <1>4, <1>5 DEF ForInv

\* A step that moves a counter.
LEMMA ForDeals ==
  ASSUME ForInv, NEW c \in Threads, Deal(c), Cells', Ended'
  PROVE  ForInv'
BY DealCells, DealPasses, DealExact DEF ForInv

\* A step of a thread.
LEMMA ForWorker ==
  ASSUME ForInv, NEW t \in Threads, Worker(t)
  PROVE  ForInv'
<1>1. Cells /\ main' = main /\ n_threads \in Nat \ {0} /\ n \in Nat
      /\ \A u \in Threads : i[u] \in Nat
  BY DEF ForInv, Worker, Cells
<1>2. ~(n_threads = 1) \/ t = 0
  BY <1>1 DEF Threads
<1>3. CASE Own(t)
  <2>1. pc[t] = "own" /\ Deal(t) /\ Cells'
        /\ pc' = IF i[t] >= n THEN [pc EXCEPT ![t] = "scan"] ELSE pc
    BY <1>1, <1>3, OwnDeals
  <2>2. Ended'
    BY <1>1, <1>2, <2>1, DealCells DEF ForInv, Ended
  <2> QED BY <2>1, <2>2, ForDeals
<1>4. CASE Scan(t)
  BY <1>1, <1>4, ScanLooks DEF ForInv, Ended, Exact, OnCourse, Threads, Jobs
<1>5. CASE Take(t, "exit")
  <2>1. /\ pc[t] = "scan" /\ seen[t].min_i \in Threads /\ Deal(seen[t].min_i) /\ Cells'
        /\ pc' = [pc EXCEPT ![t] = "exit"] \/ pc' = pc
    BY <1>1, <1>5, TakeDeals
  <2>2. \A u \in Threads : i'[u] >= i[u]
    BY <1>1, <2>1, DealCells
  <2>3. n_threads' = n_threads /\ n' = n /\ Threads' = Threads /\ \A u \in Threads : i'[u] \in Nat
    BY <1>1, <2>1, DealCells
  <2>4. /\ pc' \in [Threads -> {"none", "own", "scan", "exit"}]
        /\ \A u \in Threads : pc'[u] \in {"scan", "exit"} => pc[u] \in {"scan", "exit"}
        /\ \A u \in Threads : pc[u] = "exit" => pc'[u] = "exit"
        /\ n_threads > 1
    BY <1>1, <1>2, <2>1 DEF ForInv, Ended
  <2>5. \A u \in Threads : pc'[u] \in {"scan", "exit"} => i'[u] >= n
    BY <1>1, <2>2, <2>3, <2>4 DEF ForInv, Ended
  <2>6. main.joined \in 0..n_threads /\ \A u \in 0..main.joined - 1 : u \in Threads /\ pc'[u] = "exit"
    BY <1>1, <2>4 DEF ForInv, Ended, Threads
  <2>7. Ended'
    BY <1>1, <2>3, <2>4, <2>5, <2>6 DEF ForInv, Ended
  <2> QED BY <2>1, <2>7, ForDeals
<1> QED BY <1>3, <1>4, <1>5 DEF Worker

\* A step of the caller.
LEMMA ForMain ==
  ASSUME ForInv, Main
  PROVE  ForInv'
<1>1. Cells /\ n_threads \in Nat \ {0} /\ n \in Nat
      /\ main \in [created : 0..n_threads, joined : 0..n_threads]
  BY DEF ForInv, Cells, Ended
<1>2. CASE Create
  <2>1. UNCHANGED forVars /\ Threads' = Threads /\ Jobs' = Jobs
    BY <1>2 DEF Create, forVars, Threads, Jobs
  <2>2. Ended'
    BY <1>1, <1>2, <2>1 DEF Create, ForInv, Ended, forVars, Threads
  <2> QED BY <2>1, <2>2 DEF ForInv, Cells, Scanned, OnCourse, Exact, forVars
<1>3. CASE Join
  <2>1. UNCHANGED forVars /\ Threads' = Threads /\ Jobs' = Jobs
    BY <1>3 DEF Join, forVars, Threads, Jobs
  <2>2. Ended'
    BY <1>1, <1>3, <2>1 DEF Join, ForInv, Ended, forVars, Threads
  <2> QED BY <2>1, <2>2 DEF ForInv, Cells, Scanned, OnCourse, Exact, forVars
<1>4. CASE Sequential
  <2>1. n_threads = 1 /\ 0 \in Threads /\ i[0] \in Nat /\ seen' = seen /\ pc' = pc
        /\ UNCHANGED <<n_threads, n>>
    BY <1>1, <1>4 DEF Sequential, Threads, Cells
  <2>2. CASE i[0] < n
    <3>1. Deal(0) /\ main' = main
      BY <1>4, <2>1, <2>2, <1>1 DEF Sequential, Deal
    <3>2. Cells'
      BY <1>1, <2>1, <3>1, DealCells DEF Cells, Scanned
    <3>3. Ended'
      BY <1>1, <2>1, <2>2, <3>1, DealCells DEF ForInv, Ended, Threads
    <3> QED BY <2>1, <3>1, <3>2, <3>3, ForDeals
  <2>3. CASE ~(i[0] < n)
    <3>1. UNCHANGED <<i, runs>> /\ main' = [main EXCEPT !.joined = 1]
          /\ Threads' = Threads /\ Jobs' = Jobs
      BY <1>4, <2>1, <2>3 DEF Sequential, Threads, Jobs
    <3>2. Ended'
      BY <1>1, <2>1, <2>3, <3>1 DEF ForInv, Ended, Threads
    <3> QED BY <2>1, <3>1, <3>2 DEF ForInv, Cells, Scanned, OnCourse, Exact
  <2> QED BY <2>2, <2>3
<1> QED BY <1>2, <1>3, <1>4 DEF Main

\* Every step keeps the invariant.
LEMMA ForNext == ForInv /\ [Next]_vars => ForInv'
<1> SUFFICES ASSUME ForInv, [Next]_vars PROVE ForInv'
  OBVIOUS
<1>1. CASE Next
  BY <1>1, ForMain, ForWorker DEF Next
<1>2. CASE UNCHANGED vars
  BY <1>2 DEF vars, forVars, ForInv, Cells, Scanned, OnCourse, Exact, Ended, Threads, Jobs
<1> QED BY <1>1, <1>2

\* No job is done twice, whoever steals from whom.
LEMMA ForOnce == ForInv => Once
BY DEF ForInv, Once, Exact

\* When all are joined, each counter has come to its end.
LEMMA ForAll == ForInv => AllRun
<1> SUFFICES ASSUME ForInv, main.joined = n_threads, NEW k \in Jobs PROVE runs[k] = 1
  BY DEF AllRun
<1> DEFINE c == k % n_threads
<1>1. Cells /\ n_threads \in Nat \ {0} /\ n \in Nat
  BY DEF ForInv, Cells
<1>2. c \in Threads /\ k \in Nat /\ k < n
  BY <1>1, JobsCounter DEF Jobs
<1>3. i[c] \in Nat
  BY <1>1, <1>2 DEF Cells
<1>4. runs[k] = IF k < i[c] THEN 1 ELSE 0
  BY DEF ForInv, Exact
<1> HIDE DEF c
<1>5. i[c] >= n
  BY <1>1, <1>2 DEF ForInv, Ended, Threads
<1> QED BY <1>1, <1>2, <1>3, <1>4, <1>5

\* The counter to steal from is one there is.
LEMMA CellsTypes == Cells => TypeOK
<1> SUFFICES ASSUME Cells, NEW t \in Threads
             PROVE  /\ seen[t].at \in 0..n_threads
                    /\ seen[t].at > 0 => seen[t].min_i \in 0..seen[t].at - 1
  BY DEF Cells, TypeOK
<1>1. Scanned(seen[t]) /\ n_threads \in Nat \ {0}
  BY DEF Cells
<1> QED BY <1>1 DEF Scanned, Start

\* kt_for does every job, and once, and steals from counters there are, whatever
\* the number of threads and jobs and however the thefts interleave.
THEOREM ForSound ==
  ASSUME ForAssumption
  PROVE  Spec => [](TypeOK /\ Once /\ AllRun)
<1>1. Init => ForInv
  BY ForInit
<1>2. ForInv => TypeOK /\ Once /\ AllRun
  BY ForOnce, ForAll, CellsTypes DEF ForInv
<1> QED BY <1>1, <1>2, ForNext, PTL DEF Spec

-----------------------------------------------------------------------------
(* kt_forpool.                                                             *)

Waiting(t) == pc[t] \in {"check", "block", "asleep", "awake"}

\* The threads that have yet to say that they are ready.
Pending ==
    {t \in Threads : action[t] = 1 \/ pc[t] = "lock" \/ (main.at = "set" /\ t >= main.set)}

\* Where the caller is when no call is being made, and in particular at the end.
Ending == {"destroy", "join", "end"}
Resting == {"idle", "sequential"} \cup Ending

\* Types, and the bounds of the caller's loops.
Typed ==
    /\ pc \in [Threads -> {"lock", "check", "block", "asleep", "awake", "own", "scan", "exit"}]
    /\ main \in [at : {"lock", "wait", "woken", "set"} \cup Resting, set : Nat]
    /\ action \in [Threads -> {-1, 0, 1}] /\ calls \in Nat
    /\ mutex \in Threads \cup {None}
    /\ main.at = "set" => n_threads > 1 /\ main.set <= n_threads /\ calls > 0
    /\ main.at = "sequential" => n_threads = 1 /\ main.set <= n /\ calls > 0
    /\ main.at = "lock" => calls = 0
    /\ calls = 0 => n = 0

\* The mutex is held where the code holds it; orders are obeyed; before a thread
\* is told it has no work.
Ordered ==
    /\ \A t \in Threads : mutex = t <=> pc[t] \in {"check", "block"}
    /\ \A t \in Threads : pc[t] \in {"own", "scan"} => action[t] = 1
    /\ \A t \in Threads : action[t] = 1 => calls > 0 /\ n_threads > 1
    /\ \A t \in Threads : pc[t] = "exit" \/ action[t] = -1 => main.at \in Ending
    /\ main.at = "set" =>
          \A t \in Threads : t >= main.set => action[t] = 0 /\ Waiting(t)

\* n_pending counts the threads at work, and there are none between the calls.
Counted ==
    /\ n_pending = Cardinality(Pending)
    /\ main.at \in Resting => Pending = {}

\* The counter of thread c is that of this call.
Dealt(c) == calls > 0 /\ n_threads > 1 /\ (main.at = "set" => c < main.set)

\* What the counters have passed is done, and a thread that has no more work of
\* its own has left none.
Worked ==
    /\ \A c \in Threads : Dealt(c) => OnCourse(c) /\ Passed(c)
    /\ \A t \in Threads : Dealt(t) /\ (action[t] # 1 \/ pc[t] \in {"scan", "lock"}) => i[t] >= n
    /\ n_threads = 1 /\ calls > 0 =>
          \A k \in Jobs : runs[k] = IF main.at = "sequential" /\ k >= main.set THEN 0 ELSE 1

PoolInv == Cells /\ Typed /\ Ordered /\ Counted /\ Worked

\* Without spurious wakeups no thread begins before all have been told.
Punctual ==
    /\ wakes = 0
    /\ \A t \in Threads : pc[t] = "awake" => action[t] # 0
    /\ main.at \in {"idle", "set", "sequential"} => \A t \in Threads : pc[t] = "asleep"
    /\ main.at = "set" => \A t \in Threads : t < main.set => i[t] = t /\ action[t] = 1
    /\ main.at = "destroy" => \A t \in Threads : t < main.set => action[t] = -1
    /\ n_threads > 1 /\ calls > 0 =>
          IF main.at = "set" THEN \A k \in Jobs : runs[k] = 0 ELSE Exact

\* A remainder is no more than the number.
LEMMA RemainderLess ==
  ASSUME NEW k \in Nat, NEW m \in Nat \ {0}
  PROVE  k % m <= k
<1> DEFINE a == m * (k \div m)
           r == k % m
<1>1. k = a + r /\ r \in Nat /\ k \div m \in Nat
  BY DivMod
<1>2. a \in Nat
  BY <1>1
<1> HIDE DEF a, r
<1>3. r <= k
  BY <1>1, <1>2
<1> QED BY <1>3 DEF r

\* Where the cells are left alone.
LEMMA SameCells ==
  ASSUME Cells, UNCHANGED forVars
  PROVE  /\ Cells' /\ Threads' = Threads /\ Jobs' = Jobs
         /\ n_threads' = n_threads /\ n' = n /\ i' = i /\ runs' = runs
         /\ \A c \in Threads : (OnCourse(c)' <=> OnCourse(c)) /\ (Passed(c)' <=> Passed(c))
         /\ Exact' <=> Exact
BY DEF forVars, Threads, Jobs, Cells, Scanned, OnCourse, Passed, Exact

\* Threads can be counted.
LEMMA CountOfThreads ==
  ASSUME Cells
  PROVE  /\ n_threads \in Nat \ {0} /\ n \in Nat
         /\ IsFiniteSet(Threads) /\ Cardinality(Threads) = n_threads
         /\ \A S \in SUBSET Threads :
               /\ IsFiniteSet(S) /\ Cardinality(S) \in 0..n_threads
               /\ Cardinality(S) = 0 <=> S = {}
               /\ \A t \in S : Cardinality(S \ {t}) = Cardinality(S) - 1
<1>1. n_threads \in Nat \ {0} /\ n \in Nat
  BY DEF Cells
<1>2. 0 \in Int /\ n_threads - 1 \in Int
  BY <1>1
<1>3. IsFiniteSet(0..n_threads - 1)
      /\ Cardinality(0..n_threads - 1) = IF 0 > n_threads - 1 THEN 0 ELSE n_threads - 1 - 0 + 1
  BY <1>2, FS_Interval
<1>4. IsFiniteSet(Threads) /\ Cardinality(Threads) = n_threads
  BY <1>1, <1>3 DEF Threads
<1>5. ASSUME NEW S \in SUBSET Threads
      PROVE  /\ IsFiniteSet(S) /\ Cardinality(S) \in 0..n_threads
             /\ Cardinality(S) = 0 <=> S = {}
             /\ \A t \in S : Cardinality(S \ {t}) = Cardinality(S) - 1
  <2>1. IsFiniteSet(S) /\ Cardinality(S) <= n_threads
    BY <1>4, FS_Subset
  <2>2. Cardinality(S) \in Nat
    BY <2>1, FS_CardinalityType
  <2>3. Cardinality(S) = 0 <=> S = {}
    BY <2>1, FS_EmptySet
  <2>4. \A t \in S : Cardinality(S \ {t}) = Cardinality(S) - 1
    BY <2>1, FS_RemoveElement
  <2> QED BY <1>1, <2>1, <2>2, <2>3, <2>4
<1> QED BY <1>1, <1>4, <1>5

\* As many may be pending as there are threads.
LEMMA PendingBounds ==
  ASSUME Cells, Counted
  PROVE  /\ n_pending \in 0..n_threads
         /\ n_pending = 0 <=> Pending = {}
         /\ \A t \in Pending : Cardinality(Pending \ {t}) = n_pending - 1
<1>1. Pending \in SUBSET Threads
  BY DEF Pending
<1> QED BY <1>1, CountOfThreads DEF Counted

\* When kt_forpool_init has created the threads all are pending.
LEMMA PoolStart ==
  ASSUME ForAssumption, PoolInit
  PROVE  PoolInv
<1>1. n_threads \in Nat \ {0} /\ n = 0
  BY DEF ForAssumption, PoolInit
<1>2. Cells
  BY <1>1 DEF PoolInit, Cells, Scanned, Start, None, Threads, Jobs
<1>3. Typed
  BY <1>1 DEF PoolInit, Typed, Threads, Resting, Ending
<1>4. Ordered
  BY <1>1 DEF PoolInit, Ordered, Threads, None
<1>5. Counted
  <2>1. Pending = Threads
    BY DEF PoolInit, Pending
  <2> QED BY <1>2, <2>1, CountOfThreads DEF PoolInit, Counted, Resting, Ending
<1>6. Worked
  BY DEF PoolInit, Worked, Dealt
<1> QED BY <1>2, <1>3, <1>4, <1>5, <1>6 DEF PoolInv

-----------------------------------------------------------------------------
(* kt_fp_worker.                                                           *)

\* A thread says that it is ready.
LEMMA PoolReady ==
  ASSUME PoolInv, NEW t \in Threads, Ready(t)
  PROVE  PoolInv'
<1>1. /\ Cells /\ Typed /\ Ordered /\ Counted /\ Worked
      /\ n_threads \in Nat \ {0} /\ n \in Nat
  BY DEF PoolInv, Cells
<1>2. /\ pc[t] = "lock" /\ mutex = None /\ mutex' = t /\ n_pending' = n_pending - 1
      /\ action' = [action EXCEPT ![t] = 0] /\ pc' = [pc EXCEPT ![t] = "check"]
      /\ UNCHANGED forVars /\ calls' = calls /\ wakes' = wakes
      /\ main' = main \/ (main.at = "wait" /\ main' = [main EXCEPT !.at = "woken"])
  BY DEF Ready, Woken
<1>3. /\ Cells' /\ Threads' = Threads /\ Jobs' = Jobs /\ n_threads' = n_threads /\ n' = n
      /\ i' = i /\ runs' = runs
      /\ \A c \in Threads : (OnCourse(c)' <=> OnCourse(c)) /\ (Passed(c)' <=> Passed(c))
  BY <1>1, <1>2, SameCells
<1>4. t \in Pending /\ main.at \notin Resting /\ (main.at = "set" => t < main.set)
  <2>1. t \in Pending
    BY <1>2 DEF Pending
  <2>2. main.at \notin Resting
    BY <1>1, <2>1 DEF Counted
  <2>3. t \in Nat /\ main.set \in Nat
    BY <1>1 DEF Typed, Threads
  <2>4. main.at = "set" => ~(t >= main.set)
    BY <1>1, <1>2 DEF Ordered, Waiting
  <2> QED BY <2>1, <2>2, <2>3, <2>4
<1>5. Typed'
  BY <1>1, <1>2, <1>3, <1>4 DEF Typed, Resting, Ending
<1>6. Ordered'
  <2>1. \A u \in Threads : mutex' = u <=> pc'[u] \in {"check", "block"}
    BY <1>1, <1>2 DEF Ordered, Typed, None, Threads
  <2>2. main'.at \in Ending <=> main.at \in Ending
    BY <1>1, <1>2 DEF Typed, Ending
  <2>3. main'.at = "set" <=> main.at = "set" /\ main'.set = main.set
    BY <1>1, <1>2, <1>4 DEF Typed
  <2>4. \A u \in Threads :
           /\ pc'[u] \in {"own", "scan"} => action'[u] = 1
           /\ action'[u] = 1 => calls' > 0 /\ n_threads' > 1
           /\ pc'[u] = "exit" \/ action'[u] = -1 => main'.at \in Ending
    BY <1>1, <1>2, <1>3, <2>2 DEF Ordered, Typed
  <2>5. main'.at = "set" => \A u \in Threads : u >= main'.set => action'[u] = 0 /\ Waiting(u)'
    BY <1>1, <1>2, <2>3 DEF Ordered, Typed, Waiting
  <2> QED BY <1>3, <2>1, <2>4, <2>5 DEF Ordered
<1>7. Counted'
  <2>1. main'.at = "set" <=> main.at = "set"
    BY <1>1, <1>2 DEF Typed
  <2>2. main'.set = main.set
    BY <1>1, <1>2 DEF Typed
  <2>3. Pending' = Pending \ {t}
    <3>1. \A u \in Threads : u # t => action'[u] = action[u] /\ pc'[u] = pc[u]
      BY <1>1, <1>2 DEF Typed
    <3>2. action'[t] = 0 /\ pc'[t] = "check"
      BY <1>1, <1>2 DEF Typed
    <3>3. t \in Nat /\ main.set \in Nat
      BY <1>1 DEF Typed, Threads
    <3>4. t \notin Pending'
      BY <1>3, <1>4, <2>1, <2>2, <3>2, <3>3 DEF Pending
    <3>5. \A u \in Threads : u # t => (u \in Pending' <=> u \in Pending)
      BY <1>3, <2>1, <2>2, <3>1 DEF Pending
    <3> QED BY <1>3, <3>4, <3>5 DEF Pending
  <2>4. main'.at \notin Resting
    BY <1>1, <1>2, <1>4 DEF Typed, Resting, Ending
  <2> QED BY <1>1, <1>2, <1>4, <2>3, <2>4, PendingBounds DEF Counted
<1>8. Worked'
  <2>1. \A c \in Threads : Dealt(c)' <=> Dealt(c)
    BY <1>1, <1>2, <1>3 DEF Dealt, Typed
  <2>2. \A u \in Threads : action'[u] # 1 \/ pc'[u] \in {"scan", "lock"} =>
                              action[u] # 1 \/ pc[u] \in {"scan", "lock"}
    BY <1>1, <1>2 DEF Typed
  <2>3. main'.at = "sequential" <=> main.at = "sequential"
    BY <1>1, <1>2 DEF Typed
  <2>4. main.at # "sequential"
    BY <1>4 DEF Resting
  <2> QED BY <1>1, <1>2, <1>3, <2>1, <2>2, <2>3, <2>4 DEF Worked
<1> QED BY <1>3, <1>5, <1>6, <1>7, <1>8 DEF PoolInv

\* Steps that leave all orders, counts and jobs alone: pc moves, and the mutex.
LEMMA PoolMoves ==
  ASSUME PoolInv, UNCHANGED forVars, UNCHANGED <<main, n_pending, action, calls>>,
         pc' \in [Threads -> {"lock", "check", "block", "asleep", "awake", "own", "scan", "exit"}],
         mutex' \in Threads \cup {None},
         \A t \in Threads : mutex' = t <=> pc'[t] \in {"check", "block"},
         \A t \in Threads :
            /\ pc'[t] \in {"lock", "scan"} <=> pc[t] \in {"lock", "scan"}
            /\ pc'[t] = "lock" <=> pc[t] = "lock"
            /\ pc'[t] = "own" => action[t] = 1
            /\ pc'[t] = "exit" => main.at \in Ending
            /\ Waiting(t) => Waiting(t)' \/ action[t] # 0
  PROVE  PoolInv'
<1>1. /\ Cells /\ Typed /\ Ordered /\ Counted /\ Worked
      /\ n_threads \in Nat \ {0} /\ n \in Nat
  BY DEF PoolInv, Cells
<1>3. /\ Cells' /\ Threads' = Threads /\ Jobs' = Jobs /\ n_threads' = n_threads /\ n' = n
      /\ i' = i /\ runs' = runs
      /\ \A c \in Threads : (OnCourse(c)' <=> OnCourse(c)) /\ (Passed(c)' <=> Passed(c))
  BY <1>1, SameCells
<1>5. Typed'
  BY <1>1, <1>3 DEF Typed
<1>6. Ordered'
  <2>1. \A u \in Threads : pc'[u] \in {"own", "scan"} => action'[u] = 1
    BY <1>1 DEF Ordered
  <2> QED BY <1>1, <1>3, <2>1 DEF Ordered
<1>7. Counted'
  <2>1. Pending' = Pending
    BY <1>1, <1>3 DEF Pending
  <2> QED BY <1>1, <2>1 DEF Counted
<1>8. Worked'
  <2>1. \A c \in Threads : Dealt(c)' <=> Dealt(c)
    BY <1>1, <1>3 DEF Dealt
  <2>2. \A u \in Threads : pc'[u] \in {"scan", "lock"} <=> pc[u] \in {"scan", "lock"}
    OBVIOUS
  <2> QED BY <1>1, <1>3, <2>1, <2>2 DEF Worked
<1> QED BY <1>3, <1>5, <1>6, <1>7, <1>8 DEF PoolInv

\* A thread looks at its order, goes to sleep or wakes; a spurious wakeup.
LEMMA PoolChecks ==
  ASSUME PoolInv, NEW t \in Threads, Check(t)
  PROVE  PoolInv'
<1>1. /\ Typed /\ Ordered /\ pc[t] = "check" /\ t # None
      /\ UNCHANGED forVars /\ UNCHANGED <<main, n_pending, action, calls>>
      /\ action[t] \in {-1, 0, 1} /\ mutex = t /\ \A u \in Threads : u # None
  BY DEF PoolInv, Typed, Ordered, Check, Threads, None
<1>2. CASE action[t] = 0
  <2>1. pc' = [pc EXCEPT ![t] = "block"] /\ mutex' = mutex
    BY <1>2 DEF Check
  <2> QED BY <1>1, <1>2, <2>1, PoolMoves DEF Typed, Ordered, Waiting
<1>3. CASE action[t] = 1
  <2>1. pc' = [pc EXCEPT ![t] = "own"] /\ mutex' = None
    BY <1>3 DEF Check
  <2> QED BY <1>1, <1>3, <2>1, PoolMoves DEF Typed, Ordered, Waiting
<1>4. CASE action[t] = -1
  <2>1. pc' = [pc EXCEPT ![t] = "exit"] /\ mutex' = None
    BY <1>4 DEF Check
  <2> QED BY <1>1, <1>4, <2>1, PoolMoves DEF Typed, Ordered, Waiting
<1> QED BY <1>1, <1>2, <1>3, <1>4

\* A thread goes to sleep, or is woken.
LEMMA PoolBlocks ==
  ASSUME PoolInv, NEW t \in Threads, Block(t) \/ Wake(t)
  PROVE  PoolInv'
<1>1. /\ Typed /\ Ordered /\ \A u \in Threads : u # None
      /\ UNCHANGED forVars /\ UNCHANGED <<main, n_pending, action, calls>>
  BY DEF PoolInv, Block, Wake, Threads, None
<1>2. CASE Block(t)
  <2>1. pc' = [pc EXCEPT ![t] = "asleep"] /\ mutex' = None /\ pc[t] = "block" /\ mutex = t
    BY <1>1, <1>2 DEF Block, Ordered
  <2> QED BY <1>1, <2>1, PoolMoves DEF Typed, Ordered, Waiting
<1>3. CASE Wake(t)
  <2>1. pc' = [pc EXCEPT ![t] = "check"] /\ mutex' = t /\ pc[t] = "awake" /\ mutex = None
    BY <1>3 DEF Wake
  <2> QED BY <1>1, <2>1, PoolMoves DEF Typed, Ordered, Waiting
<1> QED BY <1>2, <1>3

\* The caller waits, wakes up, or returns because no thread is pending.
LEMMA CallerGoes ==
  ASSUME PoolInv, UNCHANGED forVars, UNCHANGED <<n_pending, action, mutex, calls>>,
         pc' = pc \/ Broadcast,
         main.at \in {"lock", "wait", "woken", "set"},
         main.at = "set" => main.set = n_threads,
         main' \in [at : {"wait", "woken", "idle"}, set : Nat],
         main'.at = "idle" => n_pending = 0
  PROVE  PoolInv'
<1>1. /\ Cells /\ Typed /\ Ordered /\ Counted /\ Worked
      /\ n_threads \in Nat \ {0} /\ n \in Nat
  BY DEF PoolInv, Cells
<1>2. /\ pc' \in [Threads -> {"lock", "check", "block", "asleep", "awake", "own", "scan", "exit"}]
      /\ \A t \in Threads : pc'[t] = pc[t] \/ (pc[t] = "asleep" /\ pc'[t] = "awake")
  BY <1>1 DEF Typed, Broadcast
<1>3. /\ Cells' /\ Threads' = Threads /\ Jobs' = Jobs /\ n_threads' = n_threads /\ n' = n
      /\ i' = i /\ runs' = runs
      /\ \A c \in Threads : (OnCourse(c)' <=> OnCourse(c)) /\ (Passed(c)' <=> Passed(c))
  BY <1>1, SameCells
<1>4. \A t \in Threads : t \in Nat /\ t < n_threads
  BY <1>1 DEF Threads
<1>5. Typed'
  BY <1>1, <1>2, <1>3 DEF Typed, Resting
<1>6. Ordered'
  <2>1. main.at \notin Ending /\ main'.at # "set"
    BY DEF Ending
  <2>2. \A u \in Threads : mutex' = u <=> pc'[u] \in {"check", "block"}
    BY <1>1, <1>2 DEF Ordered
  <2>3. \A u \in Threads :
           /\ pc'[u] \in {"own", "scan"} => action'[u] = 1
           /\ action'[u] = 1 => calls' > 0 /\ n_threads' > 1
           /\ ~(pc'[u] = "exit" \/ action'[u] = -1)
    BY <1>1, <1>2, <1>3, <2>1 DEF Ordered
  <2> QED BY <1>3, <2>1, <2>2, <2>3 DEF Ordered
<1>7. Counted'
  <2>1. \A u \in Threads : pc'[u] = "lock" <=> pc[u] = "lock"
    BY <1>2
  <2>2. Pending' = Pending
    BY <1>1, <1>3, <1>4, <2>1 DEF Pending
  <2>3. main'.at \in Resting => Pending' = {}
    BY <1>1, <2>2, PendingBounds DEF Resting, Ending
  <2> QED BY <1>1, <2>2, <2>3 DEF Counted
<1>8. Worked'
  <2>1. \A c \in Threads : Dealt(c)' <=> Dealt(c)
    BY <1>1, <1>3, <1>4 DEF Dealt
  <2>2. \A u \in Threads : pc'[u] \in {"scan", "lock"} <=> pc[u] \in {"scan", "lock"}
    BY <1>2
  <2>3. main.at # "sequential" /\ main'.at # "sequential"
    OBVIOUS
  <2> QED BY <1>1, <1>3, <2>1, <2>2, <2>3 DEF Worked
<1> QED BY <1>3, <1>5, <1>6, <1>7, <1>8 DEF PoolInv

\* A thread or the caller wakes up without having been woken.
LEMMA PoolSpurious ==
  ASSUME PoolInv, NEW t \in Threads, Spurious(t)
  PROVE  PoolInv'
<1>1. /\ Typed /\ Ordered
      /\ UNCHANGED forVars /\ UNCHANGED <<n_pending, action, mutex, calls>>
  BY DEF PoolInv, Spurious
<1>2. CASE pc[t] = "asleep" /\ pc' = [pc EXCEPT ![t] = "awake"] /\ UNCHANGED main
  BY <1>1, <1>2, PoolMoves DEF Typed, Ordered, Waiting
<1>3. CASE main.at = "wait" /\ main' = Woken(main) /\ UNCHANGED pc
  <2>1. main' \in [at : {"wait", "woken", "idle"}, set : Nat] /\ main'.at = "woken"
    BY <1>1, <1>3 DEF Typed, Woken
  <2> QED BY <1>1, <1>3, <2>1, CallerGoes
<1> QED BY <1>2, <1>3 DEF Spurious

\* Under the mutex the caller broadcasts, begins to wait or returns.
LEMMA PoolWaits ==
  ASSUME PoolInv, Tell \/ Await \/ Return
  PROVE  PoolInv'
<1>1. UNCHANGED forVars /\ UNCHANGED <<n_pending, action, mutex, calls>>
  BY DEF Tell, Await, Return, poolVars
<1>2. main' \in [at : {"wait", "woken", "idle"}, set : Nat] /\ (main'.at = "idle" => n_pending = 0)
  BY DEF Tell, Await, Return, Goto
<1>3. /\ pc' = pc \/ Broadcast
      /\ main.at \in {"lock", "woken", "set"} /\ (main.at = "set" => main.set = n_threads)
  BY DEF Tell, Await, Return
<1> QED BY <1>1, <1>2, <1>3, CallerGoes

-----------------------------------------------------------------------------
(* The jobs of the pool.                                                   *)

\* A counter moves on: pc changes for the thread that moved it.
LEMMA PoolDeals ==
  ASSUME PoolInv, NEW t \in Threads, NEW c \in Threads, Deal(c), Cells',
         UNCHANGED <<main, poolVars>>, pc[t] \in {"own", "scan"},
         \/ pc' = pc
         \/ pc[t] = "own" /\ c = t /\ i[t] >= n /\ pc' = [pc EXCEPT ![t] = "scan"]
         \/ pc[t] = "scan" /\ pc' = [pc EXCEPT ![t] = "lock"]
  PROVE  PoolInv'
<1>1. /\ Cells /\ Typed /\ Ordered /\ Counted /\ Worked
      /\ n_threads \in Nat \ {0} /\ n \in Nat
  BY DEF PoolInv, Cells
<1>2. /\ main' = main /\ n_pending' = n_pending /\ action' = action /\ mutex' = mutex
      /\ calls' = calls
  BY DEF poolVars
<1>3. /\ n_threads' = n_threads /\ n' = n /\ Threads' = Threads /\ Jobs' = Jobs
      /\ \A u \in Threads : i[u] \in Nat /\ i'[u] \in Nat /\ i'[u] >= i[u]
  BY <1>1, DealCells DEF Cells
<1>4. /\ pc' \in [Threads -> {"lock", "check", "block", "asleep", "awake", "own", "scan", "exit"}]
      /\ \A u \in Threads : u # t => pc'[u] = pc[u]
      /\ pc'[t] \in {"own", "scan", "lock"}
      /\ pc'[t] \in {"scan", "lock"} => pc[t] = "scan" \/ i[t] >= n
  BY <1>1 DEF Typed
<1>5. action[t] = 1 /\ calls > 0 /\ n_threads > 1 /\ main.at \notin Resting
      /\ ~Waiting(t)
  <2>1. action[t] = 1
    BY <1>1 DEF Ordered
  <2>2. t \in Pending
    BY <2>1 DEF Pending
  <2> QED BY <1>1, <2>1, <2>2 DEF Ordered, Counted, Waiting
<1>6. Typed'
  BY <1>1, <1>2, <1>3, <1>4 DEF Typed
<1>7. Ordered'
  <2>1. \A u \in Threads : mutex' = u <=> pc'[u] \in {"check", "block"}
    BY <1>1, <1>2, <1>4 DEF Ordered
  <2>2. \A u \in Threads :
           /\ pc'[u] \in {"own", "scan"} => action'[u] = 1
           /\ action'[u] = 1 => calls' > 0 /\ n_threads' > 1
           /\ pc'[u] = "exit" \/ action'[u] = -1 => main'.at \in Ending
    BY <1>1, <1>2, <1>3, <1>4, <1>5 DEF Ordered
  <2>3. main'.at = "set" => \A u \in Threads : u >= main'.set => action'[u] = 0 /\ Waiting(u)'
    BY <1>1, <1>2, <1>4, <1>5 DEF Ordered, Waiting
  <2> QED BY <1>3, <2>1, <2>2, <2>3 DEF Ordered
<1>8. Counted'
  <2>1. Pending' = Pending
    BY <1>2, <1>3, <1>4, <1>5 DEF Pending
  <2> QED BY <1>1, <1>2, <2>1 DEF Counted
<1>9. Worked'
  <2>1. \A d \in Threads : Dealt(d)' <=> Dealt(d)
    BY <1>2, <1>3 DEF Dealt
  <2>2. \A d \in Threads : Dealt(d) => OnCourse(d)' /\ Passed(d)'
    BY <1>1, DealPasses DEF Worked
  <2>3. \A u \in Threads : Dealt(u) /\ (action[u] # 1 \/ pc[u] \in {"scan", "lock"}) => i[u] >= n
    BY <1>1 DEF Worked
  <2>4. \A u \in Threads : Dealt(u) /\ (action'[u] # 1 \/ pc'[u] \in {"scan", "lock"}) => i'[u] >= n'
    BY <1>1, <1>2, <1>3, <1>4, <1>5, <2>3
  <2> QED BY <1>3, <1>5, <2>1, <2>2, <2>4 DEF Worked
<1> QED BY <1>6, <1>7, <1>8, <1>9 DEF PoolInv

\* A thread does a job, its own or a stolen one, or looks for one.
LEMMA PoolLoop ==
  ASSUME PoolInv, NEW t \in Threads, Loop(t)
  PROVE  PoolInv'
<1>1. Cells /\ Typed /\ Ordered /\ UNCHANGED <<main, poolVars>>
  BY DEF PoolInv, Loop
<1>2. CASE Own(t)
  BY <1>1, <1>2, OwnDeals, PoolDeals
<1>3. CASE Take(t, "lock")
  BY <1>1, <1>3, TakeDeals, PoolDeals
<1>4. CASE Scan(t)
  <2>1. Cells' /\ UNCHANGED <<n_threads, n, i, pc, runs>>
    BY <1>1, <1>4, ScanLooks
  <2>2. UNCHANGED <<main, n_pending, action, mutex, calls>>
    BY <1>1 DEF poolVars
  <2> QED BY <2>1, <2>2 DEF PoolInv, Typed, Ordered, Counted, Pending, Worked, Dealt,
     Waiting, OnCourse, Passed, Threads, Jobs
<1> QED BY <1>2, <1>3, <1>4 DEF Loop

-----------------------------------------------------------------------------
(* The caller's jobs and orders.                                           *)

\* A call of kt_forpool: no thread is at work.
LEMMA PoolBegin ==
  ASSUME PoolInv, ForAssumption, Begin
  PROVE  PoolInv'
<1>1. /\ Cells /\ Typed /\ Ordered /\ Counted /\ Worked
      /\ n_threads \in Nat \ {0} /\ n \in Nat /\ Pending = {}
  BY DEF PoolInv, Cells, Begin, Counted, Resting
<1>2. /\ main.at = "idle" /\ calls' = calls + 1 /\ n' \in Nat /\ runs' = [k \in 0..n'-1 |-> 0]
      /\ UNCHANGED <<n_threads, i, seen, pc, action, mutex>> /\ Threads' = Threads
  BY DEF ForAssumption, Begin, Threads
<1>3. \/ n_threads > 1 /\ n_pending' = n_threads /\ main' = [at |-> "set", set |-> 0]
      \/ n_threads = 1 /\ n_pending' = n_pending /\ main' = [at |-> "sequential", set |-> 0]
  BY <1>1 DEF Begin, Goto
<1>4. \A t \in Threads : action[t] = 0 /\ Waiting(t)
  <2> SUFFICES ASSUME NEW t \in Threads PROVE action[t] = 0 /\ Waiting(t)
    OBVIOUS
  <2>1. action[t] # 1 /\ pc[t] # "lock"
    BY <1>1 DEF Pending
  <2>2. action[t] # -1 /\ pc[t] # "exit" /\ pc[t] \notin {"own", "scan"}
    BY <1>1, <1>2, <2>1 DEF Ordered, Ending
  <2> QED BY <1>1, <2>1, <2>2 DEF Typed, Waiting
<1>5. Cells'
  BY <1>1, <1>2 DEF Cells, Scanned, Jobs
<1>6. Typed'
  BY <1>1, <1>2, <1>3 DEF Typed, Resting
<1>7. Ordered'
  <2>1. \A t \in Threads : mutex' = t <=> pc'[t] \in {"check", "block"}
    BY <1>1, <1>2 DEF Ordered
  <2>2. \A t \in Threads : action'[t] = 0 /\ Waiting(t)'
    BY <1>2, <1>4 DEF Waiting
  <2> QED BY <1>2, <2>1, <2>2 DEF Ordered, Waiting
<1>8. Counted'
  <2>1. CASE n_threads > 1
    <3>1. main' = [at |-> "set", set |-> 0] /\ n_pending' = n_threads
      BY <1>1, <1>3, <2>1
    <3>2. Pending' = Threads
      BY <1>1, <1>2, <3>1 DEF Pending, Threads
    <3> QED BY <1>1, <3>1, <3>2, CountOfThreads DEF Counted, Resting, Ending
  <2>2. CASE n_threads = 1
    <3>1. main' = [at |-> "sequential", set |-> 0] /\ n_pending' = n_pending
      BY <1>1, <1>3, <2>2
    <3>2. Pending' = {}
      BY <1>2, <1>4, <3>1 DEF Pending, Waiting
    <3> QED BY <1>1, <3>1, <3>2 DEF Counted
  <2> QED BY <1>1, <2>1, <2>2
<1>9. Worked'
  <2>1. \A t \in Threads : ~Dealt(t)'
    BY <1>1, <1>2, <1>3 DEF Dealt, Threads
  <2>2. n_threads = 1 => \A k \in Jobs' : runs'[k] = 0 /\ k >= main'.set /\ main'.at = "sequential"
    BY <1>1, <1>2, <1>3 DEF Jobs
  <2> QED BY <1>1, <1>2, <1>3, <2>1, <2>2 DEF Worked
<1> QED BY <1>5, <1>6, <1>7, <1>8, <1>9 DEF PoolInv

\* The counter and the order of one thread.
LEMMA PoolSet ==
  ASSUME PoolInv, Set
  PROVE  PoolInv'
<1>1. /\ Cells /\ Typed /\ Ordered /\ Counted /\ Worked
      /\ n_threads \in Nat \ {0} /\ n \in Nat
  BY DEF PoolInv, Cells
<1>2. main.at = "set" /\ main.set \in Nat /\ main.set < n_threads /\ n_threads > 1 /\ calls > 0
  BY <1>1 DEF Set, Typed
<1>3. PICK c \in Threads : c = main.set /\ c \in Nat
  BY <1>1, <1>2 DEF Threads
<1>4. /\ i' = [i EXCEPT ![c] = c] /\ action' = [action EXCEPT ![c] = 1]
      /\ main' = [at |-> "set", set |-> c + 1]
      /\ UNCHANGED <<n_threads, n, seen, runs, pc, n_pending, mutex, calls>>
      /\ Threads' = Threads /\ Jobs' = Jobs
  BY <1>1, <1>2, <1>3 DEF Set, Typed, Threads, Jobs
<1>5. /\ i'[c] = c /\ action'[c] = 1
      /\ \A t \in Threads : t # c => i'[t] = i[t] /\ action'[t] = action[t]
  BY <1>1, <1>2, <1>4, <1>3 DEF Typed, Cells
<1>6. \A t \in Threads : t \in Nat /\ t < n_threads
  BY <1>1 DEF Threads
<1>7. Cells'
  BY <1>1, <1>4, <1>3 DEF Cells, Scanned
<1>8. Typed'
  BY <1>1, <1>2, <1>4, <1>6, <1>3 DEF Typed
<1>9. Ordered'
  <2>1. \A t \in Threads : mutex' = t <=> pc'[t] \in {"check", "block"}
    BY <1>1, <1>4 DEF Ordered
  <2>2. \A t \in Threads :
           /\ pc'[t] \in {"own", "scan"} => action'[t] = 1
           /\ action'[t] = 1 => calls' > 0 /\ n_threads' > 1
           /\ ~(pc'[t] = "exit" \/ action'[t] = -1)
    BY <1>1, <1>2, <1>4, <1>5 DEF Ordered, Ending
  <2>3. \A t \in Threads : t >= main'.set => action'[t] = 0 /\ Waiting(t)'
    BY <1>1, <1>2, <1>4, <1>5, <1>6, <1>3 DEF Ordered, Waiting
  <2> QED BY <1>4, <2>1, <2>2, <2>3 DEF Ordered
<1>10. Counted'
  <2>1. \A t \in Threads : t >= main.set <=> t = c \/ t >= main'.set
    BY <1>4, <1>6, <1>3
  <2>2. Pending' = Pending
    BY <1>2, <1>4, <1>5, <2>1 DEF Pending
  <2> QED BY <1>1, <1>4, <2>2 DEF Counted, Resting, Ending
<1>11. Worked'
  <2>1. \A t \in Threads : Dealt(t)' => t = c \/ Dealt(t)
    BY <1>2, <1>4, <1>6, <1>3 DEF Dealt
  <2>2. OnCourse(c)'
    BY <1>1, <1>4, <1>5, <1>3, SmallRemainder DEF OnCourse, Threads
  <2>3. Passed(c)'
    <3> SUFFICES ASSUME NEW k \in Jobs, k % n_threads = c, k < c PROVE FALSE
      BY <1>4, <1>5 DEF Passed
    <3> QED BY <1>1, <1>3, JobsCounter, RemainderLess
  <2>4. \A t \in Threads : t # c => (OnCourse(t)' <=> OnCourse(t)) /\ (Passed(t)' <=> Passed(t))
    BY <1>4, <1>5 DEF OnCourse, Passed
  <2>5. action'[c] = 1 /\ pc'[c] \notin {"scan", "lock"}
    BY <1>1, <1>2, <1>4, <1>5, <1>3 DEF Ordered, Waiting
  <2>6. \A t \in Threads : Dealt(t)' => OnCourse(t)' /\ Passed(t)'
    BY <1>1, <2>1, <2>2, <2>3, <2>4 DEF Worked
  <2>7. \A t \in Threads : Dealt(t)' /\ (action'[t] # 1 \/ pc'[t] \in {"scan", "lock"}) =>
                              i'[t] >= n'
    BY <1>1, <1>4, <1>5, <2>1, <2>5 DEF Worked
  <2> QED BY <1>2, <1>4, <2>6, <2>7 DEF Worked
<1> QED BY <1>7, <1>8, <1>9, <1>10, <1>11 DEF PoolInv

\* A pool of one thread: the caller does the next job, or returns.
LEMMA PoolAlone ==
  ASSUME PoolInv, OneThread
  PROVE  PoolInv'
<1>1. /\ Cells /\ Typed /\ Ordered /\ Counted /\ Worked
      /\ n_threads \in Nat \ {0} /\ n \in Nat
  BY DEF PoolInv, Cells
<1>2. /\ main.at = "sequential" /\ n_threads = 1 /\ calls > 0 /\ main.set \in 0..n
      /\ UNCHANGED <<n_threads, n, i, seen, pc, n_pending, action, mutex, calls>>
      /\ Threads' = Threads /\ Jobs' = Jobs /\ Pending = {}
  BY <1>1 DEF OneThread, poolVars, Typed, Counted, Resting, Threads, Jobs
<1>3. \/ /\ main.set < n /\ main.set \in Jobs
         /\ runs' = [runs EXCEPT ![main.set] = @ + 1]
         /\ main' = [at |-> "sequential", set |-> main.set + 1]
      \/ /\ main.set = n /\ main' = [at |-> "idle", set |-> 0] /\ runs' = runs
  BY <1>1, <1>2 DEF OneThread, Call, Goto, Typed, Jobs
<1>4. Cells'
  BY <1>1, <1>2, <1>3 DEF Cells, Scanned
<1>5. Typed'
  BY <1>1, <1>2, <1>3 DEF Typed, Resting
<1>6. Ordered'
  BY <1>1, <1>2, <1>3 DEF Ordered, Ending
<1>7. Counted'
  <2>1. Pending' = {}
    BY <1>2, <1>3 DEF Pending
  <2> QED BY <1>1, <1>2, <2>1 DEF Counted
<1>8. Worked'
  <2>1. \A t \in Threads : ~Dealt(t)'
    BY <1>2 DEF Dealt
  <2>2. \A k \in Jobs : runs[k] = IF k >= main.set THEN 0 ELSE 1
    BY <1>1, <1>2 DEF Worked
  <2>3. \A k \in Jobs : runs'[k] = IF main'.at = "sequential" /\ k >= main'.set THEN 0 ELSE 1
    BY <1>1, <1>2, <1>3, <2>2 DEF Jobs, Cells
  <2> QED BY <1>2, <2>1, <2>3 DEF Worked
<1> QED BY <1>4, <1>5, <1>6, <1>7, <1>8 DEF PoolInv

\* kt_forpool_destroy: no thread is at work, and each is told to end.
LEMMA PoolDestroy ==
  ASSUME PoolInv, Destroy, UNCHANGED <<forVars, n_pending, mutex, calls, wakes>>
  PROVE  PoolInv'
<1>1. /\ Cells /\ Typed /\ Ordered /\ Counted /\ Worked
      /\ n_threads \in Nat \ {0} /\ n \in Nat
  BY DEF PoolInv, Cells
<1>2. /\ main.at \in {"idle", "destroy", "join"} /\ Pending = {}
      /\ main'.at \in Ending /\ main' \in [at : Ending, set : Nat]
  BY <1>1 DEF Destroy, Goto, Typed, Counted, Resting, Ending
<1>3. /\ Cells' /\ Threads' = Threads /\ Jobs' = Jobs /\ n_threads' = n_threads /\ n' = n
      /\ i' = i /\ runs' = runs
      /\ \A c \in Threads : (OnCourse(c)' <=> OnCourse(c)) /\ (Passed(c)' <=> Passed(c))
  BY <1>1, SameCells DEF forVars
<1>4. /\ action' \in [Threads -> {-1, 0, 1}]
      /\ \A t \in Threads : action'[t] = action[t] \/ action'[t] = -1
  BY <1>1 DEF Destroy, Typed
<1>5. /\ pc' \in [Threads -> {"lock", "check", "block", "asleep", "awake", "own", "scan", "exit"}]
      /\ \A t \in Threads : pc'[t] = pc[t] \/ (pc[t] = "asleep" /\ pc'[t] = "awake")
  BY <1>1 DEF Destroy, Typed, Broadcast
<1>6. \A t \in Threads : action[t] # 1 /\ pc[t] # "lock"
  BY <1>2 DEF Pending
<1>7. Typed'
  BY <1>1, <1>2, <1>3, <1>4, <1>5 DEF Typed, Resting, Ending
<1>8. Ordered'
  <2>1. \A t \in Threads : mutex' = t <=> pc'[t] \in {"check", "block"}
    BY <1>1, <1>5 DEF Ordered
  <2>2. \A t \in Threads : pc'[t] \notin {"own", "scan"} /\ action'[t] # 1
    BY <1>1, <1>4, <1>5, <1>6 DEF Ordered
  <2> QED BY <1>2, <1>3, <2>1, <2>2 DEF Ordered, Ending
<1>9. Counted'
  <2>1. Pending' = {}
    BY <1>2, <1>3, <1>4, <1>5, <1>6 DEF Pending, Ending
  <2> QED BY <1>1, <1>2, <2>1 DEF Counted
<1>10. Worked'
  <2>1. \A t \in Threads : Dealt(t)' <=> Dealt(t)
    BY <1>2, <1>3 DEF Dealt, Ending
  <2>2. main.at # "sequential" /\ main'.at # "sequential"
    BY <1>2 DEF Ending
  <2>3. \A t \in Threads : Dealt(t) => i[t] >= n
    BY <1>1, <1>6 DEF Worked
  <2> QED BY <1>1, <1>3, <2>1, <2>2, <2>3 DEF Worked
<1> QED BY <1>3, <1>7, <1>8, <1>9, <1>10 DEF PoolInv

\* Every step keeps the invariant.
LEMMA PoolInvNext ==
  ASSUME ForAssumption
  PROVE  PoolInv /\ [PoolNext]_all => PoolInv'
<1> SUFFICES ASSUME PoolInv, [PoolNext]_all PROVE PoolInv'
  OBVIOUS
<1>1. CASE PoolMain
  BY <1>1, PoolBegin, PoolSet, PoolWaits, PoolAlone, PoolDestroy DEF PoolMain
<1>2. ASSUME NEW t \in Threads, PoolWorker(t) \/ Spurious(t) PROVE PoolInv'
  BY <1>2, PoolReady, PoolChecks, PoolBlocks, PoolLoop, PoolSpurious DEF PoolWorker
<1>3. CASE UNCHANGED all
  <2>1. UNCHANGED <<n_threads, n, i, seen, runs, pc, main, n_pending, action, mutex, calls>>
    BY <1>3 DEF all, vars, forVars, poolVars
  <2> QED BY <2>1 DEF PoolInv, Cells, Scanned, Typed, Ordered, Counted, Pending, Worked, Dealt,
     Waiting, OnCourse, Passed, Threads, Jobs
<1> QED BY <1>1, <1>2, <1>3 DEF PoolNext

\* Between the calls no thread is at work, and all the jobs of the last are done.
LEMMA PoolDone == PoolInv => PoolTypeOK /\ NoneLate /\ Finished
<1> SUFFICES ASSUME PoolInv PROVE PoolTypeOK /\ NoneLate /\ Finished
  OBVIOUS
<1>1. /\ Cells /\ Typed /\ Ordered /\ Counted /\ Worked
      /\ n_threads \in Nat \ {0} /\ n \in Nat
  BY DEF PoolInv, Cells
<1>2. main.at \in Resting => \A t \in Threads : action[t] # 1
  BY <1>1 DEF Counted, Pending
<1>3. PoolTypeOK
  BY <1>1, PendingBounds DEF PoolTypeOK, Cells, Typed
<1>4. NoneLate
  BY <1>1, <1>2 DEF NoneLate, Ordered, Resting, Ending
<1>5. Finished
  <2> SUFFICES ASSUME main.at = "idle", calls > 0, NEW k \in Jobs PROVE runs[k] > 0
    BY DEF Finished
  <2>1. CASE n_threads = 1
    BY <1>1, <2>1 DEF Worked
  <2>2. CASE n_threads > 1
    <3> DEFINE c == k % n_threads
    <3>1. c \in Threads /\ k \in Nat /\ k < n
      BY <1>1, JobsCounter DEF Jobs
    <3>2. Dealt(c) /\ action[c] # 1
      BY <1>2, <2>2, <3>1 DEF Dealt, Resting
    <3>3. Passed(c) /\ i[c] >= n /\ i[c] \in Nat
      BY <1>1, <3>1, <3>2 DEF Worked, Cells
    <3> QED BY <1>1, <3>1, <3>3 DEF Passed
  <2> QED BY <1>1, <2>1, <2>2
<1> QED BY <1>3, <1>4, <1>5

\* kt_forpool returns when all jobs of the call are done and no thread is at work,
\* for any number of threads, jobs, calls and spurious wakeups.
THEOREM PoolSound ==
  ASSUME ForAssumption
  PROVE  PoolSpec => [](PoolTypeOK /\ NoneLate /\ Finished)
<1>1. PoolInit => PoolInv
  BY PoolStart
<1>2. PoolInv /\ [PoolNext]_all => PoolInv'
  BY PoolInvNext
<1> QED BY <1>1, <1>2, PoolDone, PTL DEF PoolSpec

-----------------------------------------------------------------------------
(* Without spurious wakeups.                                               *)

\* Nobody is awake who has not been told; then every job is done once.
LEMMA PunctualStart ==
  ASSUME ForAssumption, PoolInit
  PROVE  Punctual
BY DEF ForAssumption, PoolInit, Punctual, Threads

\* A step of a thread.
LEMMA PunctualThread ==
  ASSUME PoolInv, Punctual, NEW t \in Threads, PoolWorker(t)
  PROVE  Punctual'
<1>1. /\ Cells /\ Typed /\ Ordered /\ Counted /\ Worked
      /\ n_threads \in Nat \ {0} /\ n \in Nat
  BY DEF PoolInv, Cells
<1>2. pc[t] \in {"lock", "check", "block", "awake", "own", "scan"}
  BY DEF PoolWorker, Ready, Check, Block, Wake, Loop, Own, Scan, Take
<1>3. main.at \notin {"idle", "set", "sequential"}
  BY <1>2 DEF Punctual
<1>4. n_threads > 1 /\ calls > 0 => Exact /\ \A c \in Threads : OnCourse(c)
  BY <1>1, <1>3 DEF Punctual, Worked, Dealt
<1>5. CASE Ready(t)
  <2>1. /\ UNCHANGED forVars /\ calls' = calls /\ wakes' = wakes
        /\ action' = [action EXCEPT ![t] = 0] /\ pc' = [pc EXCEPT ![t] = "check"]
        /\ main' = main \/ (main.at = "wait" /\ main' = [main EXCEPT !.at = "woken"])
    BY <1>5 DEF Ready, Woken
  <2>2. Threads' = Threads /\ n_threads' = n_threads /\ (Exact' <=> Exact)
    BY <1>1, <2>1, SameCells
  <2>3. main.at # "destroy"
    <3>1. t \in Pending
      BY <1>5 DEF Ready, Pending
    <3> QED BY <1>1, <3>1 DEF Counted, Resting, Ending
  <2>4. main'.at \notin {"idle", "set", "sequential", "destroy"}
    BY <1>1, <1>3, <2>1, <2>3 DEF Typed
  <2>5. \A u \in Threads : pc'[u] = "awake" => action'[u] # 0
    BY <1>1, <2>1 DEF Typed, Punctual
  <2> QED BY <1>4, <2>1, <2>2, <2>4, <2>5 DEF Punctual
<1>6. CASE Check(t) \/ Block(t) \/ Wake(t)
  <2>1. /\ UNCHANGED forVars /\ UNCHANGED <<main, action, calls, wakes>>
        /\ \A u \in Threads : pc'[u] = "awake" => pc[u] = "awake"
    BY <1>1, <1>6 DEF Check, Block, Wake, Typed
  <2>2. Threads' = Threads /\ n_threads' = n_threads /\ (Exact' <=> Exact)
    BY <1>1, <2>1, SameCells
  <2> QED BY <1>3, <1>4, <2>1, <2>2 DEF Punctual
<1>7. CASE Loop(t)
  <2>1. UNCHANGED <<main, action, calls, wakes>>
    BY <1>7 DEF Loop, poolVars
  <2>2. /\ pc[t] \in {"own", "scan"}
        /\ \A u \in Threads : pc'[u] = "awake" => pc[u] = "awake"
    BY <1>1, <1>7 DEF Loop, Own, Scan, Take, Typed
  <2>3. n_threads > 1 /\ calls > 0
    BY <1>1, <2>2 DEF Ordered
  <2>4. Exact' /\ Threads' = Threads
    <3>1. CASE Own(t)
      BY <1>1, <1>4, <2>3, <3>1, OwnDeals, DealExact, DealCells
    <3>2. CASE Scan(t)
      BY <1>1, <1>4, <2>3, <3>2, ScanLooks DEF Exact, Threads, Jobs
    <3>3. CASE Take(t, "lock")
      BY <1>1, <1>4, <2>3, <3>3, TakeDeals, DealExact, DealCells
    <3> QED BY <1>7, <3>1, <3>2, <3>3 DEF Loop
  <2> QED BY <1>3, <2>1, <2>2, <2>4 DEF Punctual
<1> QED BY <1>5, <1>6, <1>7 DEF PoolWorker

\* The caller wakes the threads when all have their orders.
LEMMA PunctualTell ==
  ASSUME PoolInv, Punctual, Tell
  PROVE  Punctual'
<1>1. /\ Cells /\ Typed /\ Ordered /\ Counted /\ Worked
      /\ n_threads \in Nat \ {0} /\ n \in Nat
  BY DEF PoolInv, Cells
<1>2. /\ main.at = "set" /\ main.set = n_threads /\ n_threads > 1
      /\ UNCHANGED forVars /\ UNCHANGED <<n_pending, action, calls, wakes>>
      /\ main'.at = IF n_pending = 0 THEN "idle" ELSE "wait"
  BY <1>1 DEF Tell, Goto, poolVars, Typed
<1>3. \A t \in Threads : i[t] = t /\ action[t] = 1 /\ t \in Nat /\ t < n_threads
  BY <1>1, <1>2 DEF Punctual, Threads
<1>4. main'.at = "wait"
  <2>1. 0 \in Pending
    BY <1>1, <1>3 DEF Pending, Threads
  <2> QED BY <1>1, <1>2, <2>1, PendingBounds
<1>5. Exact
  <2> SUFFICES ASSUME NEW k \in Jobs PROVE runs[k] = IF k < i[k % n_threads] THEN 1 ELSE 0
    BY DEF Exact
  <2> DEFINE c == k % n_threads
  <2>1. c \in Threads /\ k \in Nat /\ c <= k
    BY <1>1, JobsCounter, RemainderLess
  <2>2. i[c] = c /\ c \in Nat
    BY <1>3, <2>1
  <2>3. runs[k] = 0
    BY <1>1, <1>2 DEF Punctual, Typed
  <2>4. ~(k < i[c])
    <3> HIDE DEF c
    <3> QED BY <2>1, <2>2
  <2> QED BY <2>3, <2>4
<1>6. Threads' = Threads /\ n_threads' = n_threads /\ (Exact' <=> Exact)
  BY <1>1, <1>2, SameCells
<1> QED BY <1>2, <1>3, <1>4, <1>5, <1>6 DEF Punctual

\* The caller begins to wait, or stops waiting.
LEMMA PunctualReturn ==
  ASSUME PoolInv, Punctual, Await \/ Return
  PROVE  Punctual'
<1>1. /\ Cells /\ Typed /\ Ordered /\ Counted /\ Worked
      /\ n_threads \in Nat \ {0} /\ n \in Nat
  BY DEF PoolInv, Cells
<1>2. /\ main.at \in {"lock", "woken"} /\ mutex = None
      /\ UNCHANGED forVars /\ UNCHANGED <<pc, n_pending, action, calls, wakes>>
      /\ main'.at = IF n_pending = 0 THEN "idle" ELSE "wait"
  BY DEF Await, Return, Goto, poolVars
<1>3. Threads' = Threads /\ n_threads' = n_threads /\ (Exact' <=> Exact)
  BY <1>1, <1>2, SameCells
<1>4. n_pending = 0 => \A t \in Threads : pc[t] = "asleep"
  <2> SUFFICES ASSUME n_pending = 0, NEW t \in Threads PROVE pc[t] = "asleep"
    OBVIOUS
  <2>1. t \notin Pending /\ t # None
    BY <1>1, PendingBounds DEF Threads, None
  <2>2. action[t] # 1 /\ pc[t] # "lock"
    BY <2>1 DEF Pending
  <2>3. action[t] = 0 /\ pc[t] # "exit"
    BY <1>1, <1>2, <2>2 DEF Ordered, Typed, Ending
  <2>4. pc[t] \notin {"own", "scan", "check", "block"}
    BY <1>1, <1>2, <2>1, <2>2 DEF Ordered
  <2>5. pc[t] # "awake"
    BY <2>3 DEF Punctual
  <2> QED BY <1>1, <2>2, <2>3, <2>4, <2>5 DEF Typed
<1> QED BY <1>2, <1>3, <1>4 DEF Punctual

\* A call begins, or gives the next order, or does a job itself.
LEMMA PunctualCaller ==
  ASSUME PoolInv, Punctual, Begin \/ Set \/ OneThread, ForAssumption
  PROVE  Punctual'
<1>1. /\ Cells /\ Typed /\ Ordered /\ Counted /\ Worked
      /\ n_threads \in Nat \ {0} /\ n \in Nat
  BY DEF PoolInv, Cells
<1>2. /\ \A t \in Threads : pc[t] = "asleep"
      /\ UNCHANGED <<n_threads, pc, wakes>> /\ Threads' = Threads
  BY DEF Punctual, Begin, Set, OneThread, poolVars, Threads
<1>3. CASE Begin
  <2>1. /\ main' = IF n_threads > 1 THEN [at |-> "set", set |-> 0] ELSE [at |-> "sequential", set |-> 0]
        /\ runs' = [k \in Jobs' |-> 0]
    BY <1>3 DEF Begin, Goto, Jobs
  <2>2. \A t \in Threads : ~(t < 0)
    BY <1>1 DEF Threads
  <2> QED BY <1>1, <1>2, <2>1, <2>2 DEF Punctual
<1>4. CASE Set
  <2>1. /\ main.at = "set" /\ main.set \in Nat
        /\ i' = [i EXCEPT ![main.set] = main.set] /\ action' = [action EXCEPT ![main.set] = 1]
        /\ main' = [at |-> "set", set |-> main.set + 1] /\ runs' = runs /\ Jobs' = Jobs
        /\ n_threads > 1 /\ calls > 0
    BY <1>1, <1>4 DEF Set, Typed, Jobs
  <2>2. \A t \in Threads : t < main.set + 1 => t = main.set \/ t < main.set
    BY <1>1, <2>1 DEF Threads
  <2>3. \A t \in Threads : t < main'.set => i'[t] = t /\ action'[t] = 1
    BY <1>1, <2>1, <2>2 DEF Punctual, Typed, Cells
  <2>4. \A k \in Jobs : runs[k] = 0
    BY <2>1 DEF Punctual
  <2> QED BY <1>2, <2>1, <2>3, <2>4 DEF Punctual
<1>5. CASE OneThread
  <2>1. n_threads = 1 /\ main'.at \in {"sequential", "idle"}
    BY <1>1, <1>5 DEF OneThread, Goto, Typed
  <2> QED BY <1>2, <2>1 DEF Punctual
<1> QED BY <1>3, <1>4, <1>5

\* kt_forpool_destroy.
LEMMA PunctualDestroy ==
  ASSUME PoolInv, Punctual, Destroy, UNCHANGED <<forVars, n_pending, mutex, calls, wakes>>
  PROVE  Punctual'
<1>1. /\ Cells /\ Typed /\ Ordered /\ Counted /\ Worked
      /\ n_threads \in Nat \ {0} /\ n \in Nat
  BY DEF PoolInv, Cells
<1>2. /\ Threads' = Threads /\ n_threads' = n_threads /\ (Exact' <=> Exact)
  BY <1>1, SameCells DEF forVars
<1>3. /\ main.at \in {"idle", "destroy", "join"} /\ main'.at \in Ending
      /\ \A t \in Threads : action'[t] = action[t] \/ action'[t] = -1
  BY <1>1 DEF Destroy, Goto, Typed, Ending
<1>4. \A t \in Threads : pc'[t] = "awake" => action'[t] # 0
  <2>1. \A t \in Threads : t < n_threads
    BY <1>1 DEF Threads
  <2>2. \A t \in Threads :
           \/ pc'[t] = pc[t]
           \/ main.at = "destroy" /\ main.set = n_threads /\ action' = action
    BY DEF Destroy
  <2>3. \A t \in Threads : pc'[t] = pc[t] \/ action'[t] = -1
    BY <2>1, <2>2 DEF Punctual
  <2> QED BY <1>3, <2>3 DEF Punctual
<1>5. main'.at = "destroy" => \A t \in Threads : t < main'.set => action'[t] = -1
  <2>1. CASE main.at = "idle"
    <3>1. main'.set = 0 /\ \A t \in Threads : ~(t < 0)
      BY <1>1, <2>1 DEF Destroy, Goto, Threads
    <3> QED BY <3>1
  <2>2. CASE main.at = "destroy" /\ main'.at = "destroy"
    <3>1. /\ main.set \in Nat /\ action' = [action EXCEPT ![main.set] = -1]
          /\ main'.set = main.set + 1
      BY <1>1, <2>2 DEF Destroy, Goto, Typed
    <3>2. \A t \in Threads : t < main.set + 1 => t = main.set \/ t < main.set
      BY <1>1, <3>1 DEF Threads
    <3> QED BY <1>1, <2>2, <3>1, <3>2 DEF Punctual, Typed
  <2>3. CASE main.at = "join"
    BY <2>3 DEF Destroy, Goto
  <2> QED BY <1>3, <2>1, <2>2, <2>3
<1> QED BY <1>2, <1>3, <1>4, <1>5 DEF Punctual, Ending

\* Every step keeps it.
LEMMA PunctualNext ==
  ASSUME ForAssumption, MaxWakes = 0, PoolInv, Punctual, [PoolNext]_all
  PROVE  Punctual'
<1>1. CASE PoolMain
  BY <1>1, PunctualTell, PunctualReturn, PunctualCaller, PunctualDestroy DEF PoolMain
<1>2. ASSUME NEW t \in Threads, PoolWorker(t) PROVE Punctual'
  BY <1>2, PunctualThread
<1>3. ASSUME NEW t \in Threads, Spurious(t) PROVE FALSE
  BY <1>3 DEF Spurious, Punctual
<1>4. CASE UNCHANGED all
  <2>1. UNCHANGED <<n_threads, n, i, runs, pc, main, action, calls, wakes>>
    BY <1>4 DEF all, vars, forVars, poolVars
  <2> QED BY <2>1 DEF Punctual, Exact, Threads, Jobs
<1> QED BY <1>1, <1>2, <1>3, <1>4 DEF PoolNext

\* Then no job is done twice.
LEMMA PunctualOnce == PoolInv /\ Punctual => Once
<1> SUFFICES ASSUME PoolInv, Punctual, NEW k \in Jobs PROVE runs[k] <= 1
  BY DEF Once
<1>1. Cells /\ Typed /\ Worked /\ n_threads \in Nat \ {0}
  BY DEF PoolInv, Cells
<1>2. calls > 0
  BY <1>1 DEF Typed, Jobs
<1>3. CASE n_threads = 1
  BY <1>1, <1>2, <1>3 DEF Worked
<1>4. CASE n_threads > 1
  BY <1>2, <1>4 DEF Punctual, Exact
<1> QED BY <1>1, <1>3, <1>4

\* If no wakeup is spurious kt_forpool does every job once; with one it may not.
THEOREM PoolOnce ==
  ASSUME ForAssumption, MaxWakes = 0
  PROVE  PoolSpec => []Once
<1> DEFINE Inv == PoolInv /\ Punctual
<1>1. PoolInit => Inv
  BY PoolStart, PunctualStart
<1>2. Inv /\ [PoolNext]_all => Inv'
  BY PoolInvNext, PunctualNext
<1>3. Inv => Once
  BY PunctualOnce
<1> QED BY <1>1, <1>2, <1>3, PTL DEF PoolSpec
=============================================================================
