-------------------------- MODULE KtPipelineProofs --------------------------
(***************************************************************************)
(* For every number of threads, steps and batches: types, one worker at a  *)
(* step, the order of the batches at every step, and, if no step drops     *)
(* one, that none is skipped and all arrive.                               *)
(***************************************************************************)
EXTENDS KtPipeline, TLAPS

Busy(w) == pc[w] \in {"work", "worked", "update"}

\* Batches have different indices.
Distinct == \A w, v \in Workers : index[w] = index[v] => w = v

\* A worker that is between its test and its next step has a step to do.
HasStep == \A w \in Workers : pc[w] \notin {"top", "done"} => step[w] \in Steps

\* Whoever is not past the step of a busy worker comes after it.
Behind ==
    \A w, v \in Workers :
        Busy(w) /\ v # w /\ step[v] <= step[w] => index[v] > index[w]

\* Whoever has yet to begin a step comes after all that have begun it.
YetToBegin ==
    \A w \in Workers, s \in Steps :
        step[w] <= s /\ ~(Busy(w) /\ step[w] = s) => index[w] > begun[s]

Given == \A s \in Steps : begun[s] < next

IInv == TypeOK /\ Distinct /\ HasStep /\ Behind /\ YetToBegin /\ Given

\* At the beginning every worker has a batch to ask for.
LEMMA InitInv ==
  ASSUME PipelineAssumption, Init
  PROVE  IInv
<1>1. TypeOK
  BY DEF PipelineAssumption, Init, TypeOK, Workers, Steps, NULL, NoWorker
<1>2. Distinct /\ HasStep /\ Behind
  BY DEF Init, Distinct, HasStep, Behind, Busy, Workers
<1>3. YetToBegin /\ Given
  BY DEF PipelineAssumption, Init, YetToBegin, Given, Workers, Steps
<1> QED BY <1>1, <1>2, <1>3 DEF IInv

\* The lock, the waits and the exit move nobody.
LEMMA StillInv ==
  ASSUME PipelineAssumption, IInv, NEW w \in Workers, Lock(w) \/ Wake(w) \/ Spurious(w) \/ Exit(w)
  PROVE  IInv'
<1>1. CASE Lock(w)
  <2>1. TypeOK' /\ Distinct' /\ Given'
    BY <1>1 DEF Lock, IInv, TypeOK, Distinct, Given
  <2>2. pc[w] = "top" /\ step[w] < n_steps => step[w] \in Steps
    BY <1>1 DEF PipelineAssumption, IInv, TypeOK, Steps
  <2>3. HasStep'
    BY <1>1, <2>2 DEF Lock, IInv, TypeOK, HasStep
  <2>4. \A v \in Workers : Busy(v)' <=> Busy(v)
    BY <1>1 DEF Lock, IInv, TypeOK, Busy
  <2>5. Behind' /\ YetToBegin'
    BY <1>1, <2>4 DEF Lock, IInv, Behind, YetToBegin
  <2> QED BY <2>1, <2>3, <2>5 DEF IInv
<1>2. CASE Wake(w)
  BY <1>2 DEF Wake, IInv, TypeOK, Distinct, HasStep, Behind, YetToBegin, Given, Busy
<1>3. CASE Spurious(w)
  BY <1>3 DEF Spurious, IInv, TypeOK, Distinct, HasStep, Behind, YetToBegin, Given, Busy
<1>4. CASE Exit(w)
  BY <1>4 DEF Exit, IInv, TypeOK, Distinct, HasStep, Behind, YetToBegin, Given, Busy
<1> QED BY <1>1, <1>2, <1>3, <1>4

\* A step is begun when nobody is ahead.
LEMMA TestInv ==
  ASSUME PipelineAssumption, IInv, NEW w \in Workers, Test(w)
  PROVE  IInv' /\ \A s \in Steps : begun'[s] >= begun[s]
<1> USE DEF IInv, Test
<1>1. step[w] \in Steps /\ index[w] \in Int /\ index[w] < next
  BY DEF HasStep, TypeOK
<1>2. TypeOK' /\ Distinct' /\ HasStep' /\ Given'
  <2>1. /\ UNCHANGED <<step, index, data, next, batches, passed, wakes>> /\ mutex' = NoWorker
        /\ pc' = [pc EXCEPT ![w] = "wait"] \/ pc' = [pc EXCEPT ![w] = "work"]
        /\ begun' = begun \/ begun' = [begun EXCEPT ![step[w]] = index[w]]
    <3>1. CASE \E v \in Workers \ {w} : Ahead(w, v)
      BY <3>1
    <3>2. CASE ~ \E v \in Workers \ {w} : Ahead(w, v)
      BY <3>2
    <3> QED BY <3>1, <3>2
  <2>2. TypeOK'
    BY <1>1, <2>1 DEF TypeOK
  <2>3. Distinct' /\ Given'
    BY <1>1, <2>1 DEF TypeOK, Distinct, Given
  <2>4. HasStep'
    BY <1>1, <2>1 DEF TypeOK, HasStep
  <2> QED BY <2>2, <2>3, <2>4
<1>3. CASE \E v \in Workers \ {w} : Ahead(w, v)
  <2>1. pc' = [pc EXCEPT ![w] = "wait"] /\ begun' = begun
    BY <1>3
  <2>2. \A v \in Workers : Busy(v)' <=> Busy(v)
    BY <2>1 DEF TypeOK, Busy
  <2>3. Behind' /\ YetToBegin'
    BY <2>1, <2>2 DEF Behind, YetToBegin
  <2>4. \A s \in Steps : begun'[s] >= begun[s]
    BY <2>1 DEF TypeOK
  <2> QED BY <1>2, <2>3, <2>4
<1>4. CASE ~ \E v \in Workers \ {w} : Ahead(w, v)
  <2>1. pc' = [pc EXCEPT ![w] = "work"] /\ begun' = [begun EXCEPT ![step[w]] = index[w]]
    BY <1>4
  <2>2. \A v \in Workers : v # w /\ step[v] <= step[w] => index[v] > index[w]
    BY <1>4 DEF Ahead, Distinct, TypeOK
  <2>3. Behind'
    BY <2>1, <2>2 DEF Behind, Busy, TypeOK
  <2>4. YetToBegin'
    <3> SUFFICES ASSUME NEW v \in Workers, NEW s \in Steps,
                        step[v] <= s, ~(Busy(v)' /\ step[v] = s)
                 PROVE  index[v] > begun'[s]
      BY DEF YetToBegin
    <3>1. Busy(v) => Busy(v)'
      BY <2>1 DEF Busy, TypeOK
    <3>2. index[v] > begun[s]
      BY <3>1 DEF PipelineAssumption, YetToBegin, Busy, Steps
    <3>3. CASE s # step[w]
      BY <2>1, <3>2, <3>3 DEF TypeOK
    <3>4. CASE s = step[w]
      <4>1. v # w
        BY <2>1, <3>4 DEF Busy, TypeOK
      <4>2. begun'[s] = index[w]
        BY <1>1, <2>1, <3>4 DEF TypeOK
      <4> QED BY <2>2, <3>4, <4>1, <4>2
    <3> QED BY <3>3, <3>4
  <2>5. index[w] > begun[step[w]]
    BY <1>1 DEF PipelineAssumption, YetToBegin, Busy, Steps
  <2> QED BY <1>1, <1>2, <2>1, <2>3, <2>4, <2>5 DEF TypeOK
<1> QED BY <1>3, <1>4

\* The caller's function changes data only.
LEMMA WorkInv ==
  ASSUME PipelineAssumption, IInv, NEW w \in Workers, Work(w)
  PROVE  IInv'
<1> USE DEF IInv, Work
<1>1. TypeOK'
  <2>1. 0 \in Steps /\ NULL \in Nat
    BY DEF PipelineAssumption, Steps, NULL
  <2>2. pc' = [pc EXCEPT ![w] = "worked"] /\ UNCHANGED <<step, index, next, mutex, begun, wakes>>
    OBVIOUS
  <2>3. step[w] \in Steps
    BY DEF HasStep
  <2>4. data' \in [Workers -> Nat] /\ batches' \in Nat /\ passed' \in [Steps -> Nat]
    BY <2>1, <2>3 DEF TypeOK
  <2> QED BY <2>2, <2>4 DEF TypeOK
<1>2. Distinct' /\ HasStep' /\ Given'
  BY DEF TypeOK, Distinct, HasStep, Given
<1>3. \A v \in Workers : Busy(v)' <=> Busy(v)
  BY DEF TypeOK, Busy
<1>4. Behind' /\ YetToBegin'
  BY <1>3 DEF Behind, YetToBegin
<1> QED BY <1>1, <1>2, <1>4

\* A worker that goes on keeps its place; one that starts over is the last.
LEMMA UpdateInv ==
  ASSUME PipelineAssumption, IInv, NEW w \in Workers, Update(w)
  PROVE  IInv'
<1> DEFINE t == NextStep(w)
<1> USE DEF IInv
<1>1. step[w] \in Steps /\ index[w] \in Int /\ index[w] < next
  BY DEF Update, HasStep, TypeOK
<1>2. \/ t = 0
      \/ t = step[w] + 1 /\ t \in Steps /\ t # 0
      \/ t = n_steps /\ t # 0
  BY <1>1 DEF PipelineAssumption, NextStep, Steps
<1>3. /\ step' = [step EXCEPT ![w] = t]
      /\ index' = [index EXCEPT ![w] = IF t = 0 THEN next ELSE index[w]]
      /\ next' = IF t = 0 THEN next + 1 ELSE next
      /\ pc'[w] = "top"
      /\ \A v \in Workers : v # w => pc'[v] = IF pc[v] = "wait" THEN "woken" ELSE pc[v]
      /\ pc' \in [Workers -> {"top", "test", "wait", "woken", "work", "worked", "update", "done"}]
      /\ mutex' = NoWorker
      /\ UNCHANGED <<data, batches, begun, passed, wakes>>
  <2>1. /\ step' = [step EXCEPT ![w] = t] /\ index' = [index EXCEPT ![w] = NextIndex(w, t)]
        /\ next' = IF t = 0 THEN next + 1 ELSE next
        /\ mutex' = NoWorker /\ pc' = Broadcast(w)
        /\ UNCHANGED <<data, batches, begun, passed, wakes>>
    BY DEF Update
  <2>2. \A v \in Workers :
          pc'[v] = IF v = w THEN "top" ELSE IF pc[v] = "wait" THEN "woken" ELSE pc[v]
    BY <2>1 DEF Broadcast
  <2>3. pc' \in [Workers -> {"top", "test", "wait", "woken", "work", "worked", "update", "done"}]
    BY <2>1 DEF Broadcast, TypeOK
  <2>4. index' = [index EXCEPT ![w] = IF t = 0 THEN next ELSE index[w]]
    BY <2>1 DEF NextIndex
  <2>5. pc'[w] = "top"
    BY <2>2
  <2>6. \A v \in Workers : v # w => pc'[v] = IF pc[v] = "wait" THEN "woken" ELSE pc[v]
    BY <2>2

  <2> QED BY <2>1, <2>3, <2>4, <2>5, <2>6
<1>4. Busy(w)
  BY DEF Update, Busy
<1> HIDE DEF t
<1>5. TypeOK'
  <2>1. t \in 0..n_steps
    BY <1>2 DEF PipelineAssumption, Steps
  <2>2. step' \in [Workers -> 0..n_steps] /\ index' \in [Workers -> Int] /\ next' \in Nat
    BY <1>3, <2>1 DEF TypeOK
  <2>3. \A v \in Workers : index'[v] < next'
    BY <1>1, <1>3 DEF TypeOK
  <2>4. mutex' \in Workers \cup {NoWorker}
    BY <1>3
  <2> QED BY <1>3, <2>2, <2>3, <2>4 DEF TypeOK
<1>6. Distinct'
  BY <1>1, <1>3 DEF Distinct, TypeOK
<1>7. HasStep'
  BY <1>3 DEF HasStep, TypeOK
<1>8. Given'
  BY <1>3 DEF Given, TypeOK
<1>9. Behind'
  <2> SUFFICES ASSUME NEW u \in Workers, NEW v \in Workers, Busy(u)', v # u, step'[v] <= step'[u]
               PROVE  index'[v] > index'[u]
    BY DEF Behind
  <2>1. u # w /\ Busy(u) /\ step'[u] = step[u] /\ index'[u] = index[u] /\ step[u] \in Steps
    BY <1>3 DEF Busy, TypeOK, HasStep
  <2>2. CASE v # w
    BY <1>3, <2>1, <2>2 DEF Behind, TypeOK
  <2>3. CASE v = w
    BY <1>1, <1>2, <1>3, <2>1, <2>3 DEF PipelineAssumption, Behind, TypeOK, Steps
  <2> QED BY <2>2, <2>3
<1>10. YetToBegin'
  <2> SUFFICES ASSUME NEW v \in Workers, NEW s \in Steps,
                      step'[v] <= s, ~(Busy(v)' /\ step'[v] = s)
               PROVE  index'[v] > begun'[s]
    BY DEF YetToBegin
  <2>1. CASE v # w
    BY <1>3, <2>1 DEF YetToBegin, Busy, TypeOK
  <2>2. CASE v = w /\ t = 0
    BY <1>3, <2>2 DEF Given, TypeOK
  <2>3. CASE v = w /\ t # 0
    <3>1. t = step[w] + 1 /\ step[w] < s
      BY <1>1, <1>2, <1>3, <2>3 DEF PipelineAssumption, TypeOK, Steps
    <3>2. index[w] > begun[s]
      BY <1>1, <3>1 DEF YetToBegin, Steps
    <3> QED BY <1>3, <2>3, <3>2 DEF TypeOK
  <2> QED BY <2>1, <2>2, <2>3
<1> QED BY <1>5, <1>6, <1>7, <1>8, <1>9, <1>10

\* Every step keeps the invariant and the order.
LEMMA NextInv ==
  ASSUME PipelineAssumption, IInv, [Next]_vars
  PROVE  IInv' /\ \A s \in Steps : begun'[s] >= begun[s]
<1>1. CASE UNCHANGED vars
  BY <1>1 DEF vars, IInv, TypeOK, Distinct, HasStep, Behind, YetToBegin, Given, Busy
<1>2. ASSUME NEW w \in Workers, Step(w) \/ Spurious(w)
      PROVE  IInv' /\ \A s \in Steps : begun'[s] >= begun[s]
  <2>1. CASE Test(w)
    BY <2>1, TestInv
  <2>2. CASE ~Test(w)
    <3>1. IInv'
      BY <1>2, <2>2, StillInv, WorkInv, UpdateInv DEF Step
    <3>2. begun' = begun
      BY <1>2, <2>2 DEF Step, Lock, Wake, Work, Update, Exit, Spurious
    <3> QED BY <3>1, <3>2 DEF IInv, TypeOK
  <2> QED BY <2>1, <2>2
<1> QED BY <1>1, <1>2 DEF Next

\* Types hold whatever the caller's function does.
THEOREM Types ==
  ASSUME PipelineAssumption
  PROVE  Spec => []TypeOK
<1>1. Init => IInv
  BY InitInv
<1>2. IInv /\ [Next]_vars => IInv'
  BY NextInv
<1>3. IInv => TypeOK
  BY DEF IInv
<1> QED BY <1>1, <1>2, <1>3, PTL DEF Spec

\* Two workers are never at work on one step ("test whether another worker is
\* doing the same step").
THEOREM Exclusion ==
  ASSUME PipelineAssumption
  PROVE  Spec => []OneAtAStep
<1>1. Init => IInv
  BY InitInv
<1>2. IInv /\ [Next]_vars => IInv'
  BY NextInv
<1>3. IInv => OneAtAStep
  BY DEF IInv, TypeOK, Behind, OneAtAStep, Busy
<1> QED BY <1>1, <1>2, <1>3, PTL DEF Spec

\* Every step takes the batches in the order of their indices.
THEOREM Order ==
  ASSUME PipelineAssumption
  PROVE  Spec => [][InOrder]_vars
<1>1. Init => IInv
  BY InitInv
<1>2. IInv /\ [Next]_vars => IInv'
  BY NextInv
<1>3. IInv /\ [Next]_vars => [InOrder]_vars
  BY NextInv DEF InOrder
<1> QED BY <1>1, <1>2, <1>3, PTL DEF Spec

-----------------------------------------------------------------------------
(* The batches, if no step drops one.                                      *)

\* How many steps worker w has done for its batch.
Did(w) == IF pc[w] \in {"worked", "update"} THEN step[w] + 1 ELSE step[w]

\* Worker w carries a batch that has not been through all steps.
Holds(w) == step[w] \in Steps /\ Did(w) \in 1..n_steps-1 /\ data[w] # NULL

\* Whoever is further has an earlier batch.
Further ==
    \A v, w \in Workers : step[v] \in Steps /\ step[w] < step[v] => index[v] < index[w]

\* A batch stays with its worker up to the last step.
Kept == \A w \in Workers : step[w] \in Steps \ {0} /\ Did(w) < n_steps => data[w] # NULL

\* The numbers of the batches are in the order of the indices.
Numbered ==
    \A v, w \in Workers : Holds(v) /\ Holds(w) /\ index[v] < index[w] => data[v] < data[w]

\* A batch has been through the steps that its worker has done, and no other.
Located ==
    \A w \in Workers : Holds(w) =>
        \A s \in Steps : IF s < Did(w) THEN data[w] <= passed[s] ELSE data[w] > passed[s]

\* A batch that has not been through a step is on its way there.
OnItsWay ==
    \A s \in Steps \ {0} : \A b \in passed[s]+1..batches :
        \E w \in Workers : Holds(w) /\ Did(w) <= s /\ data[w] = b

\* Of all steps the first is ahead.
FirstAhead ==
    /\ passed[0] = batches /\ batches <= MaxBatches
    /\ \A s \in Steps : passed[s] <= batches

\* Workers end when there are no more batches.
EndsLast ==
    \A w \in Workers :
        /\ pc[w] = "done" => step[w] = n_steps
        /\ \/ step[w] = n_steps
           \/ step[w] = 0 /\ Did(w) = 1 /\ data[w] = NULL
           => batches = MaxBatches

Flow ==
    /\ Further /\ Kept /\ Numbered /\ Located
    /\ OnItsWay /\ FirstAhead /\ EndsLast

\* No worker has done a step.
LEMMA FlowInit ==
  ASSUME PipelineAssumption, Init
  PROVE  Flow
<1>1. /\ n_steps \in Nat \ {0} /\ MaxBatches \in Nat /\ 0 \in Steps /\ batches = 0
      /\ \A s \in Steps : passed[s] = 0
      /\ \A w \in Workers : step[w] = 0 /\ Did(w) = 0 /\ pc[w] = "top"
  BY DEF PipelineAssumption, Init, Steps, NULL, Did
<1>2. \A w \in Workers : ~Holds(w)
  BY <1>1 DEF Holds
<1>3. Further /\ Kept /\ Numbered /\ Located
  BY <1>1, <1>2 DEF Further, Kept, Numbered, Located
<1>4. OnItsWay
  BY <1>1 DEF OnItsWay
<1>5. FirstAhead /\ EndsLast
  BY <1>1 DEF FirstAhead, EndsLast
<1> QED BY <1>3, <1>4, <1>5 DEF Flow

\* A step after which the same workers hold the same batches at the same places.
LEMMA SameBatches ==
  ASSUME Numbered, Located, OnItsWay, FirstAhead, UNCHANGED <<passed, batches>>,
         \A w \in Workers : Holds(w)' <=> Holds(w),
         \A w \in Workers : Holds(w) =>
            Did(w)' = Did(w) /\ data'[w] = data[w] /\ index'[w] = index[w]
  PROVE  Numbered' /\ Located' /\ OnItsWay' /\ FirstAhead'
<1>1. Numbered'
  BY DEF Numbered
<1>2. Located'
  BY DEF Located
<1>3. OnItsWay'
  <2> SUFFICES ASSUME NEW s \in Steps \ {0}, NEW b \in passed[s]+1..batches
               PROVE  \E w \in Workers : Holds(w)' /\ Did(w)' <= s /\ data'[w] = b
    BY DEF OnItsWay
  <2>1. PICK w \in Workers : Holds(w) /\ Did(w) <= s /\ data[w] = b
    BY DEF OnItsWay
  <2> QED BY <2>1
<1>4. FirstAhead'
  BY DEF FirstAhead
<1> QED BY <1>1, <1>2, <1>3, <1>4

\* The lock, the test, the waits and the exit move no batch.
LEMMA FlowStill ==
  ASSUME PipelineAssumption, IInv, Flow, NEW w \in Workers,
         Lock(w) \/ Test(w) \/ Wake(w) \/ Spurious(w) \/ Exit(w) \/ UNCHANGED vars
  PROVE  Flow' /\ passed' = passed
<1>1. UNCHANGED <<step, index, data, batches, passed>>
  BY DEF Lock, Test, Wake, Spurious, Exit, vars
<1>2. pc \in [Workers -> {"top", "test", "wait", "woken", "work", "worked", "update", "done"}]
  BY DEF IInv, TypeOK
<1>3. \A v \in Workers : pc'[v] \in {"worked", "update"} <=> pc[v] \in {"worked", "update"}
  BY <1>2 DEF Lock, Test, Wake, Spurious, Exit, vars
<1>4. \A v \in Workers : pc'[v] = "done" => pc[v] = "done" \/ step[v] = n_steps
  BY <1>2 DEF Lock, Test, Wake, Spurious, Exit, vars
<1>5. \A v \in Workers : Did(v)' = Did(v)
  BY <1>1, <1>3 DEF Did
<1>6. \A v \in Workers : Holds(v)' <=> Holds(v)
  BY <1>1, <1>5 DEF Holds
<1>7. Further' /\ Kept' /\ EndsLast'
  BY <1>1, <1>4, <1>5 DEF Flow, Further, Kept, EndsLast
<1>8. Numbered' /\ Located' /\ OnItsWay' /\ FirstAhead'
  BY <1>1, <1>5, <1>6, SameBatches DEF Flow
<1> QED BY <1>1, <1>7, <1>8 DEF Flow

\* What a worker at work changes.
LEMMA Worked ==
  ASSUME PipelineAssumption, IInv, NEW w \in Workers, Work(w)
  PROVE  /\ n_steps \in Nat \ {0} /\ step[w] \in Steps /\ step[w] \in 0..n_steps-1
         /\ Busy(w) /\ Did(w) = step[w] /\ Did(w)' = step[w] + 1
         /\ UNCHANGED <<step, index>>
         /\ \A v \in Workers : data[v] \in Nat /\ step[v] \in Nat /\ index[v] \in Int
         /\ \A v \in Workers : Did(v) \in Nat /\ Did(v)' \in Nat /\ step[v] <= Did(v)
         /\ \A s \in Steps : passed[s] \in Nat
         /\ batches \in Nat
         /\ \A v \in Workers : v # w =>
               /\ Did(v)' = Did(v) /\ data'[v] = data[v] /\ (Holds(v)' <=> Holds(v))
         /\ \A v \in Workers : pc'[v] = "done" => pc[v] = "done"
<1>1. /\ n_steps \in Nat \ {0} /\ step[w] \in Steps /\ step[w] \in 0..n_steps-1
      /\ UNCHANGED <<step, index>> /\ pc[w] = "work" /\ pc' = [pc EXCEPT ![w] = "worked"]
  BY DEF PipelineAssumption, IInv, HasStep, Work, Steps
<1>2. /\ \A v \in Workers : data[v] \in Nat /\ step[v] \in Nat /\ index[v] \in Int
      /\ \A s \in Steps : passed[s] \in Nat
      /\ batches \in Nat
  BY <1>1 DEF IInv, TypeOK
<1>3. pc \in [Workers -> {"top", "test", "wait", "woken", "work", "worked", "update", "done"}]
  BY DEF IInv, TypeOK
<1>4. pc'[w] = "worked" /\ \A v \in Workers : v # w => pc'[v] = pc[v]
  BY <1>1, <1>3
<1>5. Busy(w) /\ Did(w) = step[w] /\ Did(w)' = step[w] + 1
  BY <1>1, <1>4 DEF Busy, Did
<1>6. \A v \in Workers : v # w => Did(v)' = Did(v)
  BY <1>1, <1>4 DEF Did
<1>7. \A v \in Workers : v # w => data'[v] = data[v]
  BY DEF IInv, TypeOK, Work
<1>8. \A v \in Workers : v # w => (Holds(v)' <=> Holds(v))
  BY <1>1, <1>6, <1>7 DEF Holds
<1>9. \A v \in Workers : Did(v) \in Nat /\ Did(v)' \in Nat /\ step[v] <= Did(v)
  BY <1>1, <1>2 DEF Did
<1> QED BY <1>1, <1>2, <1>4, <1>5, <1>6, <1>7, <1>8, <1>9

\* The first step returns one more batch, behind all that there are.
LEMMA FlowBatch ==
  ASSUME PipelineAssumption, IInv, Flow, NEW w \in Workers, Work(w),
         step[w] = 0, batches < MaxBatches, batches' = batches + 1,
         data' = [data EXCEPT ![w] = batches + 1],
         passed' = [passed EXCEPT ![0] = batches + 1]
  PROVE  Flow' /\ \A s \in Steps : passed'[s] # passed[s] => passed'[s] = passed[s] + 1
<1>1. /\ n_steps \in Nat \ {0} /\ 0 \in Steps /\ batches \in Nat /\ MaxBatches \in Nat
      /\ data'[w] = batches + 1 /\ passed'[0] = batches + 1
      /\ \A s \in Steps : s # 0 => passed'[s] = passed[s]
      /\ Did(w) = 0 /\ Did(w)' = 1 /\ ~Holds(w)
      /\ passed[0] = batches /\ \A s \in Steps : s \in Nat /\ passed[s] \in Nat /\ passed[s] <= batches
  <2>1. /\ data'[w] = batches + 1 /\ passed'[0] = batches + 1
        /\ \A s \in Steps : s # 0 => passed'[s] = passed[s]
    BY Worked DEF IInv, TypeOK
  <2>2. Did(w) = 0 /\ Did(w)' = 1 /\ ~Holds(w)
    BY Worked DEF Holds
  <2>3. passed[0] = batches /\ \A s \in Steps : s \in Nat /\ passed[s] \in Nat /\ passed[s] <= batches
    BY Worked DEF Flow, FirstAhead, Steps
  <2> QED BY <2>1, <2>2, <2>3, Worked DEF PipelineAssumption
<1>2. ASSUME NEW v \in Workers, v # w, Holds(v)
      PROVE  index[v] < index[w] /\ data[v] <= batches
  <2>1. index[v] \in Int /\ index[w] \in Int /\ Did(v) \in 1..n_steps-1 /\ step[v] \in Steps
    BY <1>2, Worked DEF Holds
  <2>2. CASE step[v] = 0
    <3>1. Busy(v)
      BY <2>1, <2>2 DEF Did, Busy
    <3>2. index[w] > index[v] /\ index[v] > index[w]
      BY <1>2, <2>2, <3>1, Worked DEF IInv, Behind
    <3> QED BY <2>1, <3>2
  <2>3. CASE step[v] > 0
    <3>1. index[v] < index[w]
      BY <2>1, <2>3 DEF Flow, Further
    <3>2. data[v] <= passed[0]
      BY <1>1, <1>2, <2>1 DEF Flow, Located
    <3> QED BY <1>1, <3>1, <3>2
  <2> QED BY <2>1, <2>2, <2>3 DEF Steps
<1>3. Further' /\ Kept'
  <2>1. Further'
    BY Worked DEF Flow, Further
  <2>2. Kept'
    BY Worked DEF Flow, Kept
  <2> QED BY <2>1, <2>2
<1>4. Numbered'
  <2> SUFFICES ASSUME NEW v \in Workers, NEW u \in Workers, Holds(v)', Holds(u)', index[v] < index[u]
               PROVE  data'[v] < data'[u]
    BY Worked DEF Numbered
  <2>1. CASE v # w /\ u # w
    BY <2>1, Worked DEF Flow, Numbered
  <2>2. CASE v # w /\ u = w
    <3>1. data'[v] = data[v] /\ data[v] <= batches /\ data[v] \in Nat
      BY <2>2, <1>2, Worked
    <3> QED BY <1>1, <2>2, <3>1
  <2>3. CASE v = w /\ u # w
    <3>1. index[u] < index[w] /\ index[u] \in Int /\ index[w] \in Int
      BY <2>3, <1>2, Worked
    <3> QED BY <2>3, <3>1
  <2>4. CASE v = w /\ u = w
    BY <2>4, Worked
  <2> QED BY <2>1, <2>2, <2>3, <2>4
<1>5. Located'
  <2> SUFFICES ASSUME NEW v \in Workers, Holds(v)', NEW s \in Steps
               PROVE  IF s < Did(v)' THEN data'[v] <= passed'[s] ELSE data'[v] > passed'[s]
    BY DEF Located
  <2>1. CASE v = w
    BY <1>1, <2>1
  <2>2. CASE v # w /\ s = 0
    <3>1. Did(v)' \in 1..n_steps-1 /\ data'[v] = data[v] /\ data[v] \in Nat /\ data[v] <= batches
      BY <2>2, <1>2, Worked DEF Holds
    <3> QED BY <1>1, <2>2, <3>1
  <2>3. CASE v # w /\ s # 0
    BY <1>1, <2>3, Worked DEF Flow, Located
  <2> QED BY <2>1, <2>2, <2>3
<1>6. OnItsWay'
  <2> SUFFICES ASSUME NEW s \in Steps \ {0}, NEW b \in passed'[s]+1..batches'
               PROVE  \E v \in Workers : Holds(v)' /\ Did(v)' <= s /\ data'[v] = b
    BY DEF OnItsWay
  <2>1. s \in 1..n_steps-1 /\ passed'[s] = passed[s] /\ b \in Int
    BY <1>1 DEF Steps
  <2>2. CASE b = batches + 1
    <3>1. Holds(w)'
      BY <1>1, <2>1, Worked DEF Holds, NULL
    <3> QED BY <1>1, <2>1, <2>2, <3>1
  <2>3. CASE b # batches + 1
    <3>1. b \in passed[s]+1..batches
      BY <1>1, <2>1, <2>3
    <3>2. PICK v \in Workers : Holds(v) /\ Did(v) <= s /\ data[v] = b
      BY <3>1 DEF Flow, OnItsWay
    <3>3. v # w
      BY <1>1, <3>2
    <3> QED BY <3>2, <3>3, Worked
  <2> QED BY <2>2, <2>3
<1>7. FirstAhead'
  BY <1>1 DEF FirstAhead
<1>8. EndsLast'
  <2>1. \A v \in Workers : step[v] # n_steps /\ (v # w /\ step[v] = 0 /\ Did(v) = 1 => data[v] # NULL)
    BY <1>1 DEF Flow, EndsLast
  <2>2. \A v \in Workers : pc'[v] = "done" => step[v] = n_steps
    BY Worked DEF Flow, EndsLast
  <2>3. data'[w] # NULL
    BY <1>1 DEF NULL
  <2> QED BY <2>1, <2>2, <2>3, Worked DEF EndsLast
<1> QED BY <1>1, <1>3, <1>4, <1>5, <1>6, <1>7, <1>8 DEF Flow

\* The first step returns no batch.
LEMMA FlowNoBatch ==
  ASSUME PipelineAssumption, IInv, Flow, NEW w \in Workers, Work(w),
         step[w] = 0, batches = MaxBatches,
         data' = [data EXCEPT ![w] = NULL], UNCHANGED <<batches, passed>>
  PROVE  Flow'
<1>1. data'[w] = NULL
  BY DEF IInv, TypeOK
<1>2. ~Holds(w) /\ ~Holds(w)'
  BY <1>1, Worked DEF Holds
<1>3. Numbered' /\ Located' /\ OnItsWay' /\ FirstAhead'
  <2>1. \A v \in Workers : Holds(v)' <=> Holds(v)
    BY <1>2, Worked
  <2>2. \A v \in Workers : Holds(v) =>
            Did(v)' = Did(v) /\ data'[v] = data[v] /\ index'[v] = index[v]
    BY <1>2, Worked
  <2> QED BY <2>1, <2>2, SameBatches DEF Flow
<1>4. Further'
  BY Worked DEF Flow, Further
<1>5. Kept'
  BY Worked DEF Flow, Kept
<1>6. EndsLast'
  BY Worked DEF Flow, EndsLast
<1> QED BY <1>3, <1>4, <1>5, <1>6 DEF Flow

\* A later step gets the batch after the one that it was last done for.
LEMMA FlowPass ==
  ASSUME PipelineAssumption, IInv, Flow, NEW w \in Workers, Work(w),
         step[w] > 0, passed' = [passed EXCEPT ![step[w]] = data[w]], batches' = batches,
         data' = data \/ (step[w] = n_steps - 1 /\ data' = [data EXCEPT ![w] = NULL])
  PROVE  Flow' /\ \A s \in Steps : passed'[s] # passed[s] => passed'[s] = passed[s] + 1
<1> DEFINE r == step[w]
           d == data[w]
<1>1. /\ n_steps \in Nat \ {0} /\ r \in 1..n_steps-1 /\ r \in Steps /\ 0 \in Steps
      /\ Did(w) = r /\ Did(w)' = r + 1 /\ d \in Nat /\ batches \in Nat
      /\ \A s \in Steps : s \in Nat /\ s <= n_steps - 1 /\ passed[s] \in Nat
  BY Worked DEF Steps
<1>2. passed'[r] = d /\ \A s \in Steps : s # r => passed'[s] = passed[s]
  BY <1>1 DEF IInv, TypeOK
<1>3. Holds(w)
  <2>1. data[w] # NULL
    BY <1>1 DEF Flow, Kept
  <2> QED BY <1>1, <2>1 DEF Holds
<1>4. d > passed[r] /\ d <= batches
  <2>1. d > passed[r] /\ d <= passed[0]
    BY <1>1, <1>3 DEF Flow, Located
  <2> QED BY <2>1 DEF Flow, FirstAhead
<1>5. ASSUME NEW v \in Workers, v # w, Holds(v), Did(v) <= r
      PROVE  data[v] > d
  <2>1. step[v] <= r
    BY <1>1, <1>5, Worked
  <2>2. index[v] > index[w]
    BY <1>5, <2>1, Worked DEF IInv, Behind
  <2>3. index[v] \in Int /\ index[w] \in Int /\ data[v] \in Nat
    BY Worked
  <2>4. index[w] < index[v]
    BY <2>2, <2>3
  <2>5. data[w] < data[v]
    BY <1>3, <1>5, <2>4 DEF Flow, Numbered
  <2> QED BY <1>1, <2>3, <2>5
<1>6. d = passed[r] + 1
  <2>1. passed[r] \in Nat /\ passed[r] + 1 \in passed[r]+1..batches /\ r # 0
    BY <1>1, <1>4
  <2>2. PICK u \in Workers : Holds(u) /\ Did(u) <= r /\ data[u] = passed[r] + 1
    BY <1>1, <2>1 DEF Flow, OnItsWay
  <2>3. CASE u = w
    BY <2>2, <2>3
  <2>4. CASE u # w
    <3>1. data[u] > d
      BY <1>5, <2>2, <2>4
    <3> QED BY <1>1, <1>4, <2>1, <2>2, <3>1
  <2> QED BY <2>3, <2>4
<1>7. /\ Holds(w)' => r < n_steps - 1 /\ data'[w] = d
      /\ r < n_steps - 1 => Holds(w)' /\ data'[w] = d
  <2>1. r < n_steps - 1 => data' = data
    BY <1>1
  <2>2. Holds(w)' => r < n_steps - 1
    BY <1>1 DEF Holds
  <2>3. r < n_steps - 1 => Holds(w)'
    BY <1>1, <1>3, <2>1, Worked DEF Holds
  <2> QED BY <2>1, <2>2, <2>3
<1> HIDE DEF r, d
<1>8. Further'
  BY Worked DEF Flow, Further
<1>9. Kept'
  <2> SUFFICES ASSUME NEW v \in Workers, step[v] \in Steps \ {0}, Did(v)' < n_steps
               PROVE  data'[v] # NULL
    BY Worked DEF Kept
  <2>1. CASE v = w
    <3>1. r < n_steps - 1
      BY <1>1, <2>1
    <3> QED BY <1>7, <2>1, <3>1 DEF Holds
  <2>2. CASE v # w
    BY <2>2, Worked DEF Flow, Kept
  <2> QED BY <2>1, <2>2
<1>10. Numbered'
  <2> SUFFICES ASSUME NEW v \in Workers, NEW u \in Workers, Holds(v)', Holds(u)', index[v] < index[u]
               PROVE  data'[v] < data'[u]
    BY Worked DEF Numbered
  <2>1. /\ Holds(v) /\ data'[v] = data[v]
        /\ Holds(u) /\ data'[u] = data[u]
    BY <1>3, <1>7, Worked DEF d
  <2> QED BY <2>1 DEF Flow, Numbered
<1>11. Located'
  <2> SUFFICES ASSUME NEW v \in Workers, Holds(v)', NEW s \in Steps
               PROVE  IF s < Did(v)' THEN data'[v] <= passed'[s] ELSE data'[v] > passed'[s]
    BY DEF Located
  <2>1. CASE v = w
    <3>1. Did(v)' = r + 1 /\ data'[v] = d
      BY <1>1, <1>7, <2>1
    <3>2. IF s < r THEN d <= passed[s] ELSE d > passed[s]
      BY <1>1, <1>3 DEF Flow, Located, d
    <3>3. CASE s = r
      BY <1>1, <1>2, <3>1, <3>3
    <3>4. CASE s < r
      <4>1. passed'[s] = passed[s] /\ s < r + 1
        BY <1>1, <1>2, <3>4
      <4> QED BY <3>1, <3>2, <3>4, <4>1
    <3>5. CASE s > r
      <4>1. passed'[s] = passed[s] /\ ~(s < r + 1) /\ ~(s < r)
        BY <1>1, <1>2, <3>5
      <4> QED BY <3>1, <3>2, <4>1
    <3> QED BY <1>1, <3>3, <3>4, <3>5
  <2>2. CASE v # w /\ s # r
    BY <1>2, <2>2, Worked DEF Flow, Located
  <2>3. CASE v # w /\ s = r
    <3>1. Holds(v) /\ Did(v)' = Did(v) /\ data'[v] = data[v] /\ Did(v) \in Nat /\ data[v] \in Nat
      BY <2>3, Worked
    <3>2. CASE r < Did(v)
      <4>1. data[v] <= passed[r]
        BY <1>1, <3>1, <3>2 DEF Flow, Located
      <4> QED BY <1>1, <1>2, <1>6, <2>3, <3>1, <3>2, <4>1
    <3>3. CASE ~(r < Did(v))
      <4>1. Did(v) <= r
        BY <1>1, <3>1, <3>3
      <4>2. data[v] > d
        BY <1>5, <2>3, <3>1, <4>1
      <4> QED BY <1>2, <2>3, <3>1, <3>3, <4>2
    <3> QED BY <3>2, <3>3
  <2> QED BY <2>1, <2>2, <2>3
<1>12. OnItsWay'
  <2> SUFFICES ASSUME NEW s \in Steps \ {0}, NEW b \in passed'[s]+1..batches
               PROVE  \E v \in Workers : Holds(v)' /\ Did(v)' <= s /\ data'[v] = b
    BY DEF OnItsWay
  <2>1. b \in passed[s]+1..batches /\ b \in Int /\ (s = r => b > d)
    BY <1>1, <1>2, <1>6
  <2>2. PICK u \in Workers : Holds(u) /\ Did(u) <= s /\ data[u] = b
    BY <2>1 DEF Flow, OnItsWay
  <2>3. CASE u # w
    BY <2>2, <2>3, Worked
  <2>4. CASE u = w
    <3>1. r <= s /\ b = d
      BY <1>1, <2>2, <2>4 DEF d
    <3>2. s # r
      BY <1>1, <2>1, <3>1
    <3>3. r < n_steps - 1 /\ r + 1 <= s
      BY <1>1, <3>1, <3>2
    <3> QED BY <1>1, <1>7, <3>1, <3>3
  <2> QED BY <2>3, <2>4
<1>13. FirstAhead'
  <2>1. FirstAhead /\ r # 0
    BY <1>1 DEF Flow
  <2> QED BY <1>1, <1>2, <1>4, <2>1 DEF FirstAhead
<1>14. EndsLast'
  <2>1. step[w] # 0
    BY <1>1 DEF r
  <2> QED BY <2>1, Worked DEF Flow, EndsLast
<1> QED
  BY <1>2, <1>6, <1>8, <1>9, <1>10, <1>11, <1>12, <1>13, <1>14 DEF Flow

\* A worker takes its batch on to the next step, or comes back for another.
LEMMA FlowUpdate ==
  ASSUME PipelineAssumption, IInv, Flow, NEW w \in Workers, Update(w)
  PROVE  Flow' /\ passed' = passed
<1> DEFINE t == NextStep(w)
<1>1. /\ n_steps \in Nat \ {0} /\ step[w] \in Steps /\ step[w] \in 0..n_steps-1
      /\ pc[w] = "update" /\ Busy(w) /\ Did(w) = step[w] + 1
      /\ \A v \in Workers : step[v] \in Nat /\ index[v] \in Int /\ index[v] < next
      /\ next \in Nat
  <2>1. pc[w] = "update" /\ Busy(w) /\ Did(w) = step[w] + 1
    BY DEF Update, Did, Busy
  <2>2. n_steps \in Nat \ {0} /\ step[w] \in Steps /\ step[w] \in 0..n_steps-1
    BY <2>1 DEF PipelineAssumption, IInv, HasStep, Steps
  <2>3. /\ \A v \in Workers : step[v] \in Nat /\ index[v] \in Int /\ index[v] < next
        /\ next \in Nat
    BY <2>2 DEF IInv, TypeOK
  <2> QED BY <2>1, <2>2, <2>3
<1>2. \/ t = 0 /\ step[w] = n_steps - 1
      \/ t = step[w] + 1 /\ t \in 1..n_steps-1 /\ data[w] # NULL
      \/ t = n_steps /\ step[w] < n_steps - 1 /\ data[w] = NULL
  BY <1>1 DEF NextStep
<1>3. /\ step'[w] = t /\ index'[w] = IF t = 0 THEN next ELSE index[w]
      /\ \A v \in Workers : v # w => step'[v] = step[v] /\ index'[v] = index[v]
      /\ UNCHANGED <<data, batches, passed>>
  <2>1. /\ step' = [step EXCEPT ![w] = t] /\ index' = [index EXCEPT ![w] = NextIndex(w, t)]
        /\ UNCHANGED <<data, batches, passed>>
    BY DEF Update
  <2> HIDE DEF t
  <2> QED BY <2>1 DEF IInv, TypeOK, NextIndex
<1>4. /\ pc'[w] = "top"
      /\ \A v \in Workers : v # w => pc'[v] = IF pc[v] = "wait" THEN "woken" ELSE pc[v]
  BY DEF Update, Broadcast
<1> HIDE DEF t
<1>5. Did(w)' = t /\ \A v \in Workers : v # w => Did(v)' = Did(v)
  BY <1>3, <1>4 DEF Did
<1>6. \A v \in Workers : v # w => (Holds(v)' <=> Holds(v))
  BY <1>3, <1>5 DEF Holds
<1>7. /\ Holds(w)' <=> Holds(w)
      /\ Holds(w) => Did(w)' = Did(w) /\ index'[w] = index[w]
  <2>1. CASE t = 0 /\ step[w] = n_steps - 1
    <3>1. ~Holds(w)
      BY <1>1, <2>1 DEF Holds
    <3>2. ~Holds(w)'
      BY <1>1, <1>5, <2>1 DEF Holds
    <3> QED BY <3>1, <3>2
  <2>2. CASE t = step[w] + 1 /\ t \in 1..n_steps-1 /\ data[w] # NULL
    <3>1. t \in Steps /\ t # 0
      BY <1>1, <2>2 DEF Steps
    <3> QED BY <1>1, <1>3, <1>5, <2>2, <3>1 DEF Holds
  <2>3. CASE t = n_steps /\ step[w] < n_steps - 1 /\ data[w] = NULL
    BY <1>3, <2>3 DEF Holds
  <2> QED BY <1>2, <2>1, <2>2, <2>3
<1>8. Numbered' /\ Located' /\ OnItsWay' /\ FirstAhead'
  <2>1. \A v \in Workers : Holds(v)' <=> Holds(v)
    BY <1>6, <1>7
  <2>2. \A v \in Workers : Holds(v) =>
            Did(v)' = Did(v) /\ data'[v] = data[v] /\ index'[v] = index[v]
    BY <1>3, <1>5, <1>7
  <2> QED BY <1>3, <2>1, <2>2, SameBatches DEF Flow
<1>9. Further'
  <2> SUFFICES ASSUME NEW v \in Workers, NEW u \in Workers, step'[v] \in Steps, step'[u] < step'[v]
               PROVE  index'[v] < index'[u]
    BY DEF Further
  <2>1. CASE v # w /\ u # w
    BY <1>3, <2>1 DEF Flow, Further
  <2>2. CASE v = w /\ u # w
    <3>1. t = step[w] + 1 /\ step[u] <= step[w] /\ t # 0
      BY <1>1, <1>2, <1>3, <2>2 DEF Steps
    <3>2. index[u] > index[w]
      BY <1>1, <2>2, <3>1 DEF IInv, Behind
    <3> QED BY <1>1, <1>3, <2>2, <3>1, <3>2
  <2>3. CASE v # w /\ u = w /\ t = 0
    BY <1>1, <1>3, <2>3
  <2>4. CASE v # w /\ u = w /\ t # 0
    <3>1. step[v] \in Steps /\ step[w] < step[v]
      BY <1>1, <1>2, <1>3, <2>4 DEF Steps
    <3>2. index[v] < index[w]
      BY <3>1 DEF Flow, Further
    <3> QED BY <1>3, <2>4, <3>2
  <2>5. CASE v = w /\ u = w
    BY <1>1, <1>2, <1>3, <2>5
  <2> QED BY <2>1, <2>2, <2>3, <2>4, <2>5
<1>10. Kept'
  <2>1. t \in Steps \ {0} => data[w] # NULL
    BY <1>1, <1>2 DEF Steps
  <2> QED BY <1>3, <1>5, <2>1 DEF Flow, Kept
<1>11. EndsLast'
  <2>1. t = n_steps => batches = MaxBatches
    <3> SUFFICES ASSUME t = n_steps PROVE batches = MaxBatches
      OBVIOUS
    <3>1. step[w] < n_steps - 1 /\ data[w] = NULL
      BY <1>1, <1>2
    <3>2. step[w] = 0
      BY <1>1, <3>1 DEF Flow, Kept
    <3> QED BY <1>1, <3>1, <3>2 DEF Flow, EndsLast
  <2>2. ~(t = 0 /\ t = 1)
    BY <1>1, <1>2
  <2>3. \A v \in Workers : pc'[v] = "done" => v # w /\ pc[v] = "done"
    BY <1>4
  <2> QED BY <1>3, <1>5, <2>1, <2>2, <2>3 DEF Flow, EndsLast
<1> QED BY <1>3, <1>8, <1>9, <1>10, <1>11 DEF Flow

\* Every step keeps the flow, and each step of the pipeline gets the next batch.
LEMMA FlowNext ==
  ASSUME PipelineAssumption, ~Drops, IInv, Flow, [Next]_vars
  PROVE  Flow' /\ \A s \in Steps : passed'[s] # passed[s] => passed'[s] = passed[s] + 1
<1>1. CASE UNCHANGED vars
  <2>1. 0 \in Workers
    BY DEF PipelineAssumption, Workers
  <2> QED BY <1>1, <2>1, FlowStill
<1>2. ASSUME NEW w \in Workers, Step(w) \/ Spurious(w)
      PROVE  Flow' /\ \A s \in Steps : passed'[s] # passed[s] => passed'[s] = passed[s] + 1
  <2>1. CASE Work(w)
    <3>1. CASE step[w] = 0 /\ batches < MaxBatches /\ batches' = batches + 1
               /\ data' = [data EXCEPT ![w] = batches + 1]
               /\ passed' = [passed EXCEPT ![0] = batches + 1]
      BY <2>1, <3>1, FlowBatch
    <3>2. CASE step[w] = 0 /\ batches = MaxBatches
               /\ data' = [data EXCEPT ![w] = NULL] /\ UNCHANGED <<batches, passed>>
      BY <2>1, <3>2, FlowNoBatch
    <3>3. CASE step[w] > 0 /\ passed' = [passed EXCEPT ![step[w]] = data[w]] /\ batches' = batches
               /\ (data' = data \/ (step[w] = n_steps - 1 /\ data' = [data EXCEPT ![w] = NULL]))
      BY <2>1, <3>3, FlowPass
    <3> QED BY <2>1, <3>1, <3>2, <3>3 DEF Work
  <2>2. CASE Update(w)
    BY <2>2, FlowUpdate
  <2>3. CASE Lock(w) \/ Test(w) \/ Wake(w) \/ Spurious(w) \/ Exit(w)
    BY <2>3, FlowStill
  <2> QED BY <1>2, <2>1, <2>2, <2>3 DEF Step
<1> QED BY <1>1, <1>2 DEF Next

\* When the workers are done nothing is on its way.
LEMMA FlowEnds ==
  ASSUME PipelineAssumption, IInv, Flow, \A w \in Workers : pc[w] = "done"
  PROVE  batches = MaxBatches /\ \A s \in Steps : passed[s] = MaxBatches
<1>1. 0 \in Workers /\ n_steps \in Nat \ {0}
  BY DEF PipelineAssumption, Workers
<1>2. batches = MaxBatches
  BY <1>1 DEF Flow, EndsLast
<1>3. \A w \in Workers : ~Holds(w)
  BY <1>1 DEF Flow, EndsLast, Holds, Steps
<1>4. ASSUME NEW s \in Steps PROVE passed[s] = batches
  <2>1. passed[s] \in Nat /\ batches \in Nat /\ passed[s] <= batches /\ passed[0] = batches
    BY DEF IInv, TypeOK, Flow, FirstAhead
  <2>2. s # 0 => passed[s]+1 \notin passed[s]+1..batches
    BY <1>3 DEF Flow, OnItsWay
  <2> QED BY <2>1, <2>2
<1> QED BY <1>2, <1>4

\* Each step is done for every batch, one after the other, as the first step
\* returned them: the output of the pipeline is in the order of its input.
THEOREM InputOrder ==
  ASSUME PipelineAssumption
  PROVE  Spec => [][NoneSkipped]_vars
<1> DEFINE Inv == IInv /\ (~Drops => Flow)
<1>1. Init => Inv
  BY InitInv, FlowInit
<1>2. Inv /\ [Next]_vars => Inv'
  BY NextInv, FlowNext
<1>3. Inv /\ [Next]_vars => [NoneSkipped]_vars
  BY FlowNext DEF NoneSkipped
<1> QED BY <1>1, <1>2, <1>3, PTL DEF Spec

\* When the workers are joined all batches have gone through all steps.
THEOREM Complete ==
  ASSUME PipelineAssumption
  PROVE  Spec => []AllPassed
<1> DEFINE Inv == IInv /\ (~Drops => Flow)
<1>1. Init => Inv
  BY InitInv, FlowInit
<1>2. Inv /\ [Next]_vars => Inv'
  BY NextInv, FlowNext
<1>3. Inv => AllPassed
  BY FlowEnds DEF AllPassed
<1> QED BY <1>1, <1>2, <1>3, PTL DEF Spec
=============================================================================
