------------------------ MODULE FindingStagesProofs ------------------------
(***************************************************************************)
(* Proofs about FindingStages: for any number of overlapping handlers, of  *)
(* stages, of crashes and of configuration changes, and for any timeouts   *)
(* of which the execution deadline is the shorter.  The last section is    *)
(* about the same system watched for its faults (FindingFaults).           *)
(***************************************************************************)
EXTENDS FindingFaults, FiniteSetTheorems, TLAPS

Done(k) == point[k].status \in Outcomes

\* A row is running because it was claimed, and a claim counts.
RowCounted == row.status = "running" => row.attempts \in Nat \ {0}

\* Where a handler stands in the workflow tells which stages have their outcome.
CallInOrder(w) ==
  /\ call[w].pc \in {"idle", "reclaimed", "looping"} => call[w].stage = 1
  /\ call[w].pc \in {"acquiring", "executing", "finishing"} =>
       \A j \in 1 .. call[w].stage - 1 : Done(j)
  /\ call[w].pc = "returning" /\ call[w].result = "ok" => \A k \in Stages : Done(k)

CallsInOrder == \A w \in Workers : CallInOrder(w)

HasToken(w) == call[w].pc \in {"executing", "finishing"}

\* An attempt number was handed out in the past, and to one handler only.
TokensFence ==
  \A w \in Workers : HasToken(w) =>
    /\ call[w].token <= point[call[w].stage].attempt
    /\ \A v \in Workers : /\ HasToken(v) /\ call[v].stage = call[w].stage
                          /\ call[v].token = call[w].token
                          => v = w

\* While the executor runs, the checkpoint is its handler's: the lease and the
\* deadline started together, and the lease is the longer.
RunsAreHeld ==
  \A w \in Workers : call[w].pc = "executing" =>
    /\ OwnsRun(w)
    /\ point[call[w].stage].lease + call[w].elapsed = StageLease

\* ExclusiveStages alone is not inductive: that nobody takes a stage over from
\* a live executor is a fact about leases, and that nobody finishes it in its
\* stead is a fact about tokens.
Inv == /\ TypeOK /\ RowCounted
       /\ StagesInOrder /\ CallsInOrder /\ SucceededIsComplete
       /\ TokensFence /\ RunsAreHeld

-----------------------------------------------------------------------------
LEMMA InitInv == Init => Inv
<1> SUFFICES ASSUME Init PROVE Inv
  OBVIOUS
<1> USE StagesAssumption
<1>1. 1 \in Stages
  BY DEF Stages
<1>2. TypeOK
  BY <1>1 DEF Init, TypeOK, Idle, Calls, Rows, Checkpoints
<1>3. RowCounted /\ SucceededIsComplete /\ StagesInOrder
  BY DEF Init, RowCounted, SucceededIsComplete, StagesInOrder
<1>4. CallsInOrder /\ TokensFence /\ RunsAreHeld
  BY DEF Init, Idle, CallsInOrder, CallInOrder, TokensFence, HasToken, RunsAreHeld
<1> QED
  BY <1>2, <1>3, <1>4 DEF Inv

-----------------------------------------------------------------------------
(* Types.                                                                  *)

PCs     == {"idle", "reclaimed", "looping", "acquiring", "executing", "finishing",
            "returning"}
Results == {"ok", "error", "permanent"}

LEMMA IdleType == Idle \in Calls
  BY StagesAssumption DEF Idle, Calls, Stages

LEMMA CallPC ==
  ASSUME NEW c \in Calls, NEW p \in PCs
  PROVE  [c EXCEPT !.pc = p] \in Calls
  BY DEF Calls, PCs

LEMMA CallResult ==
  ASSUME NEW c \in Calls, NEW p \in PCs, NEW r \in Results
  PROVE  [c EXCEPT !.pc = p, !.result = r] \in Calls
  BY DEF Calls, PCs, Results

LEMMA CallToken ==
  ASSUME NEW c \in Calls, NEW p \in PCs, NEW n \in Nat
  PROVE  [c EXCEPT !.pc = p, !.elapsed = 0, !.token = n] \in Calls
<1>1. 0 \in 0 .. ExecTimeout
  BY StagesAssumption
<1> QED
  BY <1>1 DEF Calls, PCs

LEMMA NextStageType ==
  ASSUME TypeOK, NEW w \in Workers
  PROVE  NextStage(w) \in Calls
<1>1. call[w] \in Calls
  BY DEF TypeOK
<1>2. CASE call[w].stage < NumStages
  <2>1. call[w].stage + 1 \in Stages
    BY <1>1, <1>2, StagesAssumption DEF Calls, Stages
  <2>2. NextStage(w) = [call[w] EXCEPT !.pc = "acquiring", !.stage = call[w].stage + 1]
    BY <1>2 DEF NextStage
  <2> QED
    BY <1>1, <2>1, <2>2 DEF Calls
<1>3. CASE ~(call[w].stage < NumStages)
  BY <1>1, <1>3, CallResult DEF NextStage, PCs, Results
<1> QED
  BY <1>2, <1>3

\* The types of what a handler does to its checkpoint.
LEMMA AcquiresType ==
  ASSUME TypeOK, NEW w \in Workers, Acquires(w)
  PROVE  point' \in [Stages -> Checkpoints]
<1> DEFINE k == call[w].stage
           c == [status  |-> "running", attempt |-> point[k].attempt + 1,
                 lease   |-> NewLease,
                 print   |-> IF point[k].status = "none" THEN call[w].inputs
                                                         ELSE point[k].print]
<1>1. call[w] \in Calls /\ k \in Stages /\ point[k] \in Checkpoints
  BY DEF TypeOK, Calls
<1>2. NewLease \in Nat
  BY StagesAssumption DEF NewLease
<1>3. c \in Checkpoints
  BY <1>1, <1>2 DEF Checkpoints, Calls
<1>4. point' = [point EXCEPT ![k] = c]
  BY DEF Acquires
<1> QED
  BY <1>3, <1>4 DEF TypeOK

LEMMA FinishesType ==
  ASSUME TypeOK, NEW w \in Workers, Finishes(w)
  PROVE  /\ point' \in [Stages -> Checkpoints]
         /\ row' \in Rows /\ row'.status = row.status /\ row'.attempts = row.attempts
<1>1. call[w].stage \in Stages
  BY DEF TypeOK, Calls
<1>2. point' \in [Stages -> Checkpoints]
  BY <1>1 DEF TypeOK, Finishes, Checkpoints
<1>3. row' \in Rows /\ row'.status = row.status /\ row'.attempts = row.attempts
  BY DEF TypeOK, Finishes, Rows
<1> QED
  BY <1>2, <1>3

LEMMA MarkType ==
  ASSUME TypeOK, RowCounted, NEW w \in Workers, Mark(w)
  PROVE  row' \in Rows /\ RowCounted'
<1> DEFINE final == call[w].result = "permanent" \/ row.attempts >= MaxAttempts
<1>1. CASE ~FenceHolds(w) \/ call[w].result = "ok" \/ final
  BY <1>1 DEF Mark, TypeOK, RowCounted, Rows, Settled
<1>2. CASE FenceHolds(w) /\ call[w].result # "ok" /\ ~final
  <2>1. Backoff[row.attempts] \in Nat
    BY <1>2, StagesAssumption DEF FenceHolds, RowCounted, TypeOK, Rows
  <2>2. row' = [row EXCEPT !.status = "pending", !.wait = Backoff[row.attempts]]
    BY <1>2 DEF Mark
  <2> QED
    BY <2>1, <2>2 DEF TypeOK, RowCounted, Rows
<1> QED
  BY <1>1, <1>2

LEMMA StepType ==
  ASSUME TypeOK, RowCounted, [Next]_vars
  PROVE  TypeOK' /\ RowCounted'
<1>1. ASSUME NEW w \in Workers, Reclaim(w) PROVE TypeOK' /\ RowCounted'
  BY <1>1 DEF RowCounted, TypeOK, Reclaim, Calls, Rows
<1>2. ASSUME NEW w \in Workers, Claim(w) PROVE TypeOK' /\ RowCounted'
  <2>1. CASE row.status = "pending" /\ row.wait = 0
    <3>1. row' = [row EXCEPT !.status = "running", !.attempts = row.attempts + 1,
                             !.lockAge = 0]
      BY <1>2, <2>1 DEF Claim
    <3>2. row' \in Rows /\ RowCounted'
      <4>1. row \in Rows /\ row.attempts + 1 \in Nat \ {0}
        BY DEF TypeOK, Rows
      <4> QED
        BY <3>1, <4>1 DEF RowCounted, Rows
    <3>3. [call[w] EXCEPT !.pc = "looping", !.claim = row.attempts + 1] \in Calls
      <4>1. call[w] \in Calls /\ row.attempts + 1 \in Nat
        BY DEF TypeOK, Rows
      <4> QED
        BY <4>1 DEF Calls
    <3>4. call' = [call EXCEPT ![w].pc = "looping", ![w].claim = row.attempts + 1]
      BY <1>2, <2>1 DEF Claim
    <3>5. call' = [call EXCEPT ![w] =
                     [call[w] EXCEPT !.pc = "looping", !.claim = row.attempts + 1]]
      BY <3>4 DEF TypeOK
    <3> QED
      BY <1>2, <3>2, <3>3, <3>5 DEF Claim, TypeOK
  <2>2. CASE ~(row.status = "pending" /\ row.wait = 0)
    BY <1>2, <2>2 DEF RowCounted, TypeOK, Claim, Calls
  <2> QED
    BY <2>1, <2>2
<1>3. ASSUME NEW w \in Workers, StartHandler(w) PROVE TypeOK' /\ RowCounted'
  <2>1. PICK r \in Results :
          call' = [call EXCEPT ![w].pc = IF r = "ok" THEN "acquiring" ELSE "returning",
                               ![w].inputs = {config}, ![w].result = r]
    BY <1>3 DEF StartHandler, Results
  <2> DEFINE p == IF r = "ok" THEN "acquiring" ELSE "returning"
  <2>2. [call[w] EXCEPT !.pc = p, !.inputs = {config}, !.result = r] \in Calls
    <3>1. p \in PCs /\ {config} \in SUBSET Configs /\ call[w] \in Calls
      BY DEF PCs, TypeOK
    <3> HIDE DEF p
    <3> QED
      BY <3>1 DEF Calls, PCs, Results
  <2>3. call' = [call EXCEPT ![w] =
                   [call[w] EXCEPT !.pc = p, !.inputs = {config}, !.result = r]]
    BY <2>1 DEF TypeOK
  <2> QED
    BY <1>3, <2>2, <2>3 DEF RowCounted, TypeOK, StartHandler
<1>4. ASSUME NEW w \in Workers, Acquire(w) PROVE TypeOK' /\ RowCounted'
  <2>1. point' \in [Stages -> Checkpoints]
    BY <1>4, AcquiresType DEF Acquire, TypeOK
  <2>2. call[w] \in Calls /\ point[call[w].stage].attempt + 1 \in Nat
    BY DEF TypeOK, Calls, Checkpoints
  <2>3. /\ [call[w] EXCEPT !.pc = "returning", !.result = "error"] \in Calls
        /\ [call[w] EXCEPT !.pc = "executing", !.elapsed = 0,
                           !.token = point[call[w].stage].attempt + 1] \in Calls
        /\ NextStage(w) \in Calls
    BY <2>2, CallResult, CallToken, NextStageType DEF PCs, Results
  <2>4. call' \in [Workers -> Calls]
    BY <1>4, <2>3 DEF Acquire, TypeOK
  <2> QED
    BY <1>4, <2>1, <2>4 DEF RowCounted, Acquire, TypeOK
<1>5. ASSUME NEW w \in Workers, EndExecution(w) PROVE TypeOK' /\ RowCounted'
  BY <1>5 DEF RowCounted, TypeOK, EndExecution, Calls
<1>6. ASSUME NEW w \in Workers, Finish(w) PROVE TypeOK' /\ RowCounted'
  <2>1. CASE Finishes(w) /\ call' = [call EXCEPT ![w] = NextStage(w)]
    BY <1>6, <2>1, FinishesType, NextStageType DEF RowCounted, Finish, TypeOK
  <2>2. CASE /\ UNCHANGED <<row, point>>
             /\ call' = [call EXCEPT ![w].pc = "returning", ![w].result = "error"]
    BY <1>6, <2>2 DEF RowCounted, Finish, TypeOK, Calls
  <2> QED
    BY <1>6, <2>1, <2>2 DEF Finish
<1>7. ASSUME NEW w \in Workers, Mark(w) PROVE TypeOK' /\ RowCounted'
  BY <1>7, MarkType, IdleType DEF Mark, TypeOK
<1>8. ASSUME NEW w \in Workers, StageError(w) PROVE TypeOK' /\ RowCounted'
  <2>1. call' \in [Workers -> Calls]
    <3>1. [call[w] EXCEPT !.pc = "returning", !.result = "error"] \in Calls
      BY CallResult DEF TypeOK, PCs, Results
    <3>2. call' = [call EXCEPT ![w] =
                     [call[w] EXCEPT !.pc = "returning", !.result = "error"]]
      BY <1>8 DEF StageError, TypeOK
    <3> QED
      BY <3>1, <3>2 DEF TypeOK
  <2>2. CASE UNCHANGED <<row, point>>
    BY <1>8, <2>1, <2>2 DEF RowCounted, StageError, TypeOK
  <2>3. CASE Acquires(w) /\ UNCHANGED row
    BY <1>8, <2>1, <2>3, AcquiresType DEF RowCounted, StageError, TypeOK
  <2>4. CASE Finishes(w)
    BY <1>8, <2>1, <2>4, FinishesType DEF RowCounted, StageError, TypeOK
  <2> QED
    BY <1>8, <2>2, <2>3, <2>4 DEF StageError
<1>9. ASSUME NEW w \in Workers, Crash(w) PROVE TypeOK' /\ RowCounted'
  BY <1>9, IdleType DEF RowCounted, TypeOK, Crash
<1>10. ASSUME Tick PROVE TypeOK' /\ RowCounted'
  <2>1. row' \in Rows /\ RowCounted'
    <3> DEFINE age == IF row.status = "running" /\ row.lockAge <= ReclaimAfter
                      THEN row.lockAge + 1 ELSE row.lockAge
    <3>1. age \in Nat /\ Less(row.wait) \in Nat
      BY DEF TypeOK, Rows, Less
    <3>2. row' = [row EXCEPT !.lockAge = age, !.wait = Less(row.wait)]
      BY <1>10 DEF Tick
    <3> HIDE DEF age
    <3> QED
      BY <3>1, <3>2 DEF RowCounted, TypeOK, Rows
  <2>2. point' \in [Stages -> Checkpoints]
    <3>1. ASSUME NEW k \in Stages PROVE [point[k] EXCEPT !.lease = Less(@)] \in Checkpoints
      <4>1. point[k] \in Checkpoints /\ Less(point[k].lease) \in Nat
        BY DEF TypeOK, Checkpoints, Less
      <4> QED
        BY <4>1 DEF Checkpoints
    <3>2. point' = [k \in Stages |-> [point[k] EXCEPT !.lease = Less(@)]]
      BY <1>10 DEF Tick
    <3> QED
      BY <3>1, <3>2
  <2>3. ASSUME NEW w \in Workers PROVE call'[w] \in Calls
    <3>1. call[w] \in Calls
      BY DEF TypeOK
    <3>2. call[w].pc = "executing" => call[w].elapsed + 1 \in 0 .. ExecTimeout
      BY <1>10, <3>1, StagesAssumption DEF Tick, Calls
    <3> QED
      BY <1>10, <3>1, <3>2 DEF Tick, Calls
  <2>4. call' \in [Workers -> Calls]
    BY <1>10, <2>3 DEF Tick
  <2> QED
    BY <1>10, <2>1, <2>2, <2>4 DEF Tick, TypeOK
<1>11. CASE Reconfigure \/ UNCHANGED vars
  BY <1>11 DEF RowCounted, Reconfigure, vars, TypeOK
<1> QED
  BY <1>1, <1>2, <1>3, <1>4, <1>5, <1>6, <1>7, <1>8, <1>9, <1>10, <1>11 DEF Next, Step
-----------------------------------------------------------------------------
(* Frames: what a handler's steps do to the checkpoints.                   *)

LEMMA AcquiresFrame ==
  ASSUME TypeOK, NEW w \in Workers, Acquires(w)
  PROVE  LET k == call[w].stage IN
         /\ k \in Stages /\ ~Done(k)
         /\ point'[k].status = "running" /\ point'[k].attempt = point[k].attempt + 1
         /\ point'[k].lease = StageLease
         /\ \A j \in Stages : j # k => point'[j] = point[j]
<1>1. call[w].stage \in Stages
  BY DEF TypeOK, Calls
<1> QED
  BY <1>1, StagesAssumption DEF TypeOK, Acquires, TakesOver, NewLease, Done

LEMMA FinishesFrame ==
  ASSUME TypeOK, NEW w \in Workers, Finishes(w)
  PROVE  LET k == call[w].stage IN
         /\ k \in Stages /\ ~Done(k) /\ point'[k].status \in Outcomes /\ OwnsRun(w)
         /\ point'[k].attempt = point[k].attempt
         /\ \A j \in Stages : j # k => point'[j] = point[j]
<1> DEFINE k == call[w].stage
<1>1. k \in Stages /\ point[k] \in Checkpoints
  BY DEF TypeOK, Calls
<1>2. PICK o \in Outcomes : point' = [point EXCEPT ![k].status = o, ![k].lease = 0]
  BY DEF Finishes
<1>3. point'[k] = [point[k] EXCEPT !.status = o, !.lease = 0]
  BY <1>1, <1>2 DEF TypeOK
<1>4. point'[k].status = o /\ point'[k].attempt = point[k].attempt
  BY <1>1, <1>3 DEF Checkpoints
<1>5. \A j \in Stages : j # k => point'[j] = point[j]
  BY <1>1, <1>2 DEF TypeOK
<1> QED
  BY <1>1, <1>2, <1>4, <1>5, StagesAssumption DEF Finishes, OwnsRun, Done

\* A handler's step leaves the checkpoints alone, acquires one or finishes one.
LEMMA PointSteps ==
  ASSUME NEW w \in Workers, Step(w) \/ StageError(w) \/ Crash(w)
  PROVE  UNCHANGED point \/ Acquires(w) \/ Finishes(w)
  BY DEF Step, Reclaim, Claim, StartHandler, Acquire, EndExecution, Finish, Mark,
         StageError, Crash

LEMMA TickFrame ==
  ASSUME TypeOK, Tick
  PROVE  /\ \A k \in Stages : /\ point'[k].status = point[k].status
                              /\ point'[k].attempt = point[k].attempt
                              /\ point'[k].lease = Less(point[k].lease)
         /\ row'.status = row.status
         /\ \A w \in Workers :
              /\ call'[w].pc = call[w].pc /\ call'[w].stage = call[w].stage
              /\ call'[w].token = call[w].token /\ call'[w].result = call[w].result
              /\ call[w].pc = "executing" => call'[w].elapsed = call[w].elapsed + 1
  BY DEF Tick, TypeOK, Checkpoints, Calls, Rows

\* A stage's outcome stays.
LEMMA OutcomesStay ==
  ASSUME TypeOK, [Next]_vars, NEW k \in Stages, Done(k)
  PROVE  point'[k].status = point[k].status
<1>1. ASSUME NEW w \in Workers, Step(w) \/ StageError(w) \/ Crash(w)
      PROVE  point'[k].status = point[k].status
  BY <1>1, PointSteps, AcquiresFrame, FinishesFrame
<1>2. CASE Tick
  BY <1>2, TickFrame
<1>3. CASE Reconfigure \/ UNCHANGED vars
  BY <1>3 DEF Reconfigure, vars
<1> QED
  BY <1>1, <1>2, <1>3 DEF Next

-----------------------------------------------------------------------------
(* The order of the stages.                                                *)

LEMMA DoneStays ==
  ASSUME TypeOK, [Next]_vars
  PROVE  \A k \in Stages : Done(k) => Done(k)'
  BY OutcomesStay DEF Done

\* A handler goes past a stage that has its outcome.
LEMMA NextStageInOrder ==
  ASSUME TypeOK, NEW w \in Workers, CallInOrder(w),
         call[w].pc \in {"acquiring", "finishing"},
         call'[w] = NextStage(w), point'[call[w].stage].status \in Outcomes,
         \A k \in Stages : Done(k) => Done(k)'
  PROVE  CallInOrder(w)'
<1> DEFINE k == call[w].stage
<1>1. k \in Stages /\ call[w] \in Calls /\ k \in Nat
  BY StagesAssumption DEF TypeOK, Calls, Stages
<1>2. \A j \in 1 .. k : Done(j)'
  BY <1>1, StagesAssumption DEF CallInOrder, Stages, Done
<1>3. CASE k < NumStages
  <2>1. call'[w].pc = "acquiring" /\ call'[w].stage = k + 1
    BY <1>1, <1>3 DEF NextStage, Calls
  <2> QED
    BY <1>1, <1>2, <2>1 DEF CallInOrder
<1>4. CASE ~(k < NumStages)
  <2>1. call'[w].pc = "returning" /\ k = NumStages
    BY <1>1, <1>4, StagesAssumption DEF NextStage, Calls, Stages
  <2> QED
    BY <1>2, <2>1 DEF CallInOrder, Stages
<1> QED
  BY <1>3, <1>4

LEMMA StepInOrder ==
  ASSUME TypeOK, CallsInOrder, [Next]_vars
  PROVE  CallsInOrder'
<1>1. \A k \in Stages : Done(k) => Done(k)'
  BY DoneStays
<1>2. ASSUME NEW v \in Workers,
             /\ call'[v].pc = call[v].pc
             /\ call'[v].stage = call[v].stage
             /\ call'[v].result = call[v].result
      PROVE  CallInOrder(v)'
  <2>1. call[v].stage \in Nat /\ \A j \in 1 .. call[v].stage - 1 : j \in Stages
    BY StagesAssumption DEF TypeOK, Calls, Stages
  <2> QED
    BY <1>1, <1>2, <2>1 DEF CallsInOrder, CallInOrder
<1>3. ASSUME NEW w \in Workers, Step(w) \/ StageError(w) \/ Crash(w)
      PROVE  CallsInOrder'
  <2>1. \A v \in Workers : v # w => call'[v] = call[v]
    BY <1>3 DEF TypeOK, Step, Reclaim, Claim, StartHandler, Acquire, EndExecution, Finish,
                Mark, StageError, Crash
  <2>2. CallInOrder(w) /\ call[w] \in Calls
    BY DEF CallsInOrder, TypeOK
  <2>3. CASE Reclaim(w) \/ Claim(w)
    <3>1. /\ call[w].stage = 1 /\ call'[w].stage = 1
          /\ call'[w].pc \in {"reclaimed", "idle", "looping"}
      BY <2>2, <2>3 DEF Reclaim, Claim, CallInOrder, TypeOK, Calls
    <3> QED
      BY <1>2, <2>1, <3>1 DEF CallsInOrder, CallInOrder
  <2>4. CASE StartHandler(w)
    <3>1. call[w].stage = 1 /\ call'[w].stage = 1
      BY <2>2, <2>4 DEF StartHandler, CallInOrder, TypeOK, Calls
    <3>2. \/ call'[w].pc = "acquiring"
          \/ call'[w].pc = "returning" /\ call'[w].result # "ok"
      BY <2>2, <2>4 DEF StartHandler, TypeOK, Calls
    <3> QED
      BY <1>2, <2>1, <3>1, <3>2 DEF CallsInOrder, CallInOrder
  <2>5. CASE /\ call[w].pc = "acquiring" /\ Acquires(w)
             /\ call'[w].pc = "executing" /\ call'[w].stage = call[w].stage
    <3>1. \A j \in 1 .. call[w].stage - 1 : j \in Stages
      BY <2>2, StagesAssumption DEF Calls, Stages
    <3> QED
      BY <1>1, <1>2, <2>1, <2>2, <2>5, <3>1 DEF CallsInOrder, CallInOrder
  <2>6. CASE /\ call[w].pc \in {"acquiring", "finishing"} /\ call'[w] = NextStage(w)
             /\ point'[call[w].stage].status \in Outcomes
    BY <1>1, <1>2, <2>1, <2>2, <2>6, NextStageInOrder DEF CallsInOrder
  <2>7. CASE EndExecution(w)
    <3>1. call[w].pc = "executing" /\ call'[w].pc = "finishing"
          /\ call'[w].stage = call[w].stage
      BY <2>2, <2>7 DEF EndExecution, TypeOK, Calls
    <3>2. \A j \in 1 .. call[w].stage - 1 : j \in Stages
      BY <2>2, StagesAssumption DEF Calls, Stages
    <3> QED
      BY <1>1, <1>2, <2>1, <2>2, <3>1, <3>2 DEF CallsInOrder, CallInOrder
  <2>8. CASE call'[w].pc = "returning" /\ call'[w].result = "error"
    BY <1>2, <2>1, <2>8 DEF CallsInOrder, CallInOrder
  <2>9. CASE call'[w] = Idle
    BY <1>2, <2>1, <2>9 DEF CallsInOrder, CallInOrder, Idle
  <2>10. CASE Acquire(w)
    <3> DEFINE k      == call[w].stage
               error  == [call[w] EXCEPT !.pc = "returning", !.result = "error"]
               taken  == [call[w] EXCEPT !.pc = "executing", !.elapsed = 0,
                                         !.token = point[k].attempt + 1]
    <3>1. error.pc = "returning" /\ error.result = "error"
      BY <2>2 DEF Calls
    <3>2. taken.pc = "executing" /\ taken.stage = call[w].stage
      BY <2>2 DEF Calls
    <3>3. CASE point[k].status = "none" \/ TakesOver(k)
      <4>1. /\ call[w].pc = "acquiring" /\ Acquires(w)
            /\ call'[w] = IF Differs(w) THEN error ELSE taken
        BY <2>10, <3>3 DEF Acquire, TypeOK
      <4> HIDE DEF error, taken
      <4> QED
        BY <2>5, <2>8, <3>1, <3>2, <4>1
    <3>4. CASE ~(point[k].status = "none" \/ TakesOver(k))
      <4>1. /\ call[w].pc = "acquiring" /\ UNCHANGED point
            /\ call'[w] = IF Refuses(w) THEN error ELSE NextStage(w)
        BY <2>10, <3>4 DEF Acquire, Acquires, TypeOK
      <4>2. ~Refuses(w) => point[k].status \in Outcomes
        BY <2>2, <3>4 DEF Refuses, TypeOK, Calls, Checkpoints
      <4> HIDE DEF error
      <4> QED
        BY <2>6, <2>8, <3>1, <4>1, <4>2
    <3> QED
      BY <3>3, <3>4
  <2>11. CASE Finish(w)
    <3>1. CASE Finishes(w) /\ call'[w] = NextStage(w)
      BY <2>6, <2>11, <3>1, FinishesFrame DEF Finish
    <3>2. CASE call'[w].pc = "returning" /\ call'[w].result = "error"
      BY <2>8, <3>2
    <3> QED
      BY <2>2, <2>11, <3>1, <3>2 DEF Finish, TypeOK, Calls
  <2>12. CASE StageError(w)
    BY <2>2, <2>8, <2>12 DEF StageError, TypeOK, Calls
  <2>13. CASE Mark(w) \/ Crash(w)
    BY <2>2, <2>9, <2>13 DEF Mark, Crash, TypeOK
  <2> QED
    BY <1>3, <2>3, <2>4, <2>7, <2>10, <2>11, <2>12, <2>13 DEF Step
<1>4. CASE Tick
  BY <1>2, <1>4, TickFrame DEF CallsInOrder
<1>5. CASE Reconfigure \/ UNCHANGED vars
  BY <1>2, <1>5 DEF Reconfigure, vars, CallsInOrder
<1> QED
  BY <1>3, <1>4, <1>5 DEF Next

LEMMA StepStagesInOrder ==
  ASSUME TypeOK, CallsInOrder, StagesInOrder, [Next]_vars
  PROVE  StagesInOrder'
<1>1. \A k \in Stages : Done(k) => Done(k)'
  BY DoneStays
<1>2. ASSUME \A k \in Stages : point'[k].status # "none" => point[k].status # "none"
      PROVE  StagesInOrder'
  <2>1. \A k \in Stages : \A j \in 1 .. k - 1 : j \in Stages
    BY StagesAssumption DEF Stages
  <2> QED
    BY <1>1, <1>2, <2>1 DEF StagesInOrder, Done
<1>3. ASSUME NEW w \in Workers, Acquires(w), call[w].pc = "acquiring"
      PROVE  StagesInOrder'
  <2> DEFINE k == call[w].stage
  <2>1. k \in Stages /\ \A j \in Stages : j # k => point'[j] = point[j]
    BY <1>3, AcquiresFrame
  <2>2. \A j \in 1 .. k - 1 : Done(j)
    BY <1>3 DEF CallsInOrder, CallInOrder
  <2>3. \A m \in Stages : \A j \in 1 .. m - 1 : j \in Stages
    BY StagesAssumption DEF Stages
  <2>4. ASSUME NEW m \in Stages, point'[m].status # "none", NEW j \in 1 .. m - 1
        PROVE  point'[j].status \in Outcomes
    <3>1. Done(j)
      BY <2>1, <2>2, <2>4 DEF StagesInOrder, Done
    <3> QED
      BY <1>1, <2>3, <2>4, <3>1 DEF Done
  <2> QED
    BY <2>4 DEF StagesInOrder
<1>4. ASSUME NEW w \in Workers, Step(w) \/ StageError(w) \/ Crash(w)
      PROVE  StagesInOrder'
  <2>1. CASE Acquires(w) /\ call[w].pc = "acquiring"
    BY <1>3, <2>1
  <2>2. CASE Finishes(w)
    BY <1>2, <2>2, FinishesFrame DEF OwnsRun
  <2>3. CASE UNCHANGED point
    BY <1>2, <2>3
  <2>4. (Step(w) \/ StageError(w) \/ Crash(w)) =>
          \/ UNCHANGED point \/ Finishes(w)
          \/ Acquires(w) /\ call[w].pc = "acquiring"
    BY DEF Step, Reclaim, Claim, StartHandler, Acquire, EndExecution, Finish, Mark,
           StageError, Crash
  <2> QED
    BY <1>4, <2>1, <2>2, <2>3, <2>4
<1>5. CASE Tick
  BY <1>2, <1>5, TickFrame
<1>6. CASE Reconfigure \/ UNCHANGED vars
  BY <1>2, <1>6 DEF Reconfigure, vars
<1> QED
  BY <1>4, <1>5, <1>6 DEF Next

LEMMA StepComplete ==
  ASSUME TypeOK, CallsInOrder, SucceededIsComplete, [Next]_vars
  PROVE  SucceededIsComplete'
<1>1. \A k \in Stages : Done(k) => Done(k)'
  BY DoneStays
<1>2. ASSUME row'.status = "succeeded" => row.status = "succeeded"
      PROVE  SucceededIsComplete'
  BY <1>1, <1>2 DEF SucceededIsComplete, Done
<1>3. ASSUME NEW w \in Workers, Mark(w) PROVE SucceededIsComplete'
  <2>1. CASE call[w].result = "ok"
    <3>1. \A k \in Stages : Done(k)
      BY <1>3, <2>1 DEF Mark, CallsInOrder, CallInOrder
    <3> QED
      BY <1>1, <3>1 DEF SucceededIsComplete, Done
  <2>2. CASE call[w].result # "ok"
    <3>1. \/ row' = row
          \/ row' = [row EXCEPT !.status = "dead"]
          \/ row' = [row EXCEPT !.status = "pending", !.wait = Backoff[row.attempts]]
      BY <1>3, <2>2 DEF Mark
    <3> QED
      BY <1>2, <3>1 DEF TypeOK, Rows
  <2> QED
    BY <2>1, <2>2
<1>4. ASSUME NEW w \in Workers, Finishes(w) PROVE SucceededIsComplete'
  BY <1>2, <1>4, FinishesType
<1>5. ASSUME NEW w \in Workers, Reclaim(w) \/ Claim(w) PROVE SucceededIsComplete'
  BY <1>2, <1>5 DEF Reclaim, Claim, TypeOK, Rows
<1>6. ASSUME NEW w \in Workers, Step(w) \/ StageError(w) \/ Crash(w)
      PROVE  SucceededIsComplete'
  <2>1. Reclaim(w) \/ Claim(w) \/ Mark(w) \/ Finishes(w) \/ UNCHANGED row
    BY <1>6 DEF Step, StartHandler, Acquire, EndExecution, Finish, StageError, Crash
  <2> QED
    BY <1>2, <1>3, <1>4, <1>5, <2>1
<1>7. CASE Tick
  BY <1>2, <1>7, TickFrame
<1>8. CASE Reconfigure \/ UNCHANGED vars
  BY <1>2, <1>8 DEF Reconfigure, vars
<1> QED
  BY <1>6, <1>7, <1>8 DEF Next

-----------------------------------------------------------------------------
(* Tokens and leases.                                                      *)

\* What a step gives to the call that takes it, by what it does to the token.
LEMMA TokenSteps ==
  ASSUME TypeOK, NEW w \in Workers, Step(w) \/ StageError(w) \/ Crash(w)
  PROVE  /\ \A v \in Workers : v # w => call'[v] = call[v]
         /\ \/ ~HasToken(w)'
            \/ /\ HasToken(w) /\ call[w].pc = "executing" /\ call'[w].pc = "finishing"
               /\ call'[w].stage = call[w].stage
               /\ call'[w].token = call[w].token
               /\ UNCHANGED point
            \/ /\ Acquires(w) /\ ~HasToken(w)
               /\ call'[w].stage = call[w].stage
               /\ call'[w].token = point[call[w].stage].attempt + 1
               /\ call'[w].elapsed = 0
<1>1. call[w] \in Calls
  BY DEF TypeOK
<1>2. \A v \in Workers : v # w => call'[v] = call[v]
  BY DEF TypeOK, Step, Reclaim, Claim, StartHandler, Acquire, EndExecution, Finish,
         Mark, StageError, Crash
<1>3. NextStage(w).pc \notin {"executing", "finishing"}
  BY <1>1 DEF NextStage, Calls
<1>4. CASE Reclaim(w) \/ Claim(w) \/ StartHandler(w) \/ StageError(w)
  BY <1>1, <1>2, <1>4 DEF Reclaim, Claim, StartHandler, StageError, HasToken, TypeOK, Calls
<1>5. CASE Mark(w) \/ Crash(w)
  BY <1>2, <1>5 DEF Mark, Crash, Idle, HasToken, TypeOK
<1>6. CASE EndExecution(w)
  BY <1>1, <1>2, <1>6 DEF EndExecution, HasToken, TypeOK, Calls
<1>7. CASE Finish(w)
  <2>1. CASE call'[w] = NextStage(w)
    BY <1>2, <1>3, <2>1 DEF HasToken
  <2>2. CASE call'[w].pc = "returning"
    BY <1>2, <2>2 DEF HasToken
  <2> QED
    BY <1>1, <1>7, <2>1, <2>2 DEF Finish, TypeOK, Calls
<1>8. CASE Acquire(w)
  <2> DEFINE k     == call[w].stage
             error == [call[w] EXCEPT !.pc = "returning", !.result = "error"]
             taken == [call[w] EXCEPT !.pc = "executing", !.elapsed = 0,
                                      !.token = point[k].attempt + 1]
  <2>1. error.pc = "returning"
    BY <1>1 DEF Calls
  <2>2. /\ taken.stage = k /\ taken.token = point[k].attempt + 1 /\ taken.elapsed = 0
    BY <1>1 DEF Calls
  <2>3. call[w].pc = "acquiring"
    BY <1>8 DEF Acquire
  <2>4. \/ Acquires(w) /\ call'[w] = taken
        \/ call'[w] = error
        \/ call'[w] = NextStage(w)
    BY <1>8 DEF Acquire, TypeOK
  <2> HIDE DEF error, taken
  <2> QED
    BY <1>2, <1>3, <2>1, <2>2, <2>3, <2>4 DEF HasToken
<1> QED
  BY <1>4, <1>5, <1>6, <1>7, <1>8 DEF Step

\* Attempt numbers of checkpoints never go back.
LEMMA AttemptsGrow ==
  ASSUME TypeOK, [Next]_vars, NEW k \in Stages
  PROVE  point'[k].attempt \in Nat /\ point[k].attempt \in Nat
         /\ point'[k].attempt >= point[k].attempt
<1>1. point[k].attempt \in Nat
  BY DEF TypeOK, Checkpoints
<1>2. ASSUME NEW w \in Workers, Step(w) \/ StageError(w) \/ Crash(w)
      PROVE  point'[k].attempt \in {point[k].attempt, point[k].attempt + 1}
  BY <1>2, PointSteps, AcquiresFrame, FinishesFrame
<1>3. CASE Tick
  BY <1>1, <1>3, TickFrame
<1>4. CASE Reconfigure \/ UNCHANGED vars
  BY <1>1, <1>4 DEF Reconfigure, vars
<1> QED
  BY <1>1, <1>2, <1>3, <1>4 DEF Next

\* Steps that hand out no token.
LEMMA TokensKept ==
  ASSUME TypeOK, TokensFence, [Next]_vars,
         \A v \in Workers : HasToken(v)' => /\ HasToken(v)
                                            /\ call'[v].stage = call[v].stage
                                            /\ call'[v].token = call[v].token
  PROVE  TokensFence'
<1> SUFFICES ASSUME NEW w \in Workers, HasToken(w)'
             PROVE  /\ call'[w].token <= point'[call'[w].stage].attempt
                    /\ \A v \in Workers : /\ HasToken(v)' /\ call'[v].stage = call'[w].stage
                                          /\ call'[v].token = call'[w].token
                                          => v = w
  BY DEF TokensFence
<1>1. call[w].stage \in Stages /\ call[w].token \in Nat
  BY DEF TypeOK, Calls
<1>2. call[w].token <= point[call[w].stage].attempt
  BY DEF TokensFence
<1>3. call'[w].token <= point'[call'[w].stage].attempt
  BY <1>1, <1>2, AttemptsGrow
<1> QED
  BY <1>3 DEF TokensFence

LEMMA StepTokens ==
  ASSUME TypeOK, TokensFence, [Next]_vars
  PROVE  TokensFence'
<1>1. ASSUME NEW w \in Workers, Step(w) \/ StageError(w) \/ Crash(w)
      PROVE  TokensFence'
  <2>1. \A v \in Workers : v # w => call'[v] = call[v]
    BY <1>1, TokenSteps
  <2>2. CASE ~HasToken(w)' \/ (HasToken(w) /\ call'[w].stage = call[w].stage
                                           /\ call'[w].token = call[w].token)
    BY <2>1, <2>2, TokensKept DEF HasToken
  <2>3. CASE /\ Acquires(w)
             /\ call'[w].stage = call[w].stage
             /\ call'[w].token = point[call[w].stage].attempt + 1
    <3> DEFINE k == call[w].stage
    <3>1. k \in Stages /\ point[k].attempt \in Nat
          /\ point'[k].attempt = point[k].attempt + 1
      BY <2>3, AcquiresFrame DEF TypeOK, Checkpoints
    <3>2. ASSUME NEW v \in Workers, v # w, HasToken(v)'
          PROVE  /\ HasToken(v) /\ call'[v] = call[v]
                 /\ call[v].token <= point[call[v].stage].attempt
                 /\ call[v].token \in Nat /\ call[v].stage \in Stages
      BY <2>1, <3>2 DEF HasToken, TokensFence, TypeOK, Calls
    <3>3. ASSUME NEW v \in Workers, HasToken(v)'
          PROVE  call'[v].token <= point'[call'[v].stage].attempt
      <4>1. CASE v = w
        BY <2>3, <3>1, <4>1
      <4>2. CASE v # w
        BY <3>2, <3>3, <4>2, AttemptsGrow
      <4> QED
        BY <4>1, <4>2
    <3>4. ASSUME NEW u \in Workers, NEW v \in Workers, HasToken(u)', HasToken(v)',
                 call'[v].stage = call'[u].stage, call'[v].token = call'[u].token
          PROVE  v = u
      <4>1. CASE u # w /\ v # w
        BY <3>2, <3>4, <4>1 DEF TokensFence
      <4>2. CASE u = w \/ v = w
        BY <2>3, <3>1, <3>2, <3>4, <4>2
      <4> QED
        BY <4>1, <4>2
    <3> QED
      BY <3>3, <3>4 DEF TokensFence
  <2> QED
    BY <1>1, <2>2, <2>3, TokenSteps
<1>2. CASE Tick
  BY <1>2, TickFrame, TokensKept DEF HasToken
<1>3. CASE Reconfigure \/ UNCHANGED vars
  BY <1>3, TokensKept DEF Reconfigure, vars, HasToken
<1> QED
  BY <1>1, <1>2, <1>3 DEF Next

\* A live executor's lease has not run out.
LEMMA LeaseIsLive ==
  ASSUME TypeOK, RunsAreHeld, NEW w \in Workers, call[w].pc = "executing"
  PROVE  /\ point[call[w].stage].status = "running"
         /\ point[call[w].stage].lease \in Nat \ {0}
<1>1. call[w].stage \in Stages /\ call[w].elapsed \in 0 .. ExecTimeout
  BY DEF TypeOK, Calls
<1>2. point[call[w].stage].lease \in Nat
  BY <1>1 DEF TypeOK, Checkpoints
<1> QED
  BY <1>1, <1>2, StagesAssumption DEF RunsAreHeld, OwnsRun

LEMMA StepRuns ==
  ASSUME TypeOK, TokensFence, RunsAreHeld, [Next]_vars
  PROVE  RunsAreHeld'
<1>1. ASSUME NEW w \in Workers, Step(w) \/ StageError(w) \/ Crash(w)
      PROVE  RunsAreHeld'
  <2>1. \A v \in Workers : v # w => call'[v] = call[v]
    BY <1>1, TokenSteps
  <2>2. ASSUME NEW v \in Workers, v # w, call[v].pc = "executing"
        PROVE  point'[call[v].stage] = point[call[v].stage]
    <3>1. call[v].stage \in Stages
      BY DEF TypeOK, Calls
    <3>2. CASE Acquires(w)
      <4>1. call[w].stage # call[v].stage
        BY <2>2, <3>2, LeaseIsLive DEF Acquires, TakesOver
      <4> QED
        BY <3>1, <3>2, <4>1, AcquiresFrame
    <3>3. CASE Finishes(w) /\ HasToken(w)
      <4>1. call[w].stage # call[v].stage
        <5> SUFFICES ASSUME call[w].stage = call[v].stage PROVE FALSE
          OBVIOUS
        <5>1. call[w].token = call[v].token
          BY <2>2, <3>3, FinishesFrame DEF RunsAreHeld, OwnsRun
        <5> QED
          BY <2>2, <3>3, <5>1 DEF TokensFence, HasToken
      <4> QED
        BY <3>1, <3>3, <4>1, FinishesFrame
    <3>4. UNCHANGED point \/ Acquires(w) \/ (Finishes(w) /\ HasToken(w))
      BY <1>1 DEF Step, Reclaim, Claim, StartHandler, Acquire, EndExecution, Finish, Mark,
                  StageError, Crash, HasToken
    <3> QED
      BY <3>2, <3>3, <3>4
  <2>3. ASSUME call'[w].pc = "executing"
        PROVE  /\ OwnsRun(w)'
               /\ point'[call'[w].stage].lease + call'[w].elapsed = StageLease
    <3>1. /\ Acquires(w) /\ call'[w].stage = call[w].stage
          /\ call'[w].token = point[call[w].stage].attempt + 1
          /\ call'[w].elapsed = 0
      BY <1>1, <2>3, TokenSteps DEF HasToken
    <3> QED
      BY <3>1, AcquiresFrame, StagesAssumption DEF OwnsRun
  <2>4. ASSUME NEW v \in Workers, call'[v].pc = "executing"
        PROVE  /\ OwnsRun(v)'
               /\ point'[call'[v].stage].lease + call'[v].elapsed = StageLease
    <3>1. CASE v = w
      BY <2>3, <2>4, <3>1
    <3>2. CASE v # w
      BY <2>1, <2>2, <2>4, <3>2 DEF RunsAreHeld, OwnsRun
    <3> QED
      BY <3>1, <3>2
  <2> QED
    BY <2>4 DEF RunsAreHeld
<1>2. CASE Tick
  <2> SUFFICES ASSUME NEW w \in Workers, call'[w].pc = "executing"
               PROVE  /\ OwnsRun(w)'
                      /\ point'[call'[w].stage].lease + call'[w].elapsed = StageLease
    BY DEF RunsAreHeld
  <2>1. call[w].pc = "executing" /\ call[w].stage \in Stages /\ call[w].elapsed \in Nat
    BY <1>2, TickFrame, StagesAssumption DEF TypeOK, Calls
  <2>2. /\ OwnsRun(w) /\ point[call[w].stage].lease + call[w].elapsed = StageLease
        /\ point[call[w].stage].lease \in Nat \ {0}
    BY <2>1, LeaseIsLive DEF RunsAreHeld
  <2>3. /\ call'[w].stage = call[w].stage /\ call'[w].token = call[w].token
        /\ call'[w].elapsed = call[w].elapsed + 1
        /\ point'[call[w].stage].lease = point[call[w].stage].lease - 1
    BY <1>2, <2>1, <2>2, TickFrame DEF Less
  <2>4. OwnsRun(w)'
    BY <1>2, <2>1, <2>2, <2>3, TickFrame DEF OwnsRun
  <2>5. point'[call[w].stage].lease + call'[w].elapsed = StageLease
    <3> DEFINE lease == point[call[w].stage].lease
               spent == call[w].elapsed
    <3>1. lease \in Nat \ {0} /\ spent \in Nat /\ lease + spent = StageLease
      BY <2>1, <2>2
    <3>2. point'[call[w].stage].lease = lease - 1 /\ call'[w].elapsed = spent + 1
      BY <2>3
    <3> HIDE DEF lease, spent
    <3> QED
      BY <3>1, <3>2
  <2> QED
    BY <2>3, <2>4, <2>5
<1>3. CASE Reconfigure \/ UNCHANGED vars
  BY <1>3 DEF Reconfigure, vars, RunsAreHeld, OwnsRun
<1> QED
  BY <1>1, <1>2, <1>3 DEF Next

-----------------------------------------------------------------------------
LEMMA NextInv == Inv /\ [Next]_vars => Inv'
  BY StepType, StepStagesInOrder, StepInOrder, StepComplete, StepTokens, StepRuns DEF Inv

\* Type correctness of the event, its checkpoints and the handlers.
THEOREM TypeCorrect == Spec => []TypeOK
<1>1. Inv => TypeOK
  BY DEF Inv
<1> QED
  BY InitInv, NextInv, <1>1, PTL DEF Spec

\* However many handlers of one event overlap, no two execute the same stage:
\* a lease that outlives the executor's deadline is enough.
THEOREM StagesAreExclusive == Spec => []ExclusiveStages
<1>1. Inv => ExclusiveStages
  BY DEF Inv, RunsAreHeld, TokensFence, OwnsRun, HasToken, ExclusiveStages, Executes
<1> QED
  BY InitInv, NextInv, <1>1, PTL DEF Spec

\* A stage begins only after all before it, in whichever handler they ran.
THEOREM StagesAreOrdered == Spec => []StagesInOrder
<1>1. Inv => StagesInOrder
  BY DEF Inv
<1> QED
  BY InitInv, NextInv, <1>1, PTL DEF Spec

\* An event that succeeded has the outcome of every stage.
THEOREM SuccessIsComplete == Spec => []SucceededIsComplete
<1>1. Inv => SucceededIsComplete
  BY DEF Inv
<1> QED
  BY InitInv, NextInv, <1>1, PTL DEF Spec

\* A finished stage is never executed again, and keeps its outcome.
THEOREM OutcomesStand == Spec => OutcomesAreFinal
<1>1. ASSUME TypeOK, [Next]_vars, NEW k \in Stages, Done(k),
             NEW w \in Workers, Executes(w, k)'
      PROVE  Executes(w, k)
  <2>1. ASSUME NEW u \in Workers, Step(u) \/ StageError(u) \/ Crash(u)
        PROVE  Executes(w, k)
    <3>1. CASE u # w
      BY <1>1, <2>1, <3>1, TokenSteps DEF Executes
    <3>2. CASE u = w
      BY <1>1, <2>1, <3>2, TokenSteps, AcquiresFrame DEF Executes, HasToken
    <3> QED
      BY <3>1, <3>2
  <2>2. CASE Tick
    BY <1>1, <2>2, TickFrame DEF Executes
  <2>3. CASE Reconfigure \/ UNCHANGED vars
    BY <1>1, <2>3 DEF Reconfigure, vars, Executes
  <2> QED
    BY <1>1, <2>1, <2>2, <2>3 DEF Next
<1>2. Inv /\ [Next]_vars =>
        [\A k \in Stages : point[k].status \in Outcomes =>
           /\ point'[k].status = point[k].status
           /\ \A w \in Workers : Executes(w, k)' => Executes(w, k)]_vars
  BY <1>1, OutcomesStay DEF Inv, Done
<1> QED
  BY InitInv, NextInv, <1>2, PTL DEF Spec, OutcomesAreFinal

-----------------------------------------------------------------------------
(* Refinement: the timed system takes no step the outbox does not.         *)

\* Only a row that waits to be claimed again waits at all.
OnlyPendingWaits == row.status # "pending" => row.wait = 0

LEMMA StepWaits ==
  ASSUME TypeOK, OnlyPendingWaits, [Next]_vars
  PROVE  OnlyPendingWaits'
<1>1. ASSUME NEW w \in Workers, Finishes(w) PROVE OnlyPendingWaits'
  BY <1>1 DEF Finishes, OnlyPendingWaits, TypeOK, Rows
<1>2. ASSUME NEW w \in Workers, Reclaim(w) \/ Claim(w) \/ Mark(w) PROVE OnlyPendingWaits'
  BY <1>2 DEF Reclaim, Claim, Mark, FenceHolds, OnlyPendingWaits, TypeOK, Rows
<1>3. ASSUME NEW w \in Workers, StartHandler(w) \/ Acquire(w) \/ EndExecution(w) \/ Crash(w)
      PROVE  OnlyPendingWaits'
  BY <1>3 DEF StartHandler, Acquire, EndExecution, Crash, OnlyPendingWaits
<1>4. ASSUME NEW w \in Workers, Finish(w) \/ StageError(w) PROVE OnlyPendingWaits'
  BY <1>1, <1>4 DEF Finish, StageError, OnlyPendingWaits
<1>5. CASE Tick
  BY <1>5 DEF Tick, OnlyPendingWaits, TypeOK, Rows, Less
<1>6. CASE Reconfigure \/ UNCHANGED vars
  BY <1>6 DEF Reconfigure, vars, OnlyPendingWaits
<1> QED
  BY <1>2, <1>3, <1>4, <1>5, <1>6 DEF Next, Step

\* The queue's variables, as the mapping gives them.
QStatus  == [e \in {Event} |-> row.status]
QAttempts == [e \in {Event} |-> row.attempts]
QDue     == [e \in {Event} |-> row.wait = 0]
QStale   == [e \in {Event} |-> LockStale]
QPhase   == [w \in Workers |-> PhaseOf(call[w].pc)]
QBatch   == [w \in Workers |-> HeldBy(w, Handling \cup {"looping"})]
QCurrent == [w \in Workers |-> HeldBy(w, Handling)]

\* What a call like c holds.
HeldAs(c, pcs) == IF c.pc \in pcs THEN {[event |-> Event, attempts |-> c.claim]} ELSE {}

\* What the mapping makes of the call of w as it is.
LEMMA CallStands ==
  ASSUME NEW w \in Workers
  PROVE  /\ QPhase[w] = PhaseOf(call[w].pc)
         /\ QBatch[w] = HeldAs(call[w], Handling \cup {"looping"})
         /\ QCurrent[w] = HeldAs(call[w], Handling)
         /\ QPhase = [QPhase EXCEPT ![w] = QPhase[w]]
         /\ QBatch = [QBatch EXCEPT ![w] = QBatch[w]]
         /\ QCurrent = [QCurrent EXCEPT ![w] = QCurrent[w]]
<1>1. QPhase[w] = PhaseOf(call[w].pc)
  BY DEF QPhase
<1>2. QBatch[w] = HeldAs(call[w], Handling \cup {"looping"}) /\ QCurrent[w] = HeldAs(call[w], Handling)
  BY DEF QBatch, QCurrent, HeldBy, HeldAs
<1>3. /\ QPhase = [QPhase EXCEPT ![w] = QPhase[w]]
      /\ QBatch = [QBatch EXCEPT ![w] = QBatch[w]]
      /\ QCurrent = [QCurrent EXCEPT ![w] = QCurrent[w]]
  BY DEF QPhase, QBatch, QCurrent
<1> QED
  BY <1>1, <1>2, <1>3

\* The claim a handler works on.
ClaimOf(w) == [event |-> Event, attempts |-> call[w].claim]

LEMMA PhasesOf ==
  ASSUME NEW c
  PROVE  /\ c.pc \in {"idle", "reclaimed"} =>
              /\ PhaseOf(c.pc) = c.pc /\ HeldAs(c, Handling) = {}
              /\ HeldAs(c, Handling \cup {"looping"}) = {}
         /\ c.pc = "looping" =>
              /\ PhaseOf(c.pc) = "looping" /\ HeldAs(c, Handling) = {}
              /\ HeldAs(c, Handling \cup {"looping"}) = {[event |-> Event, attempts |-> c.claim]}
         /\ c.pc \in Handling =>
              /\ PhaseOf(c.pc) = "handling"
              /\ HeldAs(c, Handling) = {[event |-> Event, attempts |-> c.claim]}
              /\ HeldAs(c, Handling \cup {"looping"}) = {[event |-> Event, attempts |-> c.claim]}
BY DEF PhaseOf, HeldAs, Handling

\* The call of w alone changes, to c.
LEMMA CallMoves ==
  ASSUME TypeOK, NEW w \in Workers, NEW c \in Calls, call' = [call EXCEPT ![w] = c]
  PROVE  /\ QPhase' = [QPhase EXCEPT ![w] = PhaseOf(c.pc)]
         /\ QBatch' = [QBatch EXCEPT ![w] = HeldAs(c, Handling \cup {"looping"})]
         /\ QCurrent' = [QCurrent EXCEPT ![w] = HeldAs(c, Handling)]
<1>1. call'[w] = c /\ \A v \in Workers : v # w => call'[v] = call[v]
  BY DEF TypeOK
<1>2. QPhase' = [QPhase EXCEPT ![w] = PhaseOf(c.pc)]
  BY <1>1 DEF QPhase, PhaseOf
<1>3. QBatch' = [QBatch EXCEPT ![w] = HeldAs(c, Handling \cup {"looping"})]
  BY <1>1 DEF QBatch, HeldBy, HeldAs
<1>4. QCurrent' = [QCurrent EXCEPT ![w] = HeldAs(c, Handling)]
  BY <1>1 DEF QCurrent, HeldBy, HeldAs
<1> QED
  BY <1>2, <1>3, <1>4

\* A handler that goes on handling is none of the queue's business.
LEMMA HandlerGoesOn ==
  ASSUME TypeOK, NEW w \in Workers, NEW c \in Calls, call' = [call EXCEPT ![w] = c],
         call[w].pc \in Handling, c.pc \in Handling, c.claim = call[w].claim
  PROVE  QPhase' = QPhase /\ QBatch' = QBatch /\ QCurrent' = QCurrent
<1>1. /\ QPhase[w] = "handling" /\ QBatch[w] = {ClaimOf(w)} /\ QCurrent[w] = {ClaimOf(w)}
  BY CallStands, PhasesOf DEF ClaimOf
<1>2. /\ PhaseOf(c.pc) = "handling" /\ HeldAs(c, Handling) = {ClaimOf(w)}
      /\ HeldAs(c, Handling \cup {"looping"}) = {ClaimOf(w)}
  BY PhasesOf DEF ClaimOf
<1>3. /\ QPhase' = [QPhase EXCEPT ![w] = "handling"]
      /\ QBatch' = [QBatch EXCEPT ![w] = {ClaimOf(w)}]
      /\ QCurrent' = [QCurrent EXCEPT ![w] = {ClaimOf(w)}]
  <2>1. /\ QPhase' = [QPhase EXCEPT ![w] = PhaseOf(c.pc)]
        /\ QBatch' = [QBatch EXCEPT ![w] = HeldAs(c, Handling \cup {"looping"})]
        /\ QCurrent' = [QCurrent EXCEPT ![w] = HeldAs(c, Handling)]
    BY CallMoves
  <2> QED BY <2>1, <1>2, Zenon
<1> QED
  BY <1>1, <1>3, CallStands, Zenon

\* A handler lets go of its event, or a call gives up.
LEMMA CallEnds ==
  ASSUME TypeOK, NEW w \in Workers, call' = [call EXCEPT ![w] = Idle]
  PROVE  /\ QPhase' = [QPhase EXCEPT ![w] = "idle"]
         /\ QBatch' = [QBatch EXCEPT ![w] = {}]
         /\ QCurrent' = [QCurrent EXCEPT ![w] = {}]
<1>1. Idle \in Calls /\ Idle.pc = "idle"
  BY IdleType DEF Idle
<1>2. /\ PhaseOf(Idle.pc) = "idle" /\ HeldAs(Idle, Handling) = {}
      /\ HeldAs(Idle, Handling \cup {"looping"}) = {}
  BY <1>1, PhasesOf
<1>3. /\ QPhase' = [QPhase EXCEPT ![w] = PhaseOf(Idle.pc)]
      /\ QBatch' = [QBatch EXCEPT ![w] = HeldAs(Idle, Handling \cup {"looping"})]
      /\ QCurrent' = [QCurrent EXCEPT ![w] = HeldAs(Idle, Handling)]
  BY <1>1, CallMoves
<1> QED
  BY <1>2, <1>3, Zenon

LEMMA QCardinality ==
  /\ Queue!Cardinality({}) = 0
  /\ Queue!Cardinality({Event}) = 1
<1>1. \A S : Queue!Cardinality(S) = Cardinality(S)
  BY DEF Queue!Cardinality, Cardinality
<1>3. Cardinality({Event}) = 1
  BY FS_Singleton
<1> QED BY <1>1, <1>3, FS_EmptySet

LEMMA QReclaimable == Queue!Reclaimable = IF LockStale THEN {Event} ELSE {}
BY DEF Queue!Reclaimable, LockStale

LEMMA QOldest == Queue!Oldest = IF row.status = "pending" /\ row.wait = 0 THEN {Event} ELSE {}
<1>1. Queue!Claimable = IF row.status = "pending" /\ row.wait = 0 THEN {Event} ELSE {}
  BY DEF Queue!Claimable
<1>2. \A e \in {Event} : {f \in Queue!Claimable : [g \in {Event} |-> 1][f] < [g \in {Event} |-> 1][e]} = {}
  BY <1>1
<1>3. Queue!Oldest = {e \in Queue!Claimable :
        Queue!Cardinality({f \in Queue!Claimable :
          [g \in {Event} |-> 1][f] < [g \in {Event} |-> 1][e]}) < 1}
  BY DEF Queue!Oldest
<1>4. \A e \in Queue!Claimable : e \in {Event}
  BY <1>1
<1> QED
  BY <1>1, <1>2, <1>3, <1>4, QCardinality

LEMMA ReclaimFollows ==
  ASSUME TypeOK, NEW w \in Workers, Reclaim(w)
  PROVE  Queue!Reclaim(w)
<1> DEFINE c == [call[w] EXCEPT !.pc = "reclaimed"]
           S == Queue!Reclaimable
<1>1. call[w] \in Calls /\ call[w].pc = "idle" /\ row \in Rows
  BY DEF TypeOK, Reclaim
<1>2. c \in Calls /\ c.pc = "reclaimed"
  BY <1>1, CallPC DEF PCs, Calls
<1>3. call' = [call EXCEPT ![w] = c]
  BY DEF Reclaim
<1> HIDE DEF c
<1>5. QPhase[w] = "idle" /\ QBatch[w] = {} /\ QCurrent[w] = {}
  BY <1>1, CallStands, PhasesOf
<1>6. QPhase' = [QPhase EXCEPT ![w] = "reclaimed"] /\ QBatch' = QBatch /\ QCurrent' = QCurrent
  <2>1. /\ QPhase' = [QPhase EXCEPT ![w] = "reclaimed"]
        /\ QBatch' = [QBatch EXCEPT ![w] = {}] /\ QCurrent' = [QCurrent EXCEPT ![w] = {}]
    <3>1. /\ PhaseOf(c.pc) = "reclaimed" /\ HeldAs(c, Handling) = {}
          /\ HeldAs(c, Handling \cup {"looping"}) = {}
      BY <1>2, PhasesOf
    <3>2. /\ QPhase' = [QPhase EXCEPT ![w] = PhaseOf(c.pc)]
          /\ QBatch' = [QBatch EXCEPT ![w] = HeldAs(c, Handling \cup {"looping"})]
          /\ QCurrent' = [QCurrent EXCEPT ![w] = HeldAs(c, Handling)]
      BY <1>2, <1>3, CallMoves
    <3> QED BY <3>1, <3>2, Zenon
  <2> QED BY <1>5, <2>1, CallStands, Zenon
<1>7. S = IF LockStale THEN {Event} ELSE {}
  BY QReclaimable
<1>8. Queue!Cardinality(S) <= 1
  BY <1>7, QCardinality
<1>9. row' = IF LockStale THEN [row EXCEPT !.status = "pending", !.wait = 0] ELSE row
  BY DEF Reclaim
<1>10. /\ row'.status = IF LockStale THEN "pending" ELSE row.status
       /\ row'.wait = IF LockStale THEN 0 ELSE row.wait
       /\ row'.attempts = row.attempts
  BY <1>1, <1>9 DEF Rows
<1>11. LockStale' <=> FALSE
  BY <1>9, <1>10 DEF LockStale
<1>12. /\ QStatus' = [e \in {Event} |-> IF e \in S THEN "pending" ELSE QStatus[e]]
       /\ QDue' = [e \in {Event} |-> e \in S \/ QDue[e]]
       /\ QStale' = [e \in {Event} |-> e \notin S /\ QStale[e]]
       /\ QAttempts' = QAttempts
  <2> HIDE DEF S
  <2>1. QStatus' = [e \in {Event} |-> IF e \in S THEN "pending" ELSE QStatus[e]] /\ QAttempts' = QAttempts
    BY <1>7, <1>10 DEF QStatus, QAttempts
  <2>2. QDue' = [e \in {Event} |-> e \in S \/ QDue[e]]
    BY <1>7, <1>10 DEF QDue
  <2>3. QStale' = [e \in {Event} |-> e \notin S /\ QStale[e]]
    BY <1>7, <1>11 DEF QStale
  <2> QED BY <2>1, <2>2, <2>3
<1> HIDE DEF S
<1>13. S \in SUBSET Queue!Reclaimable /\ S = Queue!Reclaimable
  BY DEF S
<1> QED
  BY <1>5, <1>6, <1>8, <1>12, <1>13 DEF Queue!Reclaim, QStatus, QDue, QStale, QAttempts, QPhase, QBatch, QCurrent

LEMMA ClaimFollows ==
  ASSUME TypeOK, NEW w \in Workers, Claim(w)
  PROVE  Queue!Claim(w)
<1> DEFINE O == Queue!Oldest
           n == row.attempts + 1
<1>1. call[w] \in Calls /\ call[w].pc = "reclaimed" /\ row \in Rows /\ n \in Nat
  BY DEF TypeOK, Claim, Rows
<1>2. O = IF row.status = "pending" /\ row.wait = 0 THEN {Event} ELSE {}
  BY QOldest
<1>3. QPhase[w] = "reclaimed" /\ QBatch[w] = {} /\ QCurrent[w] = {}
  BY <1>1, CallStands, PhasesOf
<1>4. CASE row.status = "pending" /\ row.wait = 0
  <2> DEFINE c == [call[w] EXCEPT !.pc = "looping", !.claim = n]
             B == {[event |-> e, attempts |-> Queue!ClaimedAttempts(QAttempts[e])] : e \in O}
  <2>1. call' = [call EXCEPT ![w] = c] /\ row' = [row EXCEPT !.status = "running", !.attempts = n, !.lockAge = 0]
    BY <1>4 DEF Claim, TypeOK
  <2>2. c \in Calls /\ c.pc = "looping" /\ c.claim = n
    BY <1>1 DEF Calls
  <2> HIDE DEF c
  <2>4. O = {Event}
    BY <1>2, <1>4
  <2>5. B = {[event |-> Event, attempts |-> n]}
    BY <2>4 DEF Queue!ClaimedAttempts, QAttempts
  <2>6. /\ QPhase' = [QPhase EXCEPT ![w] = "looping"] /\ QBatch' = [QBatch EXCEPT ![w] = B]
        /\ QCurrent' = [QCurrent EXCEPT ![w] = {}]
    <3>1. /\ PhaseOf(c.pc) = "looping" /\ HeldAs(c, Handling) = {}
          /\ HeldAs(c, Handling \cup {"looping"}) = B
      BY <2>2, <2>5, PhasesOf
    <3>2. /\ QPhase' = [QPhase EXCEPT ![w] = PhaseOf(c.pc)]
          /\ QBatch' = [QBatch EXCEPT ![w] = HeldAs(c, Handling \cup {"looping"})]
          /\ QCurrent' = [QCurrent EXCEPT ![w] = HeldAs(c, Handling)]
      BY <2>1, <2>2, CallMoves
    <3> QED BY <3>1, <3>2, Zenon
  <2>7. QCurrent' = QCurrent
    BY <1>3, <2>6, CallStands, Zenon
  <2>8. row'.status = "running" /\ row'.attempts = n /\ row'.lockAge = 0 /\ row'.wait = row.wait
    BY <1>1, <2>1 DEF Rows
  <2>9. LockStale' <=> FALSE
    BY <2>8, StagesAssumption DEF LockStale
  <2> HIDE DEF O
  <2>10. QStatus' = [e \in {Event} |-> IF e \in O THEN "running" ELSE QStatus[e]]
    BY <2>4, <2>8 DEF QStatus
  <2>11. QAttempts' = [e \in {Event} |-> IF e \in O THEN Queue!ClaimedAttempts(QAttempts[e]) ELSE QAttempts[e]]
    BY <2>4, <2>8 DEF QAttempts, Queue!ClaimedAttempts
  <2>12. QStale' = [e \in {Event} |-> e \notin O /\ QStale[e]]
    BY <2>4, <2>9 DEF QStale
  <2>13. QDue' = QDue
    BY <2>8 DEF QDue
  <2>14. O # {} /\ O = Queue!Oldest
    BY <2>4 DEF O
  <2> QED
    BY <1>3, <2>6, <2>7, <2>10, <2>11, <2>12, <2>13, <2>14
       DEF Queue!Claim, QStatus, QDue, QStale, QAttempts, QPhase, QBatch, QCurrent
<1>5. CASE ~(row.status = "pending" /\ row.wait = 0)
  <2> DEFINE c == [call[w] EXCEPT !.pc = "idle"]
             B == {[event |-> e, attempts |-> Queue!ClaimedAttempts(QAttempts[e])] : e \in O}
  <2>1. call' = [call EXCEPT ![w] = c] /\ row' = row
    BY <1>5 DEF Claim
  <2>2. c \in Calls /\ c.pc = "idle"
    BY <1>1 DEF Calls
  <2> HIDE DEF c
  <2>4. O = {} /\ B = {}
    BY <1>2, <1>5
  <2>5. /\ QPhase' = [QPhase EXCEPT ![w] = "idle"] /\ QBatch' = [QBatch EXCEPT ![w] = B]
        /\ QCurrent' = [QCurrent EXCEPT ![w] = {}]
    <3>1. /\ PhaseOf(c.pc) = "idle" /\ HeldAs(c, Handling) = {}
          /\ HeldAs(c, Handling \cup {"looping"}) = B
      BY <2>2, <2>4, PhasesOf
    <3>2. /\ QPhase' = [QPhase EXCEPT ![w] = PhaseOf(c.pc)]
          /\ QBatch' = [QBatch EXCEPT ![w] = HeldAs(c, Handling \cup {"looping"})]
          /\ QCurrent' = [QCurrent EXCEPT ![w] = HeldAs(c, Handling)]
      BY <2>1, <2>2, CallMoves
    <3> QED BY <3>1, <3>2, Zenon
  <2>6. QCurrent' = QCurrent
    BY <1>3, <2>5, CallStands, Zenon
  <2>7. LockStale' <=> LockStale
    BY <2>1 DEF LockStale
  <2> HIDE DEF O
  <2>8. /\ QStatus' = [e \in {Event} |-> IF e \in O THEN "running" ELSE QStatus[e]]
        /\ QDue' = QDue
    BY <2>1, <2>4 DEF QStatus, QDue
  <2>9. QAttempts' = [e \in {Event} |-> IF e \in O THEN Queue!ClaimedAttempts(QAttempts[e]) ELSE QAttempts[e]]
    BY <2>1, <2>4 DEF QAttempts
  <2>10. QStale' = [e \in {Event} |-> e \notin O /\ QStale[e]]
    <3>1. QStale' = [e \in {Event} |-> LockStale]
      BY <2>7 DEF QStale
    <3>2. \A e \in {Event} : (e \notin O /\ QStale[e]) = LockStale
      <4>1. \A e \in {Event} : QStale[e] = LockStale
        BY DEF QStale
      <4>2. LockStale \in BOOLEAN
        BY DEF LockStale
      <4> QED BY <2>4, <4>1, <4>2
    <3> QED BY <3>1, <3>2, Zenon
  <2>11. O = Queue!Oldest
    BY DEF O
  <2> QED
    BY <1>3, <2>4, <2>5, <2>6, <2>8, <2>9, <2>10, <2>11
       DEF Queue!Claim, QStatus, QDue, QStale, QAttempts, QPhase, QBatch, QCurrent
<1> QED
  BY <1>4, <1>5

\* The row is as it was.
LEMMA RowStands ==
  ASSUME row' = row
  PROVE  QStatus' = QStatus /\ QAttempts' = QAttempts /\ QDue' = QDue /\ QStale' = QStale
BY DEF QStatus, QAttempts, QDue, QStale, LockStale

LEMMA StartFollows ==
  ASSUME TypeOK, NEW w \in Workers, StartHandler(w)
  PROVE  \E c \in QBatch[w] : Queue!StartHandler(w, c)
<1>1. PICK r \in Results :
        call' = [call EXCEPT ![w].pc = IF r = "ok" THEN "acquiring" ELSE "returning",
                             ![w].inputs = {config}, ![w].result = r]
  BY DEF StartHandler, Results
<1> DEFINE p == IF r = "ok" THEN "acquiring" ELSE "returning"
           c == [call[w] EXCEPT !.pc = p, !.inputs = {config}, !.result = r]
<1>2. call[w] \in Calls /\ call[w].pc = "looping" /\ p \in Handling /\ {config} \in SUBSET Configs
  BY DEF TypeOK, StartHandler, Handling
<1>3. call' = [call EXCEPT ![w] = c] /\ row' = row
  BY <1>1 DEF StartHandler, TypeOK
<1> HIDE DEF p
<1>4. c \in Calls /\ c.pc = p /\ c.claim = call[w].claim
  BY <1>2 DEF Calls, Handling, Results
<1> HIDE DEF c
<1>5. /\ PhaseOf(c.pc) = "handling" /\ HeldAs(c, Handling) = {ClaimOf(w)}
      /\ HeldAs(c, Handling \cup {"looping"}) = {ClaimOf(w)}
  BY <1>2, <1>4, PhasesOf DEF ClaimOf
<1>6. QPhase[w] = "looping" /\ QBatch[w] = {ClaimOf(w)}
  BY <1>2, CallStands, PhasesOf DEF ClaimOf
<1>7. /\ QPhase' = [QPhase EXCEPT ![w] = "handling"]
      /\ QBatch' = [QBatch EXCEPT ![w] = {ClaimOf(w)}]
      /\ QCurrent' = [QCurrent EXCEPT ![w] = {ClaimOf(w)}]
  <2>1. /\ QPhase' = [QPhase EXCEPT ![w] = PhaseOf(c.pc)]
        /\ QBatch' = [QBatch EXCEPT ![w] = HeldAs(c, Handling \cup {"looping"})]
        /\ QCurrent' = [QCurrent EXCEPT ![w] = HeldAs(c, Handling)]
    BY <1>3, <1>4, CallMoves
  <2> QED BY <2>1, <1>5, Zenon
<1>8. QBatch' = QBatch
  BY <1>6, <1>7, CallStands, Zenon
<1> HIDE DEF ClaimOf
<1>9. Queue!StartHandler(w, ClaimOf(w))
  BY <1>3, <1>6, <1>7, <1>8, RowStands
     DEF Queue!StartHandler, Queue!rowVars, QStatus, QDue, QStale, QAttempts, QPhase, QBatch, QCurrent
<1> QED
  BY <1>6, <1>9

\* A row that is not running, or was locked just now, has no stale lock.
LEMMA LockRenewed ==
  ASSUME row'.status # "running" \/ row'.lockAge = 0
  PROVE  QStale' = [QStale EXCEPT ![Event] = FALSE]
<1>1. LockStale' <=> FALSE
  BY StagesAssumption DEF LockStale
<1> QED
  BY <1>1 DEF QStale

\* Some mark of the queue is the mark of w.
LEMMA MarkFollows ==
  ASSUME TypeOK, RowCounted, OnlyPendingWaits, NEW w \in Workers, Mark(w)
  PROVE  \E c \in QCurrent[w] :
           \/ \E outcome \in Queue!Settled : Queue!MarkSettled(w, c, outcome)
           \/ Queue!MarkFailed(w, c)
           \/ Queue!MarkLost(w, c)
<1> DEFINE C == ClaimOf(w)
           final == call[w].result = "permanent" \/ row.attempts >= MaxAttempts
<1>1. /\ call[w].pc \in Handling /\ row \in Rows
      /\ call' = [call EXCEPT ![w] = Idle]
  BY DEF Mark, TypeOK, Handling
<1>2. QPhase[w] = "handling" /\ QBatch[w] = {C} /\ QCurrent[w] = {C}
  BY <1>1, CallStands, PhasesOf DEF ClaimOf
<1>3. /\ QPhase' = [QPhase EXCEPT ![w] = "idle"]
      /\ QBatch' = [QBatch EXCEPT ![w] = {}]
      /\ QCurrent' = [QCurrent EXCEPT ![w] = {}]
  BY <1>1, CallEnds
<1>4. C.event = Event /\ C.attempts = call[w].claim
  BY DEF ClaimOf
<1> HIDE DEF C
<1>5. Queue!FenceHolds(C) <=> FenceHolds(w)
  BY <1>4 DEF Queue!FenceHolds, FenceHolds
<1>6. Queue!NextInBatch(w, C)
  <2>1. {C} \ {C} = {}
    OBVIOUS
  <2>2. QBatch' = [QBatch EXCEPT ![w] = @ \ {C}]
    BY <1>2, <1>3, <2>1, Zenon
  <2> QED BY <1>2, <1>3, <2>2 DEF Queue!NextInBatch, QPhase, QBatch, QCurrent
<1>7. CASE ~FenceHolds(w)
  <2>1. row' = row
    BY <1>7 DEF Mark
  <2>2. Queue!Leave(w)
    BY <1>3, <2>1, RowStands
       DEF Queue!Leave, Queue!rowVars, QStatus, QAttempts, QDue, QStale, QPhase, QBatch, QCurrent
  <2>3. Queue!MarkLost(w, C)
    BY <1>2, <1>5, <1>7, <2>2 DEF Queue!MarkLost, QPhase, QCurrent
  <2> QED BY <1>2, <2>3
<1>8. ASSUME FenceHolds(w), NEW o \in Settled, row' = [row EXCEPT !.status = o]
      PROVE  Queue!MarkSettled(w, C, o)
  <2>1. row'.status = o /\ row'.attempts = row.attempts /\ row'.wait = row.wait
    BY <1>1, <1>8 DEF Rows
  <2>2. QStale' = [QStale EXCEPT ![Event] = FALSE]
    BY <1>8, <2>1, LockRenewed DEF Settled
  <2>3. QStatus' = [QStatus EXCEPT ![Event] = o] /\ QAttempts' = QAttempts /\ QDue' = QDue
    BY <2>1 DEF QStatus, QAttempts, QDue
  <2> QED
    BY <1>2, <1>4, <1>5, <1>6, <1>8, <2>2, <2>3
       DEF Queue!MarkSettled, QStatus, QAttempts, QDue, QStale, QPhase, QCurrent
<1>9. CASE FenceHolds(w) /\ call[w].result = "ok"
  <2>1. row' = [row EXCEPT !.status = "succeeded"]
    BY <1>9 DEF Mark
  <2> QED BY <1>2, <1>8, <1>9, <2>1 DEF Settled, Queue!Settled
<1>10. CASE FenceHolds(w) /\ call[w].result # "ok" /\ final
  <2>1. row' = [row EXCEPT !.status = "dead"]
    BY <1>10 DEF Mark
  <2> QED BY <1>2, <1>8, <1>10, <2>1 DEF Settled, Queue!Settled
<1>11. CASE FenceHolds(w) /\ call[w].result # "ok" /\ ~final
  <2>1. row' = [row EXCEPT !.status = "pending", !.wait = Backoff[row.attempts]]
    BY <1>11 DEF Mark
  <2>2. row.attempts \in 1 .. MaxAttempts /\ ~(row.attempts >= MaxAttempts)
    BY <1>1, <1>11, StagesAssumption DEF RowCounted, FenceHolds, Rows
  <2>3. Backoff[row.attempts] # 0
    BY <2>2, StagesAssumption
  <2>4. row'.status = "pending" /\ row'.attempts = row.attempts /\ row'.wait # 0
    BY <1>1, <2>1, <2>3 DEF Rows
  <2>5. Queue!StatusAfterFailure(row.attempts) = "pending"
    BY <2>2 DEF Queue!StatusAfterFailure
  <2>6. QStatus' = [QStatus EXCEPT ![Event] = "pending"] /\ QAttempts' = QAttempts
    BY <2>4 DEF QStatus, QAttempts
  <2>7. QDue' = [e \in {Event} |-> FALSE]
    BY <2>4 DEF QDue
  <2>8. QDue' = [QDue EXCEPT ![Event] = @ /\ Queue!StatusAfterFailure(QAttempts[Event]) = "dead"]
    <3>1. (QDue[Event] /\ Queue!StatusAfterFailure(QAttempts[Event]) = "dead") = FALSE
      BY <2>5 DEF QAttempts
    <3>2. [QDue EXCEPT ![Event] = FALSE] = [e \in {Event} |-> FALSE]
      BY DEF QDue
    <3> QED BY <2>7, <3>1, <3>2, Zenon
  <2>9. QStale' = [QStale EXCEPT ![Event] = FALSE]
    BY <2>4, LockRenewed
  <2>10. QAttempts[Event] = row.attempts
    BY DEF QAttempts
  <2>11. Queue!MarkFailed(w, C)
    BY <1>2, <1>4, <1>5, <1>6, <1>11, <2>5, <2>6, <2>8, <2>9, <2>10
       DEF Queue!MarkFailed, QStatus, QAttempts, QDue, QStale, QPhase, QCurrent
  <2> QED BY <1>2, <2>11
<1> QED
  BY <1>7, <1>9, <1>10, <1>11

LEMMA CrashFollows ==
  ASSUME TypeOK, NEW w \in Workers, Crash(w)
  PROVE  Queue!Abandon(w)
<1>1. call[w] \in Calls /\ call[w].pc # "idle" /\ call' = [call EXCEPT ![w] = Idle] /\ row' = row
  BY DEF Crash, TypeOK
<1>2. QPhase[w] # "idle"
  BY <1>1 DEF QPhase, PhaseOf
<1>3. /\ QPhase' = [QPhase EXCEPT ![w] = "idle"]
      /\ QBatch' = [QBatch EXCEPT ![w] = {}]
      /\ QCurrent' = [QCurrent EXCEPT ![w] = {}]
  BY <1>1, CallEnds
<1> QED
  BY <1>1, <1>2, <1>3, RowStands
     DEF Queue!Abandon, Queue!Leave, Queue!rowVars, QStatus, QAttempts, QDue, QStale, QPhase, QBatch, QCurrent

\* The queue sees nothing of a step that keeps its variables.
Stutter == /\ QStatus' = QStatus /\ QAttempts' = QAttempts /\ QDue' = QDue /\ QStale' = QStale
           /\ QPhase' = QPhase /\ QBatch' = QBatch /\ QCurrent' = QCurrent

LEMMA NextStageHandles ==
  ASSUME TypeOK, NEW w \in Workers
  PROVE  NextStage(w) \in Calls /\ NextStage(w).pc \in Handling /\ NextStage(w).claim = call[w].claim
<1>1. call[w] \in Calls
  BY DEF TypeOK
<1>2. NextStage(w) \in Calls
  BY NextStageType
<1>3. CASE call[w].stage < NumStages
  BY <1>1, <1>2, <1>3 DEF NextStage, Calls, Handling
<1>4. CASE ~(call[w].stage < NumStages)
  BY <1>1, <1>2, <1>4 DEF NextStage, Calls, Handling
<1> QED BY <1>2, <1>3, <1>4

\* The handler's own steps keep it handling the same claim.
LEMMA StageStepStands ==
  ASSUME TypeOK, NEW w \in Workers,
         Acquire(w) \/ EndExecution(w) \/ Finish(w) \/ StageError(w)
  PROVE  /\ call[w].pc \in Handling
         /\ QPhase' = QPhase /\ QBatch' = QBatch /\ QCurrent' = QCurrent
<1>1. call[w] \in Calls /\ call[w].pc \in Handling
  BY DEF TypeOK, Acquire, EndExecution, Finish, StageError, Handling
<1>2. \A p \in Handling, r \in Results :
        /\ [call[w] EXCEPT !.pc = p, !.result = r] \in Calls
        /\ [call[w] EXCEPT !.pc = p, !.result = r].pc = p
        /\ [call[w] EXCEPT !.pc = p, !.result = r].claim = call[w].claim
  BY <1>1 DEF Calls, Handling, Results
<1>3. \E c \in Calls : /\ call' = [call EXCEPT ![w] = c]
                       /\ c.pc \in Handling /\ c.claim = call[w].claim
  <2> DEFINE error == [call[w] EXCEPT !.pc = "returning", !.result = "error"]
  <2>1. error \in Calls /\ error.pc \in Handling /\ error.claim = call[w].claim
    BY <1>2 DEF Handling, Results
  <2>2. CASE call' = [call EXCEPT ![w] = error]
    BY <2>1, <2>2
  <2>3. CASE call' = [call EXCEPT ![w] = NextStage(w)]
    BY <2>3, NextStageHandles
  <2>4. CASE Acquire(w)
    <3> DEFINE n == point[call[w].stage].attempt + 1
               go == [call[w] EXCEPT !.pc = "executing", !.elapsed = 0, !.token = n]
    <3>1. n \in Nat
      BY <1>1 DEF TypeOK, Calls, Checkpoints
    <3>2. go \in Calls
      BY <1>1, <3>1, CallToken DEF PCs
    <3>5. go.pc \in Handling /\ go.claim = call[w].claim
      BY <1>1 DEF Calls, Handling
    <3>3. CASE call' = [call EXCEPT ![w] = go]
      BY <3>2, <3>3, <3>5
    <3>4. \/ call' = [call EXCEPT ![w] = error]
          \/ call' = [call EXCEPT ![w] = go]
          \/ call' = [call EXCEPT ![w] = NextStage(w)]
      BY <2>4 DEF Acquire, TypeOK
    <3> QED BY <2>2, <2>3, <3>3, <3>4
  <2>5. CASE EndExecution(w)
    <3> DEFINE c == [call[w] EXCEPT !.pc = "finishing"]
    <3>1. c \in Calls /\ c.pc \in Handling /\ c.claim = call[w].claim
      BY <1>1 DEF Calls, Handling
    <3>2. call' = [call EXCEPT ![w] = c]
      BY <2>5 DEF EndExecution
    <3> QED BY <3>1, <3>2
  <2>6. CASE Finish(w)
    <3>1. \/ call' = [call EXCEPT ![w] = error]
          \/ call' = [call EXCEPT ![w] = NextStage(w)]
      BY <2>6 DEF Finish, TypeOK
    <3> QED BY <2>2, <2>3, <3>1
  <2>7. CASE StageError(w)
    BY <2>2, <2>7 DEF StageError, TypeOK
  <2> QED BY <2>4, <2>5, <2>6, <2>7
<1>4. PICK c \in Calls : /\ call' = [call EXCEPT ![w] = c]
                         /\ c.pc \in Handling /\ c.claim = call[w].claim
  BY <1>3
<1> QED
  BY <1>1, <1>4, HandlerGoesOn

\* A finished stage is a heartbeat of the queue, if the row is running.
LEMMA HeartbeatFollows ==
  ASSUME TypeOK, NEW w \in Workers, Finishes(w), call[w].pc \in Handling,
         QPhase' = QPhase, QBatch' = QBatch, QCurrent' = QCurrent
  PROVE  Stutter \/ \E c \in QCurrent[w] : Queue!Heartbeat(w, c)
<1>1. row \in Rows
  BY DEF TypeOK
<1>2. CASE row.status # "running"
  BY <1>2, RowStands DEF Finishes, Stutter
<1>3. CASE row.status = "running"
  <2> DEFINE C == ClaimOf(w)
  <2>1. row' = [row EXCEPT !.lockAge = 0]
    BY <1>3 DEF Finishes
  <2>2. /\ row'.lockAge = 0 /\ row'.status = row.status
        /\ row'.attempts = row.attempts /\ row'.wait = row.wait
    BY <1>1, <2>1 DEF Rows
  <2>3. QStale' = [QStale EXCEPT ![Event] = FALSE]
    BY <2>2, LockRenewed
  <2>4. QStatus' = QStatus /\ QAttempts' = QAttempts /\ QDue' = QDue
    BY <2>2 DEF QStatus, QAttempts, QDue
  <2>5. QPhase[w] = "handling" /\ QCurrent[w] = {C}
    BY CallStands, PhasesOf DEF ClaimOf
  <2>6. C.event = Event
    BY DEF ClaimOf
  <2> HIDE DEF C
  <2>7. Queue!Heartbeat(w, C)
    BY <1>3, <2>3, <2>4, <2>5, <2>6
       DEF Queue!Heartbeat, Queue!callVars, QStatus, QAttempts, QDue, QStale, QPhase, QBatch, QCurrent
  <2> QED BY <2>5, <2>7
<1> QED
  BY <1>2, <1>3

\* The minute that passes may make the row due, or its lock stale, not both.
LEMMA TickFollows ==
  ASSUME TypeOK, OnlyPendingWaits, Tick
  PROVE  Stutter \/ Queue!BecomeDue(Event) \/ Queue!LockExpire(Event)
<1>1. row \in Rows /\ \A w \in Workers : call[w] \in Calls
  BY DEF TypeOK
<1>2. QPhase' = QPhase /\ QBatch' = QBatch /\ QCurrent' = QCurrent
  <2>1. \A w \in Workers : call'[w].pc = call[w].pc /\ call'[w].claim = call[w].claim
    BY <1>1 DEF Tick, Calls
  <2>2. QPhase' = QPhase
    BY <2>1 DEF QPhase, PhaseOf
  <2>3. QBatch' = QBatch /\ QCurrent' = QCurrent
    BY <2>1 DEF QBatch, QCurrent, HeldBy
  <2> QED BY <2>2, <2>3
<1>3. /\ row'.status = row.status /\ row'.attempts = row.attempts
      /\ row'.wait = Less(row.wait)
      /\ row'.lockAge = IF row.status = "running" /\ row.lockAge <= ReclaimAfter
                        THEN row.lockAge + 1 ELSE row.lockAge
  BY <1>1 DEF Tick, Rows
<1>4. QStatus' = QStatus /\ QAttempts' = QAttempts
  BY <1>3 DEF QStatus, QAttempts
<1>5. CASE row.status = "pending"
  <2>1. LockStale' = FALSE /\ LockStale = FALSE
    BY <1>3, <1>5 DEF LockStale
  <2>2. QStale' = QStale
    <3>1. QStale = [e \in {Event} |-> FALSE] /\ QStale' = [e \in {Event} |-> FALSE]
      BY <2>1 DEF QStale
    <3> QED BY <3>1
  <2>3. CASE row.wait = 0 \/ row'.wait # 0
    <3>1. row.wait = 0 <=> row'.wait = 0
      BY <1>1, <1>3, <2>3 DEF Less, Rows
    <3>2. QDue' = QDue
      BY <3>1 DEF QDue
    <3> QED BY <1>2, <1>4, <2>2, <3>2 DEF Stutter
  <2>4. CASE row.wait # 0 /\ row'.wait = 0
    <3>1. QDue[Event] = FALSE /\ QDue' = [QDue EXCEPT ![Event] = TRUE]
      BY <2>4 DEF QDue
    <3> QED
      BY <1>2, <1>4, <1>5, <2>2, <3>1
         DEF Queue!BecomeDue, Queue!callVars, QStatus, QAttempts, QDue, QStale, QPhase, QBatch, QCurrent
  <2> QED BY <2>3, <2>4
<1>6. CASE row.status # "pending"
  <2>1. row.wait = 0 /\ row'.wait = 0
    BY <1>3, <1>6 DEF OnlyPendingWaits, Less
  <2>2. QDue' = QDue
    BY <2>1 DEF QDue
  <2>3. CASE LockStale' <=> LockStale
    <3>1. QStale' = QStale
      BY <2>3 DEF QStale
    <3> QED BY <1>2, <1>4, <2>2, <3>1 DEF Stutter
  <2>4. CASE ~(LockStale' <=> LockStale)
    <3>1. row.status = "running" /\ LockStale = FALSE /\ LockStale' = TRUE
      BY <1>1, <1>3, <2>4, StagesAssumption DEF LockStale, Rows
    <3>2. QStale[Event] = FALSE /\ QStale' = [QStale EXCEPT ![Event] = TRUE]
      <4>1. QStale = [e \in {Event} |-> FALSE] /\ QStale' = [e \in {Event} |-> TRUE]
        BY <3>1 DEF QStale
      <4> QED BY <4>1
    <3> QED
      BY <1>2, <1>4, <2>2, <3>1, <3>2
         DEF Queue!LockExpire, Queue!callVars, QStatus, QAttempts, QDue, QStale, QPhase, QBatch, QCurrent
  <2> QED BY <2>3, <2>4
<1> QED
  BY <1>5, <1>6

\* Every step of the timed system is a step of the outbox, or a stutter.
LEMMA StepFollows ==
  ASSUME TypeOK, RowCounted, OnlyPendingWaits, [Next]_vars
  PROVE  [Queue!Next]_Queue!vars
<1>1. Stutter => UNCHANGED Queue!vars
  BY DEF Stutter, Queue!vars, QStatus, QAttempts, QDue, QStale, QPhase, QBatch, QCurrent
<1>2. ASSUME NEW w \in Workers, Step(w) \/ StageError(w) \/ Crash(w)
      PROVE  Queue!Next \/ Stutter
  <2>1. CASE Reclaim(w) \/ Claim(w)
    BY <2>1, ReclaimFollows, ClaimFollows DEF Queue!Next, Queue!Process
  <2>2. CASE StartHandler(w)
    BY <2>2, StartFollows DEF Queue!Next, Queue!Process, QBatch
  <2>3. CASE Mark(w)
    BY <2>3, MarkFollows DEF Queue!Next, Queue!Process, QCurrent
  <2>4. CASE Crash(w)
    BY <2>4, CrashFollows DEF Queue!Next
  <2>5. CASE Acquire(w) \/ EndExecution(w) \/ Finish(w) \/ StageError(w)
    <3>1. /\ call[w].pc \in Handling
          /\ QPhase' = QPhase /\ QBatch' = QBatch /\ QCurrent' = QCurrent
      BY <2>5, StageStepStands
    <3>2. row' = row \/ Finishes(w)
      BY <2>5 DEF Acquire, EndExecution, Finish, StageError
    <3>3. CASE row' = row
      BY <3>1, <3>3, RowStands DEF Stutter
    <3>4. CASE Finishes(w)
      BY <3>1, <3>4, HeartbeatFollows DEF Queue!Next, QCurrent
    <3> QED BY <3>2, <3>3, <3>4
  <2> QED
    BY <1>2, <2>1, <2>2, <2>3, <2>4, <2>5 DEF Step
<1>3. CASE Tick
  BY <1>1, <1>3, TickFollows DEF Queue!Next
<1>4. CASE Reconfigure \/ UNCHANGED vars
  <2>1. row' = row /\ call' = call
    BY <1>4 DEF Reconfigure, vars
  <2>2. QPhase' = QPhase /\ QBatch' = QBatch /\ QCurrent' = QCurrent
    BY <2>1 DEF QPhase, QBatch, QCurrent, PhaseOf, HeldBy
  <2> QED BY <1>1, <2>1, <2>2, RowStands DEF Stutter
<1> QED
  BY <1>1, <1>2, <1>3, <1>4 DEF Next

\* The timed event, its leases and heartbeats implement the outbox: no step of
\* theirs settles, passes on or revives the event otherwise than a step of
\* WorkflowQueue would.
THEOREM OutboxFollowed == Spec => FollowsQueue
<1>1. Init => OnlyPendingWaits
  BY DEF Init, OnlyPendingWaits
<1>2. Inv /\ OnlyPendingWaits /\ [Next]_vars => OnlyPendingWaits'
  BY StepWaits DEF Inv
<1>3. Inv /\ OnlyPendingWaits /\ [Next]_vars => [Queue!Next]_Queue!vars
  BY StepFollows DEF Inv
<1> QED
  BY InitInv, NextInv, <1>1, <1>2, <1>3, PTL DEF Spec, FollowsQueue

-----------------------------------------------------------------------------
(* FindingFaults: one fault is survived.                                   *)

\* A call that has claimed the event and has not marked it.
Active(w) == call[w].pc \in Handling \cup {"looping"}

\* While no lock goes stale under its owner, a call that has claimed the event is alone
\* with it: the row is its own, and so is the checkpoint it works on.
Alone ==
  /\ \A w \in Workers : Active(w) => FenceHolds(w) /\ row.lockAge <= ReclaimAfter
  /\ \A v, w \in Workers : Active(v) /\ Active(w) => v = w
  /\ \A w \in Workers : HasToken(w) => OwnsRun(w)

LeasesShort == \A k \in Stages : point[k].lease <= StageLease

\* A running checkpoint that a fault has left behind.
Orphan(k) == /\ point[k].status = "running"
             /\ \A w \in Workers : HasToken(w) => call[w].stage # k

\* The attempt after which the event waits longer than a lease.
Patience == CHOOSE n \in 2 .. MaxAttempts - 1 : Backoff[n] >= StageLease

\* Before the first fault there is one attempt, and it leaves nothing behind.
FirstAttempt ==
  /\ row.attempts <= 1
  /\ row.status = "pending" => row.attempts = 0
  /\ \A k \in Stages : ~Orphan(k)

\* Who handles the event hears of no error: nothing has failed yet, or whatever a
\* fault has left is over.
Undisturbed == \A w \in Workers : call[w].pc = "returning" => call[w].result = "ok"

\* What the fault left behind has run out once the wait after the attempt that has
\* Patience is over.
OrphansRunOut ==
  /\ row.attempts > Patience => \A k \in Stages : Orphan(k) => point[k].lease = 0
  /\ row.attempts = Patience /\ row.status = "pending" =>
       \A k \in Stages : Orphan(k) => point[k].lease <= row.wait

Calm == ~overtaken /\ ~refused /\ faults <= 1

\* OneFaultIsSurvived alone is not inductive: that the last attempt meets no error is a
\* fact about leases and waits, and that no attempt but the first loses its handler is one
\* about when the fault came.
Survives ==
  /\ \A w \in Workers : call[w].result # "permanent"
  /\ row.status # "dead"
  /\ (faults = 0 \/ row.attempts >= 2) /\ row.status = "running" => \E w \in Workers : Active(w)
  /\ faults = 0 => FirstAttempt
  /\ faults = 0 \/ row.attempts > Patience => Undisturbed
  /\ OrphansRunOut

WatchInv ==
  /\ faults \in Nat
  /\ LeasesShort
  /\ ~overtaken => Alone
  /\ Calm => Survives

LEMMA PatienceHolds ==
  /\ Patience \in 2 .. MaxAttempts - 1 /\ Backoff[Patience] >= StageLease
  /\ Patience \in Nat /\ 2 <= Patience /\ Patience < MaxAttempts
<1>1. Patience \in 2 .. MaxAttempts - 1 /\ Backoff[Patience] >= StageLease
  BY FaultsAssumption DEF Patience
<1> HIDE DEF Patience
<1> QED
  BY <1>1, StagesAssumption

\* Watching the system adds no step to it.
LEMMA WatchedNext ==
  ASSUME [FNext]_fvars
  PROVE  [Next]_vars
<1>1. CASE FNext
  BY <1>1 DEF FNext, Passes, Overtaking, Trouble, Works, Next
<1>2. CASE UNCHANGED fvars
  BY <1>2 DEF fvars
<1> QED BY <1>1, <1>2

\* What a handler's step between its claim and its mark leaves alone.
LEMMA HandlerFrame ==
  ASSUME TypeOK, NEW w \in Workers,
         StartHandler(w) \/ Acquire(w) \/ EndExecution(w) \/ Finish(w) \/ StageError(w)
  PROVE  /\ Active(w) /\ Active(w)' /\ call'[w].claim = call[w].claim
         /\ row'.status = row.status /\ row'.attempts = row.attempts
         /\ row'.wait = row.wait /\ row'.lockAge \in {row.lockAge, 0}
         /\ \A v \in Workers : v # w => call'[v] = call[v]
<1>1. call[w] \in Calls /\ row \in Rows /\ call \in [Workers -> Calls]
  BY DEF TypeOK
<1>2. /\ row'.status = row.status /\ row'.attempts = row.attempts
      /\ row'.wait = row.wait /\ row'.lockAge \in {row.lockAge, 0}
  <2>1. row' = row \/ Finishes(w)
    BY DEF StartHandler, Acquire, EndExecution, Finish, StageError
  <2> QED BY <1>1, <2>1 DEF Finishes, Rows
<1>3. CASE StartHandler(w)
  <2>1. PICK r \in Results :
          call' = [call EXCEPT ![w].pc = IF r = "ok" THEN "acquiring" ELSE "returning",
                               ![w].inputs = {config}, ![w].result = r]
    BY <1>3 DEF StartHandler, Results
  <2>2. /\ call'[w].pc \in {"acquiring", "returning"} /\ call'[w].claim = call[w].claim
        /\ \A v \in Workers : v # w => call'[v] = call[v]
    BY <1>1, <2>1 DEF Calls
  <2>3. call[w].pc = "looping"
    BY <1>3 DEF StartHandler
  <2> QED BY <1>2, <2>2, <2>3 DEF Active, Handling
<1>4. CASE Acquire(w) \/ EndExecution(w) \/ Finish(w) \/ StageError(w)
  <2>1. call[w].pc \in Handling
    BY <1>4, StageStepStands
  <2>2. \A v \in Workers : v # w => call'[v] = call[v]
    BY <1>1, <1>4 DEF Acquire, EndExecution, Finish, StageError
  <2>3. call'[w].pc \in Handling /\ call'[w].claim = call[w].claim
    <3>1. CASE call'[w] = [call[w] EXCEPT !.pc = "returning", !.result = "error"]
      BY <1>1, <3>1 DEF Calls, Handling
    <3>2. CASE call'[w] = NextStage(w)
      BY <3>2, NextStageHandles
    <3>3. CASE call'[w] = [call[w] EXCEPT !.pc = "executing", !.elapsed = 0,
                                          !.token = point[call[w].stage].attempt + 1]
      BY <1>1, <3>3 DEF Calls, Handling
    <3>4. CASE call'[w] = [call[w] EXCEPT !.pc = "finishing"]
      BY <1>1, <3>4 DEF Calls, Handling
    <3> QED
      BY <1>1, <1>4, <3>1, <3>2, <3>3, <3>4 DEF Acquire, EndExecution, Finish, StageError
  <2> QED BY <1>2, <2>1, <2>2, <2>3 DEF Active
<1> QED BY <1>3, <1>4

\* The owner token of a handler after its step.
LEMMA TokenAfter ==
  ASSUME TypeOK, NEW w \in Workers,
         StartHandler(w) \/ Acquire(w) \/ EndExecution(w) \/ Finish(w) \/ StageError(w),
         HasToken(w)'
  PROVE  /\ call'[w].stage = call[w].stage
         /\ \/ /\ Acquire(w) /\ Acquires(w) /\ ~Differs(w)
               /\ call'[w].token = point[call[w].stage].attempt + 1
            \/ /\ EndExecution(w) /\ HasToken(w) /\ call'[w].token = call[w].token
<1>1. call[w] \in Calls /\ call \in [Workers -> Calls]
  BY DEF TypeOK
<1>2. NextStage(w).pc \in {"acquiring", "returning"}
  BY <1>1 DEF NextStage, Calls
<1>3. CASE StartHandler(w)
  BY <1>1, <1>3 DEF StartHandler, HasToken, Calls
<1>4. CASE StageError(w)
  BY <1>1, <1>4 DEF StageError, HasToken, Calls
<1>5. CASE Finish(w)
  BY <1>1, <1>2, <1>5 DEF Finish, HasToken, Calls
<1>6. CASE EndExecution(w)
  BY <1>1, <1>6 DEF EndExecution, HasToken, Calls
<1>7. CASE Acquire(w)
  <2> DEFINE error == [call[w] EXCEPT !.pc = "returning", !.result = "error"]
             go    == [call[w] EXCEPT !.pc = "executing", !.elapsed = 0,
                                      !.token = point[call[w].stage].attempt + 1]
  <2>3. \/ call'[w] = error
        \/ call'[w] = NextStage(w)
        \/ Acquires(w) /\ ~Differs(w) /\ call'[w] = go
    BY <1>1, <1>7, Zenon DEF Acquire
  <2>4. error.pc = "returning"
    BY <1>1 DEF Calls
  <2>1. \/ call'[w].pc = "returning"
        \/ call'[w] = NextStage(w)
        \/ Acquires(w) /\ ~Differs(w) /\ call'[w] = go
    BY <2>3, <2>4
  <2>2. /\ Acquires(w) /\ ~Differs(w)
        /\ call'[w] = [call[w] EXCEPT !.pc = "executing", !.elapsed = 0,
                                      !.token = point[call[w].stage].attempt + 1]
    BY <1>2, <2>1 DEF HasToken
  <2> QED BY <1>1, <1>7, <2>2 DEF Calls
<1> QED BY <1>3, <1>4, <1>5, <1>6, <1>7

LEMMA LeasesShortStep ==
  ASSUME TypeOK, LeasesShort, [Next]_vars
  PROVE  LeasesShort'
<1> SUFFICES ASSUME NEW k \in Stages
             PROVE  point'[k].lease <= StageLease
  BY DEF LeasesShort
<1>1. point[k] \in Checkpoints /\ point[k].lease <= StageLease /\ StageLease \in Nat
  BY StagesAssumption DEF TypeOK, LeasesShort
<1>2. CASE UNCHANGED point
  BY <1>1, <1>2
<1>3. ASSUME NEW w \in Workers, Acquires(w) PROVE point'[k].lease <= StageLease
  BY <1>1, <1>3, AcquiresFrame
<1>4. ASSUME NEW w \in Workers, Finishes(w) PROVE point'[k].lease <= StageLease
  <2>1. CASE k # call[w].stage
    BY <1>1, <1>4, <2>1, FinishesFrame
  <2>2. CASE k = call[w].stage
    <3>1. PICK o \in Outcomes : point' = [point EXCEPT ![k].status = o, ![k].lease = 0]
      BY <1>4, <2>2 DEF Finishes
    <3>2. point'[k] = [point[k] EXCEPT !.status = o, !.lease = 0]
      BY <3>1 DEF TypeOK
    <3> QED BY <1>1, <3>2 DEF Checkpoints
  <2> QED BY <2>1, <2>2
<1>5. CASE Tick
  BY <1>1, <1>5, TickFrame DEF Less, Checkpoints
<1>6. CASE Reconfigure \/ UNCHANGED vars
  BY <1>2, <1>6 DEF Reconfigure, vars
<1> QED
  BY <1>2, <1>3, <1>4, <1>5, <1>6, PointSteps DEF Next

\* A minute that makes no owned lock stale leaves every handler alone.
LEMMA TickAlone ==
  ASSUME TypeOK, Alone, Tick, ~Overtakes
  PROVE  Alone'
<1>1. row \in Rows /\ ReclaimAfter \in Nat
  BY StagesAssumption DEF TypeOK
<1>2. \A w \in Workers : /\ call[w] \in Calls /\ call'[w].pc = call[w].pc
                         /\ call'[w].stage = call[w].stage /\ call'[w].token = call[w].token
                         /\ call'[w].claim = call[w].claim
  BY DEF Tick, TypeOK, Calls
<1>3. /\ row'.status = row.status /\ row'.attempts = row.attempts
      /\ row'.lockAge = IF row.status = "running" /\ row.lockAge <= ReclaimAfter
                        THEN row.lockAge + 1 ELSE row.lockAge
  BY <1>1 DEF Tick, Rows
<1>4. ASSUME NEW w \in Workers, Active(w)'
      PROVE  FenceHolds(w)' /\ row'.lockAge <= ReclaimAfter
  <2>1. Active(w) /\ FenceHolds(w) /\ row.lockAge <= ReclaimAfter
    BY <1>2, <1>4 DEF Active, Alone
  <2>2. row.lockAge # ReclaimAfter
    BY <2>1 DEF Overtakes, Owned, FenceHolds, Active, Handling
  <2>3. FenceHolds(w)'
    BY <1>2, <1>3, <2>1 DEF FenceHolds
  <2> QED
    BY <1>1, <1>3, <2>1, <2>2, <2>3 DEF Rows
<1>5. \A v, w \in Workers : Active(v)' /\ Active(w)' => v = w
  BY <1>2 DEF Active, Alone
<1>6. ASSUME NEW w \in Workers, HasToken(w)' PROVE OwnsRun(w)'
  <2>1. OwnsRun(w) /\ call[w].stage \in Stages
    BY <1>2, <1>6 DEF HasToken, Alone, Calls
  <2> QED BY <1>2, <2>1, TickFrame DEF OwnsRun
<1> QED BY <1>4, <1>5, <1>6 DEF Alone

\* Nobody is there while the row is not running, or its lock is stale.
LEMMA NobodyThere ==
  ASSUME Alone, TypeOK, row.status # "running" \/ LockStale
  PROVE  \A w \in Workers : ~Active(w) /\ ~HasToken(w)
<1>1. row \in Rows /\ ReclaimAfter \in Nat
  BY StagesAssumption DEF TypeOK
<1>2. ASSUME NEW w \in Workers, Active(w) PROVE FALSE
  <2>1. row.status = "running" /\ row.lockAge <= ReclaimAfter
    BY <1>2 DEF Alone, FenceHolds
  <2> QED BY <1>1, <2>1 DEF LockStale, Rows
<1> QED BY <1>2 DEF Active, HasToken, Handling

LEMMA AloneStep ==
  ASSUME TypeOK, Alone, NEW w \in Workers, Step(w) \/ StageError(w) \/ Crash(w)
  PROVE  Alone'
<1>1. call \in [Workers -> Calls] /\ row \in Rows
  BY DEF TypeOK
<1>2. CASE StartHandler(w) \/ Acquire(w) \/ EndExecution(w) \/ Finish(w) \/ StageError(w)
  <2>1. /\ Active(w) /\ call'[w].claim = call[w].claim
        /\ row'.status = row.status /\ row'.attempts = row.attempts
        /\ row'.lockAge \in {row.lockAge, 0}
        /\ \A v \in Workers : v # w => call'[v] = call[v]
    BY <1>2, HandlerFrame
  <2>2. \A v \in Workers : v # w => ~Active(v)' /\ ~HasToken(v)'
    BY <2>1 DEF Alone, Active, HasToken, Handling
  <2>3. FenceHolds(w)' /\ row'.lockAge <= ReclaimAfter
    <3>1. FenceHolds(w) /\ row.lockAge <= ReclaimAfter
      BY <2>1 DEF Alone
    <3>2. 0 <= ReclaimAfter
      BY StagesAssumption
    <3> QED BY <2>1, <3>1, <3>2 DEF FenceHolds
  <2>4. ASSUME HasToken(w)' PROVE OwnsRun(w)'
    <3>1. call'[w].stage = call[w].stage
      BY <1>2, <2>4, TokenAfter
    <3>2. CASE Acquires(w) /\ call'[w].token = point[call[w].stage].attempt + 1
      BY <3>1, <3>2, AcquiresFrame DEF OwnsRun
    <3>3. CASE EndExecution(w) /\ HasToken(w) /\ call'[w].token = call[w].token
      <4>1. point' = point /\ OwnsRun(w)
        BY <3>3 DEF EndExecution, Alone
      <4> QED BY <3>1, <3>3, <4>1 DEF OwnsRun
    <3> QED BY <1>2, <2>4, <3>2, <3>3, TokenAfter
  <2> QED BY <2>2, <2>3, <2>4 DEF Alone
<1>3. CASE Reclaim(w)
  <2>1. /\ \A v \in Workers : v # w => call'[v] = call[v]
        /\ ~Active(w)' /\ ~HasToken(w)' /\ point' = point
    BY <1>1, <1>3 DEF Reclaim, Active, HasToken, Handling, Calls
  <2>2. CASE LockStale
    <3>1. \A v \in Workers : ~Active(v)' /\ ~HasToken(v)'
      BY <2>1, <2>2, NobodyThere DEF Active, HasToken
    <3> QED BY <3>1 DEF Alone
  <2>3. CASE row' = row
    BY <2>1, <2>3 DEF Alone, Active, HasToken, FenceHolds, OwnsRun
  <2> QED BY <1>3, <2>2, <2>3 DEF Reclaim
<1>4. CASE Claim(w)
  <2>1. \A v \in Workers : v # w => call'[v] = call[v]
    BY <1>1, <1>4 DEF Claim
  <2>2. CASE row.status = "pending" /\ row.wait = 0
    <3>1. \A v \in Workers : ~Active(v) /\ ~HasToken(v)
      BY <2>2, NobodyThere
    <3>2. \A v \in Workers : v # w => ~Active(v)' /\ ~HasToken(v)'
      BY <2>1, <3>1 DEF Active, HasToken
    <3>3. /\ row' = [row EXCEPT !.status = "running", !.attempts = row.attempts + 1,
                                !.lockAge = 0]
          /\ call' = [call EXCEPT ![w].pc = "looping", ![w].claim = row.attempts + 1]
      BY <1>4, <2>2 DEF Claim
    <3>4. row'.status = "running" /\ row'.attempts = row.attempts + 1 /\ row'.lockAge = 0
      BY <1>1, <3>3 DEF Rows
    <3>5. call'[w].pc = "looping" /\ call'[w].claim = row.attempts + 1
      BY <1>1, <3>3 DEF Calls
    <3>6. FenceHolds(w)' /\ row'.lockAge <= ReclaimAfter
      BY <3>4, <3>5, StagesAssumption DEF FenceHolds
    <3>7. ~HasToken(w)'
      BY <3>5 DEF HasToken
    <3> QED BY <3>2, <3>6, <3>7 DEF Alone
  <2>3. CASE ~(row.status = "pending" /\ row.wait = 0)
    <3>1. ~Active(w)' /\ ~HasToken(w)' /\ row' = row /\ point' = point
      BY <1>1, <1>4, <2>3 DEF Claim, Active, HasToken, Handling, Calls
    <3> QED BY <2>1, <3>1 DEF Alone, Active, HasToken, FenceHolds, OwnsRun
  <2> QED BY <2>2, <2>3
<1>5. CASE Mark(w) \/ Crash(w)
  <2>1. /\ \A v \in Workers : v # w => call'[v] = call[v]
        /\ ~Active(w)' /\ ~HasToken(w)' /\ point' = point
    BY <1>1, <1>5 DEF Mark, Crash, Idle, Active, HasToken, Handling
  <2>2. CASE row' = row
    BY <2>1, <2>2 DEF Alone, Active, HasToken, FenceHolds, OwnsRun
  <2>3. CASE Mark(w)
    <3>1. \A v \in Workers : v # w => ~Active(v)
      BY <2>3 DEF Mark, Alone, Active, Handling
    <3>2. \A v \in Workers : ~Active(v)' /\ ~HasToken(v)'
      BY <2>1, <3>1 DEF Active, HasToken, Handling
    <3> QED BY <3>2 DEF Alone
  <2> QED BY <1>5, <2>2, <2>3 DEF Crash
<1> QED
  BY <1>2, <1>3, <1>4, <1>5 DEF Step

\* No handler's step but a refused one leaves a checkpoint behind.
LEMMA OrphanStep ==
  ASSUME TypeOK, Alone, NEW w \in Workers, Step(w), ~(Acquire(w) /\ Differs(w)),
         NEW k \in Stages, Orphan(k)'
  PROVE  Orphan(k) /\ point'[k].lease = point[k].lease
<1>1. call \in [Workers -> Calls]
  BY DEF TypeOK
<1>2. \A v \in Workers : v # w => call'[v] = call[v]
  BY <1>1 DEF Step, Reclaim, Claim, StartHandler, Acquire, EndExecution, Finish, Mark
<1>3. /\ call[w].pc \in {"idle", "reclaimed", "looping", "returning"} => UNCHANGED point
      /\ Acquire(w) => \/ UNCHANGED point
                       \/ Acquires(w) /\ HasToken(w)' /\ call'[w].stage = call[w].stage
      /\ EndExecution(w) => UNCHANGED point /\ HasToken(w)' /\ call'[w].stage = call[w].stage
      /\ Finish(w) => Finishes(w)
  <2>1. call[w] \in Calls
    BY DEF TypeOK
  <2>2. call[w].pc \in {"idle", "reclaimed", "looping", "returning"} => UNCHANGED point
    BY DEF Step, Reclaim, Claim, StartHandler, Acquire, EndExecution, Finish, Mark
  <2>3. ASSUME Acquire(w), ~UNCHANGED point
        PROVE  Acquires(w) /\ HasToken(w)' /\ call'[w].stage = call[w].stage
    <3> DEFINE go == [call[w] EXCEPT !.pc = "executing", !.elapsed = 0,
                                     !.token = point[call[w].stage].attempt + 1]
    <3>1. Acquires(w) /\ call'[w] = go
      BY <1>1, <2>3, Zenon DEF Acquire
    <3>2. go.pc = "executing" /\ go.stage = call[w].stage
      BY <2>1 DEF Calls
    <3> QED BY <3>1, <3>2 DEF HasToken
  <2>4. ASSUME EndExecution(w)
        PROVE  UNCHANGED point /\ HasToken(w)' /\ call'[w].stage = call[w].stage
    BY <1>1, <2>1, <2>4 DEF EndExecution, HasToken, Calls
  <2>5. ASSUME Finish(w) PROVE Finishes(w)
    <3>1. OwnsRun(w)
      <4>1. HasToken(w)
        BY <2>5 DEF Finish, HasToken
      <4> QED BY <4>1 DEF Alone
    <3> QED BY <2>5, <3>1 DEF Finish
  <2> QED BY <2>2, <2>3, <2>4, <2>5
<1>4. point'[k].status = "running" /\ \A v \in Workers : HasToken(v)' => call'[v].stage # k
  BY DEF Orphan, HasToken
<1>5. point'[k] = point[k] /\ (Finish(w) => call[w].stage # k)
  <2>1. CASE UNCHANGED point /\ ~Finish(w)
    BY <2>1
  <2>2. CASE Acquire(w) /\ ~UNCHANGED point
    <3>1. Acquires(w) /\ k # call[w].stage
      BY <1>3, <1>4, <2>2
    <3>2. ~Finish(w)
      BY <2>2 DEF Acquire, Finish
    <3> QED BY <3>1, <3>2, AcquiresFrame
  <2>3. CASE Finish(w)
    <3>1. Finishes(w)
      BY <1>3, <2>3
    <3>2. k # call[w].stage
      BY <1>4, <3>1, FinishesFrame, StagesAssumption
    <3> QED BY <3>1, <3>2, FinishesFrame
  <2> QED
    BY <1>3, <2>1, <2>2, <2>3 DEF Step, Reclaim, Claim, StartHandler, EndExecution, Mark
<1>6. ASSUME NEW v \in Workers, HasToken(v) PROVE call[v].stage # k
  <2>1. CASE v # w
    BY <1>2, <1>4, <1>6, <2>1 DEF HasToken
  <2>2. CASE v = w
    <3>1. EndExecution(w) \/ Finish(w)
      BY <1>6, <2>2 DEF HasToken, Step, Reclaim, Claim, StartHandler, Acquire, Mark
    <3> QED BY <1>3, <1>4, <1>5, <2>2, <3>1
  <2> QED BY <2>1, <2>2
<1> QED BY <1>4, <1>5, <1>6 DEF Orphan

-----------------------------------------------------------------------------
(* The steps of a handler while nothing is overtaken or refused.           *)

Accepted(w) == /\ ~(Acquire(w) /\ Differs(w))
               /\ ~(StartHandler(w) /\ call'[w].pc = "returning")

\* Nothing has failed, or the one fault is so long ago that its lease has run out.
Clear == faults = 0 \/ row.attempts > Patience

\* The result a handler returns with: there is no error without a running checkpoint
\* of somebody else's, and none of those while the way is clear.
LEMMA HandlerResult ==
  ASSUME TypeOK, Alone, Survives, NEW w \in Workers, Accepted(w),
         StartHandler(w) \/ Acquire(w) \/ EndExecution(w) \/ Finish(w)
  PROVE  /\ call'[w].result # "permanent"
         /\ Clear /\ call'[w].pc = "returning" => call'[w].result = "ok"
<1>1. call[w] \in Calls /\ call \in [Workers -> Calls] /\ call[w].result # "permanent"
  BY DEF TypeOK, Survives
<1>2. /\ NextStage(w).result # "permanent"
      /\ NextStage(w).pc = "returning" => NextStage(w).result = "ok"
  BY <1>1 DEF NextStage, Calls
<1>3. CASE StartHandler(w)
  <2>1. PICK r \in Results :
          call' = [call EXCEPT ![w].pc = IF r = "ok" THEN "acquiring" ELSE "returning",
                               ![w].inputs = {config}, ![w].result = r]
    BY <1>3 DEF StartHandler, Results
  <2>2. /\ call'[w].pc = IF r = "ok" THEN "acquiring" ELSE "returning"
        /\ call'[w].result = r
    BY <1>1, <2>1 DEF Calls
  <2> QED BY <1>3, <2>2 DEF Accepted
<1>4. CASE EndExecution(w)
  BY <1>1, <1>4 DEF EndExecution, Calls
<1>5. CASE Finish(w)
  <2>1. OwnsRun(w)
    <3>1. HasToken(w)
      BY <1>5 DEF Finish, HasToken
    <3> QED BY <3>1 DEF Alone
  <2>2. call'[w] = NextStage(w)
    BY <1>1, <1>5, <2>1 DEF Finish
  <2> QED BY <1>2, <2>2
<1>6. CASE Acquire(w)
  <2> DEFINE k     == call[w].stage
             error == [call[w] EXCEPT !.pc = "returning", !.result = "error"]
             go    == [call[w] EXCEPT !.pc = "executing", !.elapsed = 0,
                                      !.token = point[k].attempt + 1]
  <2>1. error.result = "error" /\ go.pc = "executing" /\ go.result = call[w].result
    BY <1>1 DEF Calls
  <2>2. ~Differs(w)
    BY <1>6 DEF Accepted
  <2>3. \/ call'[w] = go
        \/ call'[w] = NextStage(w)
        \/ call'[w] = error /\ ~TakesOver(k) /\ Refuses(w)
    BY <1>1, <1>6, <2>2, Zenon DEF Acquire
  <2>4. ASSUME Clear PROVE ~(~TakesOver(k) /\ Refuses(w))
    <3> SUFFICES ASSUME ~TakesOver(k), Refuses(w) PROVE FALSE
      OBVIOUS
    <3>1. k \in Stages /\ point[k].status = "running" /\ point[k].lease # 0
      BY <1>1, <2>2 DEF Refuses, TakesOver, Calls
    <3>2. ASSUME NEW v \in Workers, HasToken(v) PROVE FALSE
      <4>1. Active(v) /\ Active(w) /\ ~HasToken(w)
        BY <1>6, <3>2 DEF HasToken, Active, Handling, Acquire
      <4> QED BY <3>2, <4>1 DEF Alone
    <3>3. Orphan(k)
      BY <3>1, <3>2 DEF Orphan
    <3>4. faults # 0 /\ ~(row.attempts > Patience)
      BY <3>1, <3>3 DEF Survives, FirstAttempt, OrphansRunOut
    <3> QED BY <2>4, <3>4 DEF Clear
  <2> QED BY <1>1, <1>2, <2>1, <2>3, <2>4
<1> QED BY <1>3, <1>4, <1>5, <1>6

LEMMA HandlerSurvives ==
  ASSUME TypeOK, Alone, Survives, NEW w \in Workers, Accepted(w), faults' = faults,
         StartHandler(w) \/ Acquire(w) \/ EndExecution(w) \/ Finish(w)
  PROVE  Survives'
<1>1. /\ Active(w) /\ Active(w)' /\ FenceHolds(w)
      /\ row'.status = row.status /\ row'.attempts = row.attempts /\ row'.wait = row.wait
      /\ \A v \in Workers : v # w => call'[v] = call[v]
  BY HandlerFrame DEF Alone
<1>2. row.status = "running"
  BY <1>1 DEF FenceHolds
<1>3. \A k \in Stages : Orphan(k)' => Orphan(k) /\ point'[k].lease = point[k].lease
  BY OrphanStep DEF Accepted, Step
<1>4. \A v \in Workers : call'[v].result # "permanent"
  BY <1>1, HandlerResult DEF Survives
<1>5. \A v \in Workers : v # w => call'[v].pc # "returning"
  BY <1>1 DEF Alone, Active, Handling
<1>6. faults = 0 => FirstAttempt'
  BY <1>1, <1>2, <1>3 DEF FirstAttempt, Survives
<1>7. (faults = 0 \/ row.attempts > Patience) => Undisturbed'
  BY <1>5, HandlerResult DEF Undisturbed, Clear
<1>8. OrphansRunOut'
  <2>1. OrphansRunOut
    BY DEF Survives
  <2> QED BY <1>1, <1>2, <1>3, <2>1 DEF OrphansRunOut
<1> QED
  BY <1>1, <1>2, <1>4, <1>6, <1>7, <1>8 DEF Survives

\* A step that keeps the row and wakes nobody.
LEMMA RowKeptSurvives ==
  ASSUME TypeOK, Alone, Survives, NEW w \in Workers, faults' = faults,
         Reclaim(w) \/ Claim(w), row' = row
  PROVE  Survives'
<1>1. call \in [Workers -> Calls]
  BY DEF TypeOK
<1>2. \A v \in Workers : v # w => call'[v] = call[v]
  BY <1>1 DEF Reclaim, Claim
<1>3. /\ ~Active(w) /\ call[w].pc # "returning" /\ call'[w].pc # "returning"
      /\ call'[w].result = call[w].result
  BY <1>1 DEF Reclaim, Claim, Active, Handling, Calls
<1>4. \A k \in Stages : Orphan(k)' => Orphan(k) /\ point'[k].lease = point[k].lease
  BY OrphanStep DEF Step, Reclaim, Claim, Acquire
<1>5. \A v \in Workers : call'[v].result # "permanent"
  BY <1>2, <1>3 DEF Survives
<1>6. \A v \in Workers : Active(v) => Active(v)'
  BY <1>2, <1>3 DEF Active
<1>7. Undisturbed => Undisturbed'
  BY <1>2, <1>3 DEF Undisturbed
<1>8. FirstAttempt => FirstAttempt'
  BY <1>4 DEF FirstAttempt
<1>9. OrphansRunOut => OrphansRunOut'
  BY <1>4 DEF OrphansRunOut
<1> QED
  BY <1>5, <1>6, <1>7, <1>8, <1>9 DEF Survives

\* A lock that went stale was the dead handler's of the first attempt.
LEMMA ReclaimSurvives ==
  ASSUME TypeOK, Alone, Survives, NEW w \in Workers, faults' = faults, Reclaim(w), LockStale
  PROVE  Survives'
<1>1. call \in [Workers -> Calls] /\ row \in Rows
  BY DEF TypeOK
<1>2. row.status = "running" /\ \A v \in Workers : ~Active(v)
  BY NobodyThere DEF LockStale
<1>3. faults # 0 /\ ~(row.attempts >= 2)
  BY <1>2 DEF Survives
<1>4. row' = [row EXCEPT !.status = "pending", !.wait = 0]
  BY DEF Reclaim
<1>5. row'.status = "pending" /\ row'.attempts = row.attempts
  BY <1>1, <1>4 DEF Rows
<1>6. \A v \in Workers : call'[v].result = call[v].result
  BY <1>1 DEF Reclaim, Calls
<1>7. row'.attempts \in Nat /\ ~(row'.attempts >= 2)
  BY <1>1, <1>3, <1>5 DEF Rows
<1>8. ~(row'.attempts > Patience) /\ row'.attempts # Patience
  BY <1>7, PatienceHolds
<1>9. OrphansRunOut'
  BY <1>8 DEF OrphansRunOut
<1> QED
  BY <1>3, <1>5, <1>6, <1>8, <1>9 DEF Survives

\* A claim begins an attempt alone, and after the one that had patience without leases.
LEMMA ClaimSurvives ==
  ASSUME TypeOK, Alone, Survives, NEW w \in Workers, faults' = faults, Claim(w),
         row.status = "pending", row.wait = 0
  PROVE  Survives'
<1>1. call \in [Workers -> Calls] /\ row \in Rows
  BY DEF TypeOK
<1>2. \A v \in Workers : ~Active(v)
  BY NobodyThere
<1>3. /\ row' = [row EXCEPT !.status = "running", !.attempts = row.attempts + 1,
                            !.lockAge = 0]
      /\ call' = [call EXCEPT ![w].pc = "looping", ![w].claim = row.attempts + 1]
      /\ point' = point
  BY DEF Claim
<1>4. row'.status = "running" /\ row'.attempts = row.attempts + 1 /\ row.attempts \in Nat
  BY <1>1, <1>3 DEF Rows
<1>5. /\ \A v \in Workers : call'[v].result = call[v].result
      /\ call'[w].pc = "looping"
      /\ \A v \in Workers : v # w => call'[v] = call[v]
  BY <1>1, <1>3 DEF Calls
<1>6. Active(w)'
  BY <1>5 DEF Active
<1>7. Undisturbed'
  BY <1>2, <1>5 DEF Undisturbed, Active, Handling
<1>8. \A k \in Stages : Orphan(k)' => Orphan(k) /\ point'[k].lease = point[k].lease
  BY OrphanStep DEF Step, Claim, Acquire
<1>9. faults = 0 => FirstAttempt'
  BY <1>4, <1>8 DEF FirstAttempt, Survives
<1>10. OrphansRunOut'
  <2>1. ASSUME row'.attempts > Patience, NEW k \in Stages, Orphan(k)'
        PROVE  point'[k].lease = 0
    <3>1. Orphan(k) /\ point'[k].lease = point[k].lease /\ point[k].lease \in Nat
      BY <1>8, <2>1 DEF TypeOK, Checkpoints
    <3>2. row.attempts > Patience \/ row.attempts = Patience
      BY <1>4, <2>1, PatienceHolds
    <3>3. point[k].lease = 0 \/ point[k].lease <= row.wait
      BY <3>1, <3>2 DEF Survives, OrphansRunOut
    <3> QED BY <3>1, <3>3
  <2> QED BY <1>4, <2>1 DEF OrphansRunOut
<1> QED
  BY <1>4, <1>5, <1>6, <1>7, <1>9, <1>10 DEF Survives

\* A mark ends the attempt.  The wait after the one that has patience outlives every
\* lease, and a failure at the last attempt there is none.
LEMMA MarkSurvives ==
  ASSUME TypeOK, RowCounted, LeasesShort, Alone, Survives, NEW w \in Workers,
         faults' = faults, Mark(w)
  PROVE  Survives'
<1>1. call \in [Workers -> Calls] /\ row \in Rows /\ row.attempts \in Nat
  BY DEF TypeOK, Rows
<1>2. call[w].pc = "returning" /\ call[w].result # "permanent" /\ point' = point
  BY DEF Mark, Survives
<1>3. Active(w) /\ FenceHolds(w)
  BY <1>2 DEF Active, Handling, Alone
<1>4. /\ \A v \in Workers : v # w => call'[v] = call[v] /\ ~Active(v)
      /\ call'[w] = Idle
  BY <1>1, <1>3 DEF Mark, Alone
<1>5. \A v \in Workers : call'[v].result # "permanent" /\ call'[v].pc # "returning"
  BY <1>4 DEF Survives, Idle, Active, Handling
<1>6. Undisturbed'
  BY <1>5 DEF Undisturbed
<1>7. \A k \in Stages : Orphan(k)' => Orphan(k) /\ point'[k].lease = point[k].lease
  BY OrphanStep DEF Step, Mark, Acquire, StartHandler
<1>8. CASE call[w].result = "ok"
  <2>1. row' = [row EXCEPT !.status = "succeeded"]
    BY <1>3, <1>8 DEF Mark
  <2>2. row'.status = "succeeded" /\ row'.attempts = row.attempts
    BY <1>1, <2>1 DEF Rows
  <2>3. faults = 0 => FirstAttempt'
    BY <1>7, <2>2 DEF FirstAttempt, Survives
  <2>4. OrphansRunOut'
    BY <1>7, <2>2 DEF OrphansRunOut, Survives
  <2> QED BY <1>5, <1>6, <2>2, <2>3, <2>4 DEF Survives
<1>9. CASE call[w].result # "ok"
  <2>1. faults # 0 /\ ~(row.attempts > Patience)
    BY <1>2, <1>9 DEF Survives, Undisturbed
  <2>2. ~(row.attempts >= MaxAttempts)
    BY <1>1, <2>1, PatienceHolds, StagesAssumption
  <2>3. row' = [row EXCEPT !.status = "pending", !.wait = Backoff[row.attempts]]
    BY <1>2, <1>3, <1>9, <2>2 DEF Mark
  <2>4. /\ row'.status = "pending" /\ row'.attempts = row.attempts
        /\ row'.wait = Backoff[row.attempts]
    BY <1>1, <2>3 DEF Rows
  <2>5. OrphansRunOut'
    <3>1. ASSUME row.attempts = Patience, NEW k \in Stages, Orphan(k)'
          PROVE  point'[k].lease <= row'.wait
      <4>1. point[k].lease <= StageLease /\ point[k].lease \in Nat /\ StageLease \in Nat
        BY StagesAssumption DEF LeasesShort, TypeOK, Checkpoints
      <4>2. row'.wait = Backoff[Patience] /\ Backoff[Patience] \in Nat
        BY <2>4, <3>1, PatienceHolds, StagesAssumption
      <4> QED BY <1>7, <3>1, <4>1, <4>2, PatienceHolds
    <3> QED BY <2>1, <2>4, <3>1 DEF OrphansRunOut
  <2> QED BY <1>5, <1>6, <2>1, <2>4, <2>5 DEF Survives
<1> QED BY <1>8, <1>9

\* The first fault comes in the first attempt.
LEMMA TroubleSurvives ==
  ASSUME TypeOK, Alone, Survives, faults = 0, faults' = 1,
         Reconfigure \/ \E w \in Workers : StageError(w) \/ Crash(w)
  PROVE  Survives'
<1>1. row \in Rows /\ call \in [Workers -> Calls]
  BY DEF TypeOK
<1>2. row'.status = row.status /\ row'.attempts = row.attempts
  BY HandlerFrame DEF Reconfigure, Crash
<1>3. \A v \in Workers : call'[v].result # "permanent"
  <2>1. ASSUME NEW w \in Workers, StageError(w) PROVE \A v \in Workers : call'[v].result # "permanent"
    <3>1. call' = [call EXCEPT ![w] = [call[w] EXCEPT !.pc = "returning", !.result = "error"]]
      BY <1>1, <2>1 DEF StageError
    <3>2. [call[w] EXCEPT !.pc = "returning", !.result = "error"].result = "error"
      BY <1>1 DEF Calls
    <3> QED BY <1>1, <3>1, <3>2 DEF Survives
  <2>2. ASSUME NEW w \in Workers, Crash(w) PROVE \A v \in Workers : call'[v].result # "permanent"
    BY <1>1, <2>2 DEF Crash, Idle, Survives
  <2>3. CASE Reconfigure
    BY <2>3 DEF Reconfigure, Survives
  <2> QED BY <2>1, <2>2, <2>3
<1>4. row'.attempts \in Nat /\ row'.attempts <= 1 /\ row'.status # "dead"
  BY <1>1, <1>2 DEF Rows, Survives, FirstAttempt
<1>5. ~(row'.attempts >= 2) /\ ~(row'.attempts > Patience) /\ row'.attempts # Patience
  BY <1>4, PatienceHolds
<1> QED
  BY <1>3, <1>4, <1>5 DEF Survives, OrphansRunOut

\* A minute runs down the lease of an orphan and the wait together.
LEMMA TickSurvives ==
  ASSUME TypeOK, Survives, Tick, faults' = faults
  PROVE  Survives'
<1>1. row \in Rows /\ \A w \in Workers : call[w] \in Calls
  BY DEF TypeOK
<1>2. /\ row'.status = row.status /\ row'.attempts = row.attempts
      /\ row'.wait = Less(row.wait)
  BY <1>1 DEF Tick, Rows
<1>3. \A w \in Workers : /\ call'[w].pc = call[w].pc /\ call'[w].stage = call[w].stage
                         /\ call'[w].result = call[w].result
  BY TickFrame
<1>4. \A k \in Stages : Orphan(k)' => Orphan(k) /\ point'[k].lease = Less(point[k].lease)
  BY <1>3, TickFrame DEF Orphan, HasToken
<1>5. \A w \in Workers : Active(w)' = Active(w)
  BY <1>3 DEF Active
<1>6. Undisturbed => Undisturbed'
  BY <1>3 DEF Undisturbed
<1>7. FirstAttempt => FirstAttempt'
  BY <1>2, <1>4 DEF FirstAttempt
<1>8. OrphansRunOut => OrphansRunOut'
  <2> SUFFICES ASSUME OrphansRunOut PROVE OrphansRunOut'
    OBVIOUS
  <2>1. ASSUME NEW k \in Stages, Orphan(k)'
        PROVE  /\ Orphan(k)
               /\ point[k].lease = 0 => point'[k].lease = 0
               /\ point[k].lease <= row.wait => point'[k].lease <= row'.wait
    <3>1. point[k].lease \in Nat /\ row.wait \in Nat
      BY DEF TypeOK, Checkpoints, Rows
    <3> QED BY <1>2, <1>4, <2>1, <3>1 DEF Less
  <2> QED BY <1>2, <2>1 DEF OrphansRunOut
<1> QED
  BY <1>2, <1>3, <1>5, <1>6, <1>7, <1>8 DEF Survives

LEMMA InitWatch == FInit => WatchInv
<1> SUFFICES ASSUME FInit PROVE WatchInv
  OBVIOUS
<1>1. /\ row = [status |-> "pending", attempts |-> 0, lockAge |-> 0, wait |-> 0]
      /\ \A k \in Stages : point[k].status = "none" /\ point[k].lease = 0
      /\ \A w \in Workers : call[w].pc = "idle" /\ call[w].result = "ok"
      /\ faults = 0
  BY DEF FInit, Init, Idle
<1>2. LeasesShort
  BY <1>1, StagesAssumption DEF LeasesShort
<1>3. \A w \in Workers : ~Active(w) /\ ~HasToken(w)
  BY <1>1 DEF Active, HasToken, Handling
<1>4. Alone
  BY <1>3 DEF Alone
<1>5. FirstAttempt /\ Undisturbed
  BY <1>1 DEF FirstAttempt, Undisturbed, Orphan
<1>6. OrphansRunOut
  BY <1>1, PatienceHolds DEF OrphansRunOut
<1> QED
  BY <1>1, <1>2, <1>4, <1>5, <1>6 DEF WatchInv, Survives

LEMMA WatchStep ==
  ASSUME Inv, WatchInv, [FNext]_fvars
  PROVE  WatchInv'
<1>1. TypeOK /\ RowCounted /\ LeasesShort /\ faults \in Nat
  BY DEF Inv, WatchInv
<1>2. LeasesShort'
  BY <1>1, WatchedNext, LeasesShortStep
<1>3. CASE Passes
  <2>1. Tick /\ ~Overtakes /\ UNCHANGED watch
    BY <1>3 DEF Passes
  <2> QED
    BY <1>1, <1>2, <2>1, TickAlone, TickSurvives DEF WatchInv, Calm, watch
<1>4. CASE Overtaking
  <2>1. faults' = faults + 1 /\ overtaken' = TRUE
    BY <1>4 DEF Overtaking
  <2> QED BY <1>1, <1>2, <2>1 DEF WatchInv, Calm
<1>5. CASE Trouble
  <2>1. /\ faults' = faults + 1 /\ UNCHANGED <<overtaken, refused>>
        /\ Reconfigure \/ \E w \in Workers : StageError(w) \/ Crash(w)
    BY <1>5 DEF Trouble
  <2>2. ASSUME ~overtaken' PROVE Alone'
    <3>1. Alone
      BY <2>1, <2>2 DEF WatchInv
    <3>2. CASE Reconfigure
      BY <3>1, <3>2 DEF Reconfigure, Alone, Active, HasToken, FenceHolds, OwnsRun
    <3> QED BY <1>1, <2>1, <3>1, <3>2, AloneStep
  <2>3. ASSUME Calm' PROVE Survives'
    <3>1. Calm /\ faults = 0 /\ faults' = 1
      BY <1>1, <2>1, <2>3 DEF Calm
    <3>2. Alone /\ Survives
      BY <3>1 DEF WatchInv, Calm
    <3> QED BY <1>1, <2>1, <3>1, <3>2, TroubleSurvives
  <2> QED BY <1>1, <1>2, <2>1, <2>2, <2>3 DEF WatchInv
<1>6. ASSUME NEW w \in Workers, Works(w) PROVE WatchInv'
  <2>1. Step(w) /\ UNCHANGED <<faults, overtaken>>
    BY <1>6 DEF Works
  <2>2. ASSUME ~overtaken' PROVE Alone'
    <3>1. Alone
      BY <2>1, <2>2 DEF WatchInv
    <3> QED BY <1>1, <2>1, <3>1, AloneStep
  <2>3. ASSUME Calm' PROVE Survives'
    <3>1. Calm /\ Accepted(w)
      BY <1>6, <2>1, <2>3 DEF Works, Calm, Accepted, Acquire, StartHandler
    <3>2. Alone /\ Survives
      BY <3>1 DEF WatchInv, Calm
    <3>3. CASE StartHandler(w) \/ Acquire(w) \/ EndExecution(w) \/ Finish(w)
      BY <1>1, <2>1, <3>1, <3>2, <3>3, HandlerSurvives
    <3>4. CASE Reclaim(w)
      BY <1>1, <2>1, <3>2, <3>4, ReclaimSurvives, RowKeptSurvives DEF Reclaim
    <3>5. CASE Claim(w)
      BY <1>1, <2>1, <3>2, <3>5, ClaimSurvives, RowKeptSurvives DEF Claim
    <3>6. CASE Mark(w)
      BY <1>1, <2>1, <3>2, <3>6, MarkSurvives
    <3> QED BY <2>1, <3>3, <3>4, <3>5, <3>6 DEF Step
  <2> QED BY <1>1, <1>2, <2>1, <2>2, <2>3 DEF WatchInv
<1>7. CASE UNCHANGED fvars
  <2>1. UNCHANGED <<row, point, call, config, faults, overtaken, refused>>
    BY <1>7 DEF fvars, vars, watch
  <2> QED
    BY <2>1 DEF WatchInv, LeasesShort, Alone, Calm, Survives, FirstAttempt, Undisturbed,
                OrphansRunOut, Orphan, Active, HasToken, FenceHolds, OwnsRun
<1> QED
  BY <1>3, <1>4, <1>5, <1>6, <1>7 DEF FNext

\* One crash or one failed query, at whatever moment, does not cost the event its life, for
\* any number of workers and stages, if some wait between the second attempt and the last
\* outlives a stage's lease.  Excused are a handler that is overtaken, one that fails in
\* its preamble and one that meets the fingerprint of another configuration.
THEOREM FaultSurvived == FSpec => []OneFaultIsSurvived
<1>1. FInit => Inv /\ WatchInv
  BY InitInv, InitWatch DEF FInit
<1>2. Inv /\ WatchInv /\ [FNext]_fvars => Inv' /\ WatchInv'
  BY WatchedNext, NextInv, WatchStep
<1>3. WatchInv => OneFaultIsSurvived
  BY DEF WatchInv, Calm, Survives, OneFaultIsSurvived
<1> QED
  BY <1>1, <1>2, <1>3, PTL DEF FSpec
=============================================================================
