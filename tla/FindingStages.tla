--------------------------- MODULE FindingStages ---------------------------
(***************************************************************************)
(* One opportunity_finding.requested event and the checkpointed workflow   *)
(* its handler runs (internal/opportunityfinding/workflow.go,              *)
(* queries/opportunity_finding.sql), with the clock in minutes.            *)
(*                                                                         *)
(* The handler runs the stages in order.  Before each it acquires the      *)
(* stage's checkpoint under a lease and a fresh owner token, runs the      *)
(* stage under a shorter context deadline, and finishes the checkpoint,    *)
(* which also renews the event's lock.  The outbox meanwhile reclaims the  *)
(* event from any worker that seems stuck, so handlers of the same event   *)
(* overlap, and only leases, tokens and deadlines keep them apart.         *)
(***************************************************************************)
EXTENDS Naturals

CONSTANTS Workers,       \* concurrent ProcessOnce calls
          NumStages,     \* length of OrderedStages (6)
          Outcomes,      \* terminal stage statuses
          Configs,       \* what a stage fingerprint hashes: project config, blog URL
          ExecTimeout,   \* stageExecutionTimeout (3)
          StageLease,    \* stageLease: stageExecutionTimeout + 1 minute (4)
          ReclaimAfter,  \* reclaim interval of this event type (4)
          MaxAttempts,   \* a failure at this many attempts is final (4)
          Backoff,       \* Backoff[n]: minutes to wait after the n-th attempt
          Event, NoOwner \* the event's name and "no worker", for the refinement

ASSUME StagesAssumption ==
  /\ NumStages \in Nat \ {0}
  /\ ExecTimeout \in Nat /\ StageLease \in Nat /\ ExecTimeout < StageLease
  /\ ReclaimAfter \in Nat
  /\ MaxAttempts \in Nat \ {0}
  /\ Backoff \in [1 .. MaxAttempts -> Nat \ {0}]
  /\ NoOwner \notin Workers
  /\ "none" \notin Outcomes /\ "running" \notin Outcomes

VARIABLES
  row,    \* the workflow_events row: status, attempts, lockAge (minutes since
          \* locked_at), wait (minutes until run_after)
  point,  \* point[k]: checkpoint of stage k: status, attempt (attempt_number,
          \* which is new with every owner_token), lease (minutes left), print
          \* (request_fingerprint, as the set of inputs it was computed from)
  call,   \* call[w]: the ProcessOnce call of w: pc, claim (attempts it claimed),
          \* inputs (the config it read), stage, token (the attempt_number it
          \* owns), elapsed, result
  config  \* the project's current configuration

vars == <<row, point, call, config>>

Stages   == 1 .. NumStages
Settled  == {"succeeded", "dead"}
Idle     == [pc |-> "idle", claim |-> 0, inputs |-> {}, stage |-> 1, token |-> 0,
             elapsed |-> 0, result |-> "ok"]

Init ==
  /\ row = [status |-> "pending", attempts |-> 0, lockAge |-> 0, wait |-> 0]
  /\ point = [k \in Stages |-> [status |-> "none", attempt |-> 0, lease |-> 0,
                            print |-> {}]]
  /\ call = [w \in Workers |-> Idle]
  /\ config \in Configs

-----------------------------------------------------------------------------
(* The queue around the handler, as in WorkflowQueue, for a batch of one.  *)

\* Seeded fault: a row at its last attempt is never reclaimed.
StaleBelowLimit ==
  row.status = "running" /\ row.lockAge > ReclaimAfter /\ row.attempts < MaxAttempts

LockStale == row.status = "running" /\ row.lockAge > ReclaimAfter

Reclaim(w) ==
  /\ call[w].pc = "idle"
  /\ row' = IF LockStale THEN [row EXCEPT !.status = "pending", !.wait = 0] ELSE row
  /\ call' = [call EXCEPT ![w].pc = "reclaimed"]
  /\ UNCHANGED <<point, config>>

\* The claimed event may wait in the batch behind others for any time.
Claim(w) ==
  /\ call[w].pc = "reclaimed"
  /\ IF row.status = "pending" /\ row.wait = 0
       THEN /\ row' = [row EXCEPT !.status = "running", !.attempts = @ + 1, !.lockAge = 0]
            /\ call' = [call EXCEPT ![w].pc = "looping", ![w].claim = row.attempts + 1]
       ELSE /\ call' = [call EXCEPT ![w].pc = "idle"]
            /\ UNCHANGED row
  /\ UNCHANGED <<point, config>>

\* handleOpportunityFindingRequested: reads the project, and may fail before the
\* first stage, for good when the payload or the configuration does not parse.
StartHandler(w) ==
  /\ call[w].pc = "looping"
  /\ \E r \in {"ok", "error", "permanent"} :
       call' = [call EXCEPT ![w].pc = IF r = "ok" THEN "acquiring" ELSE "returning",
                            ![w].inputs = {config}, ![w].result = r]
  /\ UNCHANGED <<row, point, config>>

\* Seeded fault: the mark queries look at the status alone.
FenceByStatus(w) == row.status = "running"

FenceHolds(w) == row.status = "running" /\ row.attempts = call[w].claim

\* MarkWorkflowEventSucceeded, Failed or Dead, or the early return when the
\* fence does not hold.  The call keeps nothing.
Mark(w) ==
  /\ call[w].pc = "returning"
  /\ LET result == call[w].result
         final  == result = "permanent" \/ row.attempts >= MaxAttempts
     IN row' = IF ~FenceHolds(w) THEN row
               ELSE IF result = "ok" THEN [row EXCEPT !.status = "succeeded"]
               ELSE IF final THEN [row EXCEPT !.status = "dead"]
               ELSE [row EXCEPT !.status = "pending", !.wait = Backoff[row.attempts]]
  /\ call' = [call EXCEPT ![w] = Idle]
  /\ UNCHANGED <<point, config>>

-----------------------------------------------------------------------------
(* RunCheckpointedWorkflow.                                                *)

\* Seeded faults: the stages end one late, or one early.
RunsPastLastStage(w) ==
  IF call[w].stage <= NumStages
  THEN [call[w] EXCEPT !.pc = "acquiring", !.stage = @ + 1]
  ELSE [call[w] EXCEPT !.pc = "returning", !.result = "ok"]
SkipsLastStage(w) ==
  IF call[w].stage + 1 < NumStages
  THEN [call[w] EXCEPT !.pc = "acquiring", !.stage = @ + 1]
  ELSE [call[w] EXCEPT !.pc = "returning", !.result = "ok"]

\* The call goes on to the next stage, or returns after the last one.
NextStage(w) ==
  IF call[w].stage < NumStages
  THEN [call[w] EXCEPT !.pc = "acquiring", !.stage = @ + 1]
  ELSE [call[w] EXCEPT !.pc = "returning", !.result = "ok"]

\* Seeded faults in the takeover condition of AcquireOpportunityFindingStage:
\* it forgets the lease, or the status.
TakesOverAlways(k)   == point[k].status = "running"
TakesOverFinished(k) == point[k].status # "none" /\ point[k].lease = 0

\* Seeded fault: a lease far longer than the queue's patience.
LongLease == 4 * StageLease

\* The lease a new owner gets.
NewLease == StageLease

\* lease_expires_at <= now() of a running checkpoint.
TakesOver(k) == point[k].status = "running" /\ point[k].lease = 0

\* AcquireOpportunityFindingStage inserts the checkpoint or takes it over; the
\* fingerprint is the first owner's for ever.
Acquires(w) ==
  LET k == call[w].stage IN
  /\ point[k].status = "none" \/ TakesOver(k)
  /\ point' = [point EXCEPT ![k] =
                 [status  |-> "running",
                  attempt |-> point[k].attempt + 1,
                  lease   |-> NewLease,
                  print   |-> IF point[k].status = "none" THEN call[w].inputs
                                                          ELSE point[k].print]]

Differs(w) == /\ point[call[w].stage].status # "none"
              /\ point[call[w].stage].print # call[w].inputs

\* Seeded fault: a checkpoint that another handler runs counts as reusable.
RefusesPrints(w) == Differs(w)

\* The errors on a checkpoint that was there already and is not w's: its
\* fingerprint changed, or it is another handler's (ErrStageInProgress).
Refuses(w) == Differs(w) \/ point[call[w].stage].status = "running"

\* The checkpoint becomes w's, unless its fingerprint is not; or w goes on past
\* it; or w gives up.
Acquire(w) ==
  /\ call[w].pc = "acquiring"
  /\ \/ /\ Acquires(w)
        /\ call' = [call EXCEPT ![w] =
                      IF Differs(w) THEN [@ EXCEPT !.pc = "returning", !.result = "error"]
                      ELSE [@ EXCEPT !.pc = "executing", !.elapsed = 0,
                                     !.token = point[call[w].stage].attempt + 1]]
     \/ /\ point[call[w].stage].status # "none" /\ ~TakesOver(call[w].stage)
        /\ call' = [call EXCEPT ![w] =
                      IF Refuses(w) THEN [@ EXCEPT !.pc = "returning", !.result = "error"]
                      ELSE NextStage(w)]
        /\ UNCHANGED point
  /\ UNCHANGED <<row, config>>

\* The executor returns, at the latest when its context expires.
EndExecution(w) ==
  /\ call[w].pc = "executing"
  /\ call' = [call EXCEPT ![w].pc = "finishing"]
  /\ UNCHANGED <<row, point, config>>

OwnsRun(w) == /\ point[call[w].stage].status = "running"
              /\ point[call[w].stage].attempt = call[w].token

\* FinishOpportunityFindingStage: fenced by the owner token; if it takes, the
\* event's lock is renewed as well, whoever claimed the event last.
Finishes(w) ==
  /\ OwnsRun(w)
  /\ \E o \in Outcomes :
       point' = [point EXCEPT ![call[w].stage].status = o, ![call[w].stage].lease = 0]
  /\ row' = IF row.status = "running" THEN [row EXCEPT !.lockAge = 0] ELSE row

Finish(w) ==
  /\ call[w].pc = "finishing"
  /\ \/ /\ Finishes(w)
        /\ call' = [call EXCEPT ![w] = NextStage(w)]
     \/ /\ ~OwnsRun(w)
        /\ call' = [call EXCEPT ![w].pc = "returning", ![w].result = "error"]
        /\ UNCHANGED <<row, point>>
  /\ UNCHANGED config

\* A query around a stage fails, and perhaps only its reply was lost: the handler
\* returns the error.
StageError(w) ==
  /\ \/ call[w].pc \in {"acquiring", "finishing"} /\ UNCHANGED <<row, point>>
     \/ call[w].pc = "acquiring" /\ Acquires(w) /\ UNCHANGED row
     \/ call[w].pc = "finishing" /\ Finishes(w)
  /\ call' = [call EXCEPT ![w].pc = "returning", ![w].result = "error"]
  /\ UNCHANGED config

\* The process dies, or a query of the queue fails.
Crash(w) ==
  /\ call[w].pc # "idle"
  /\ call' = [call EXCEPT ![w] = Idle]
  /\ UNCHANGED <<row, point, config>>

\* An operator saves other settings, or a deploy changes them.
Reconfigure ==
  /\ config' \in Configs \ {config}
  /\ UNCHANGED <<row, point, call>>

-----------------------------------------------------------------------------
Less(n) == IF n = 0 THEN 0 ELSE n - 1

\* A minute passes.  Executors obey their context: none is past its deadline.
Tick ==
  /\ \A w \in Workers : call[w].pc = "executing" => call[w].elapsed < ExecTimeout
  /\ row' = [row EXCEPT !.lockAge = IF row.status = "running" /\ @ <= ReclaimAfter
                                    THEN @ + 1 ELSE @,
                        !.wait = Less(@)]
  /\ point' = [k \in Stages |-> [point[k] EXCEPT !.lease = Less(@)]]
  /\ call' = [w \in Workers |-> [call[w] EXCEPT
                !.elapsed = IF call[w].pc = "executing" THEN @ + 1 ELSE @]]
  /\ UNCHANGED config

Step(w) == \/ Reclaim(w) \/ Claim(w) \/ StartHandler(w)
           \/ Acquire(w) \/ EndExecution(w) \/ Finish(w) \/ Mark(w)

Next == Tick \/ Reconfigure \/ \E w \in Workers : Step(w) \/ StageError(w) \/ Crash(w)

Spec == Init /\ [][Next]_vars

-----------------------------------------------------------------------------
(* Properties.                                                             *)

Rows        == [status : {"pending", "running"} \cup Settled, attempts : Nat,
                lockAge : Nat, wait : Nat]
Checkpoints == [status : {"none", "running"} \cup Outcomes, attempt : Nat, lease : Nat,
                print : SUBSET Configs]
Calls       == [pc : {"idle", "reclaimed", "looping", "acquiring", "executing",
                      "finishing", "returning"},
                claim : Nat, inputs : SUBSET Configs, stage : Stages, token : Nat,
                elapsed : 0 .. ExecTimeout, result : {"ok", "error", "permanent"}]

\* Every variable has its type.
TypeOK ==
  /\ row \in Rows
  /\ point \in [Stages -> Checkpoints]
  /\ call \in [Workers -> Calls]
  /\ config \in Configs

Executes(w, k) == call[w].pc = "executing" /\ call[w].stage = k

\* No stage is executed by two handlers at once, although a reclaimed event may
\* have several: a takeover waits for a lease that outlives the deadline of the
\* executor it is taken from.
ExclusiveStages ==
  \A k \in Stages : \A v, w \in Workers : Executes(v, k) /\ Executes(w, k) => v = w

\* A stage that reached its outcome is never executed again, by no retry and by
\* no overtaken handler, and its recorded outcome never changes.
OutcomesAreFinal ==
  [][\A k \in Stages : point[k].status \in Outcomes =>
       /\ point'[k].status = point[k].status
       /\ \A w \in Workers : Executes(w, k)' => Executes(w, k)]_vars

\* A stage begins only when every stage before it has its outcome.
StagesInOrder ==
  \A k \in Stages : point[k].status # "none" =>
    \A j \in 1 .. k - 1 : point[j].status \in Outcomes

\* A succeeded event has run its whole workflow, over however many attempts.
SucceededIsComplete ==
  row.status = "succeeded" => \A k \in Stages : point[k].status \in Outcomes

\* The queue's view of this system: its own phases, and heartbeats of handlers.
PhaseOf(pc) == CASE pc \in {"idle", "reclaimed", "looping"} -> pc
                 [] OTHER -> "handling"

HeldBy(w, pcs) == IF call[w].pc \in pcs
                  THEN {[event |-> Event, attempts |-> call[w].claim]} ELSE {}

Handling == {"acquiring", "executing", "finishing", "returning"}

Queue == INSTANCE WorkflowQueue
           WITH Events     <- {Event},
                BatchLimit <- 1,
                status     <- [e \in {Event} |-> row.status],
                attempts   <- [e \in {Event} |-> row.attempts],
                createdAt  <- [e \in {Event} |-> 1],
                due        <- [e \in {Event} |-> row.wait = 0],
                lockStale  <- [e \in {Event} |-> LockStale],
                phase      <- [w \in Workers |-> PhaseOf(call[w].pc)],
                batch      <- [w \in Workers |-> HeldBy(w, Handling \cup {"looping"})],
                current    <- [w \in Workers |-> HeldBy(w, Handling)]

\* Every step of the timed system is a step of the outbox, or none of its
\* business: the clock, the leases and the heartbeats add no new way to settle,
\* pass on or revive an event.
FollowsQueue == [][Queue!Next]_Queue!vars
=============================================================================
