--------------------------- MODULE WorkflowQueue ---------------------------
(***************************************************************************)
(* The durable workflow outbox: the table workflow_events and the workers  *)
(* that drain it (internal/workflow/worker.go, queries/workflow.sql).      *)
(*                                                                         *)
(* Cron starts a ProcessOnce every ten seconds in a goroutine of its own   *)
(* and never waits for the previous one, so any number of them overlap.    *)
(* Each reclaims rows whose lock is too old, claims a batch of due rows,   *)
(* and then handles and marks the batch one event after another.  Between  *)
(* the claim and the mark only the row's attempts counter protects it.     *)
(***************************************************************************)
EXTENDS Naturals, FiniteSets

CONSTANTS Events,       \* rows of workflow_events, named by their dedupe_key
          Workers,      \* concurrent ProcessOnce calls
          BatchLimit,   \* limit of the reclaim and claim queries (20)
          MaxAttempts,  \* a failure at this many attempts is final (4)
          NoOwner       \* stands for "no worker" in the refinement mapping

ASSUME QueueAssumption ==
  /\ IsFiniteSet(Events)
  /\ BatchLimit \in Nat \ {0}
  /\ MaxAttempts \in Nat \ {0}
  /\ NoOwner \notin Workers

VARIABLES
  status,     \* status[e]: workflow_events.status, "absent" before the insert
  attempts,   \* attempts[e]: workflow_events.attempts
  createdAt,  \* createdAt[e]: position of the row in created_at order, from 1
  due,        \* due[e]: run_after <= now()
  lockStale,  \* lockStale[e]: locked_at is older than the reclaim interval
  phase,      \* phase[w]: where the ProcessOnce call of w stands
  batch,      \* batch[w]: claims w returned from the claim query, not yet marked
  current     \* current[w]: the claims (one at most) whose handler w runs now

rowVars  == <<status, attempts, createdAt, due, lockStale>>
callVars == <<phase, batch, current>>
vars     == <<status, attempts, createdAt, due, lockStale, phase, batch, current>>

Claims  == [event : Events, attempts : Nat]
Settled == {"succeeded", "dead"}

-----------------------------------------------------------------------------
Init ==
  /\ status    = [e \in Events |-> "absent"]
  /\ attempts  = [e \in Events |-> 0]
  /\ createdAt = [e \in Events |-> 0]
  /\ due       = [e \in Events |-> FALSE]
  /\ lockStale = [e \in Events |-> FALSE]
  /\ phase     = [w \in Workers |-> "idle"]
  /\ batch     = [w \in Workers |-> {}]
  /\ current   = [w \in Workers |-> {}]

Stored == {e \in Events : status[e] # "absent"}

\* EnqueueWorkflowEvent: inserting a dedupe_key that already has a row leaves
\* that row as it is, whatever its status, so only the first insert is a step.
Enqueue(e, later) ==
  /\ status[e] = "absent"
  /\ status'    = [status EXCEPT ![e] = "pending"]
  /\ due'       = [due EXCEPT ![e] = ~later]
  /\ createdAt' = [createdAt EXCEPT ![e] = Cardinality(Stored) + 1]
  /\ UNCHANGED <<attempts, lockStale, callVars>>

\* The clock reaches run_after.
BecomeDue(e) ==
  /\ status[e] = "pending" /\ ~due[e]
  /\ due' = [due EXCEPT ![e] = TRUE]
  /\ UNCHANGED <<status, attempts, createdAt, lockStale, callVars>>

\* The clock passes locked_at plus the reclaim interval of the event's type.
LockExpire(e) ==
  /\ status[e] = "running" /\ ~lockStale[e]
  /\ lockStale' = [lockStale EXCEPT ![e] = TRUE]
  /\ UNCHANGED <<status, attempts, createdAt, due, callVars>>

-----------------------------------------------------------------------------
(* ProcessOnce, statement by statement.                                    *)

\* Seeded fault: a row at its last attempt is never reclaimed.
ReclaimSparesExhausted ==
  {e \in Events : status[e] = "running" /\ lockStale[e] /\ attempts[e] < MaxAttempts}

Reclaimable == {e \in Events : status[e] = "running" /\ lockStale[e]}

\* ReclaimStuckWorkflowEvents.  attempts stays: only a claim counts.
Reclaim(w) ==
  /\ phase[w] = "idle"
  /\ \E S \in SUBSET Reclaimable :
       /\ Cardinality(S) <= BatchLimit
       /\ S = Reclaimable \/ Cardinality(S) = BatchLimit
       /\ status'    = [e \in Events |-> IF e \in S THEN "pending" ELSE status[e]]
       /\ due'       = [e \in Events |-> e \in S \/ due[e]]
       /\ lockStale' = [e \in Events |-> e \notin S /\ lockStale[e]]
  /\ phase' = [phase EXCEPT ![w] = "reclaimed"]
  /\ UNCHANGED <<attempts, createdAt, batch, current>>

\* Seeded faults, each a plausible slip in the query defined next.
ClaimsRunning == {e \in Events : status[e] \in {"pending", "running"} /\ due[e]}
ClaimKeepsAttempts(n) == n

Claimable == {e \in Events : status[e] = "pending" /\ due[e]}

\* A claim counts as an attempt.
ClaimedAttempts(n) == n + 1

\* The BatchLimit oldest claimable rows.
Oldest ==
  {e \in Claimable :
     Cardinality({f \in Claimable : createdAt[f] < createdAt[e]}) < BatchLimit}

\* ClaimPendingWorkflowEvents: one statement moves the whole batch to running.
\* A batch that comes back empty ends the call.
Claim(w) ==
  /\ phase[w] = "reclaimed"
  /\ status'    = [e \in Events |-> IF e \in Oldest THEN "running" ELSE status[e]]
  /\ attempts'  = [e \in Events |-> IF e \in Oldest THEN ClaimedAttempts(attempts[e])
                                                    ELSE attempts[e]]
  /\ lockStale' = [e \in Events |-> e \notin Oldest /\ lockStale[e]]
  /\ batch'     = [batch EXCEPT ![w] =
                     {[event |-> e, attempts |-> ClaimedAttempts(attempts[e])] : e \in Oldest}]
  /\ phase'     = [phase EXCEPT ![w] = IF Oldest = {} THEN "idle" ELSE "looping"]
  /\ UNCHANGED <<createdAt, due, current>>

\* The loop turns to its next event and calls the handler.
StartHandler(w, c) ==
  /\ phase[w] = "looping" /\ c \in batch[w]
  /\ current' = [current EXCEPT ![w] = {c}]
  /\ phase'   = [phase EXCEPT ![w] = "handling"]
  /\ UNCHANGED <<rowVars, batch>>

\* FinishOpportunityFindingStage, called from inside a handler, renews
\* locked_at of a row that is running, whoever claimed it last.
Heartbeat(w, c) ==
  /\ phase[w] = "handling" /\ c \in current[w]
  /\ status[c.event] = "running"
  /\ lockStale' = [lockStale EXCEPT ![c.event] = FALSE]
  /\ UNCHANGED <<status, attempts, createdAt, due, callVars>>

\* Seeded faults: a mark query without one of its two conditions, or both.
FenceByStatus(c) == status[c.event] = "running"
FenceById(c) == status[c.event] # "absent"

\* The condition every mark query puts on the row it updates.
FenceHolds(c) ==
  /\ status[c.event] = "running"
  /\ attempts[c.event] = c.attempts

\* The loop drops a marked event, and the call returns after the last one.
NextInBatch(w, c) ==
  /\ batch'   = [batch EXCEPT ![w] = @ \ {c}]
  /\ current' = [current EXCEPT ![w] = {}]
  /\ phase'   = [phase EXCEPT ![w] = IF batch[w] = {c} THEN "idle" ELSE "looping"]

\* MarkWorkflowEventSucceeded or, for a permanent error, MarkWorkflowEventDead.
MarkSettled(w, c, outcome) ==
  /\ phase[w] = "handling" /\ c \in current[w]
  /\ FenceHolds(c)
  /\ status'    = [status EXCEPT ![c.event] = outcome]
  /\ lockStale' = [lockStale EXCEPT ![c.event] = FALSE]
  /\ NextInBatch(w, c)
  /\ UNCHANGED <<attempts, createdAt, due>>

\* What MarkWorkflowEventFailed makes of a row at this many attempts.
StatusAfterFailure(n) == IF n >= MaxAttempts THEN "dead" ELSE "pending"

\* MarkWorkflowEventFailed: final at MaxAttempts, otherwise back off.
MarkFailed(w, c) ==
  /\ phase[w] = "handling" /\ c \in current[w]
  /\ FenceHolds(c)
  /\ status'    = [status EXCEPT ![c.event] = StatusAfterFailure(attempts[c.event])]
  /\ due'       = [due EXCEPT ![c.event] =
                     @ /\ StatusAfterFailure(attempts[c.event]) = "dead"]
  /\ lockStale' = [lockStale EXCEPT ![c.event] = FALSE]
  /\ NextInBatch(w, c)
  /\ UNCHANGED <<attempts, createdAt>>

\* A call returns and forgets the rest of its batch.
Leave(w) ==
  /\ phase'   = [phase EXCEPT ![w] = "idle"]
  /\ batch'   = [batch EXCEPT ![w] = {}]
  /\ current' = [current EXCEPT ![w] = {}]
  /\ UNCHANGED rowVars

\* The mark query matches no row: the early return on markErr.
MarkLost(w, c) ==
  /\ phase[w] = "handling" /\ c \in current[w]
  /\ ~FenceHolds(c)
  /\ Leave(w)

\* The process dies, or a query fails: whatever was claimed stays running.
Abandon(w) ==
  /\ phase[w] # "idle"
  /\ Leave(w)

-----------------------------------------------------------------------------
Process(w) ==
  \/ Reclaim(w)
  \/ Claim(w)
  \/ \E c \in batch[w] : StartHandler(w, c)
  \/ \E c \in current[w] :
       \/ \E outcome \in Settled : MarkSettled(w, c, outcome)
       \/ MarkFailed(w, c)
       \/ MarkLost(w, c)

Next ==
  \/ \E e \in Events : (\E later \in BOOLEAN : Enqueue(e, later))
                       \/ BecomeDue(e) \/ LockExpire(e)
  \/ \E w \in Workers : \/ Process(w)
                        \/ Abandon(w)
                        \/ \E c \in current[w] : Heartbeat(w, c)

Spec == Init /\ [][Next]_vars

-----------------------------------------------------------------------------
(* Properties.                                                             *)

\* Every variable has its type; a call keeps a batch only while it loops.
TypeOK ==
  /\ status    \in [Events -> {"absent", "pending", "running"} \cup Settled]
  /\ attempts  \in [Events -> Nat]
  /\ createdAt \in [Events -> Nat]
  /\ due       \in [Events -> BOOLEAN]
  /\ lockStale \in [Events -> BOOLEAN]
  /\ phase     \in [Workers -> {"idle", "reclaimed", "looping", "handling"}]
  /\ batch     \in [Workers -> SUBSET Claims]
  /\ current   \in [Workers -> SUBSET Claims]

\* w still believes in a claim of e, and it is the last one handed out.
Owns(w, e) ==
  /\ status[e] = "running"
  /\ [event |-> e, attempts |-> attempts[e]] \in batch[w]

\* The attempts counter is a fencing token: however often calls overlap, lose
\* their lock and are overtaken, at most one of them can still mark an event.
OneOwner ==
  \A e \in Events : \A v, w \in Workers : Owns(v, e) /\ Owns(w, e) => v = w

\* A call whose claim is current cannot find its event settled or handed to
\* somebody else by another call's mark: only the reclaim of an expired lock
\* takes an event away from a call that still holds it.
NoSettleByOthers ==
  [][\A w \in Workers, e \in Events :
       Owns(w, e) /\ (batch'[w] = batch[w]) /\ ~lockStale[e] => Owns(w, e)']_vars

\* A settled event is never run again, neither by a late mark of an overtaken
\* call nor by a reclaim.
SettledForever ==
  [][\A e \in Events : status[e] \in Settled => status'[e] = status[e]]_vars

\* What LeasedJobs sees of a row: whether it is open, and whose mark would count.
JobOf(e) == IF status[e] = "absent" THEN "absent"
            ELSE IF status[e] \in Settled THEN "settled" ELSE "open"

OwnerOf(e) == IF \E w \in Workers : Owns(w, e)
              THEN CHOOSE w \in Workers : Owns(w, e)
              ELSE NoOwner

Promise == INSTANCE LeasedJobs
             WITH job   <- [e \in Events |-> JobOf(e)],
                  owner <- [e \in Events |-> OwnerOf(e)]

\* The outbox implements LeasedJobs: enqueue, claim, reclaim, mark and crash
\* are submit, take, revoke and conclude, and nothing else ever happens.
KeepsPromise == Promise!Spec
=============================================================================
