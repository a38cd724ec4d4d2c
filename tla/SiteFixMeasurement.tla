------------------------- MODULE SiteFixMeasurement -------------------------
(***************************************************************************)
(* What a verified site fix has brought about: its measurement, and the    *)
(* hand-off that starts it.  The statement that verifies the fix leaves a  *)
(* hand-off in an outbox; an hourly tick claims it, activates the          *)
(* measurement, evaluates the checkpoints that have come due, and says so  *)
(* when the hand-off has failed for good.  Several processes run the tick. *)
(*                                                                         *)
(* A fix has at most one measurement: its policy, which never changes, has *)
(* one key of creation.  What decides the policy is read at the            *)
(* verification, where the model chooses it.  Metrics, thresholds, windows *)
(* and the reasons written down are left out; a checkpoint's evidence is   *)
(* what it says, or that it cannot be had.  A lease, a delay, a day and    *)
(* the deadline are flags and a count that time moves.                     *)
(***************************************************************************)
EXTENDS SiteFix

CONSTANTS Workers,      \* runs of TickSiteFixMeasurements
          MaxAttempts,  \* max_attempts of the hand-off
          Points        \* checkpoints after the baseline: early, primary, follow-ups

ASSUME MeasurementAssumption ==
  /\ MaxAttempts \in Nat \ {0}
  /\ Points \in Nat /\ Points >= 2
  /\ Nobody \notin Workers

VARIABLES meas,     \* the row of site_fix_measurements, with its terminal outcome
          handoff,  \* the row of site_fix_measurement_handoff_outbox
          points,   \* the rows of site_fix_measurement_checkpoints
          clock,    \* how many checkpoints have come due, and whether the deadline has
          worker    \* worker[w]: where a run of the tick is

results == <<meas, handoff, points, clock, worker>>

NoPoint == [status |-> "none", waiting |-> FALSE]
NewHandoff == [status |-> "pending", attempts |-> 0, token |-> Nobody, lapsed |-> FALSE,
               waiting |-> FALSE, alert |-> Nobody, notified |-> FALSE]
NoHandoff == [NewHandoff EXCEPT !.status = "none"]
Resting == [pc |-> "rest", at |-> 0]

ResultsInit ==
  /\ meas = [status |-> "none", prospective |-> FALSE, outcome |-> "none"]
  /\ handoff = NoHandoff
  /\ points = [k \in 1 .. Points |-> NoPoint]
  /\ clock = [due |-> 0, late |-> FALSE]
  /\ worker = [w \in Workers |-> Resting]

Works(w, pc) == worker[w].pc = pc
Turns(w, pc) == worker' = [worker EXCEPT ![w] = [pc |-> pc, at |-> 0]]
Rests(w) == worker' = [worker EXCEPT ![w] = Resting]

-----------------------------------------------------------------------------
(* The hand-off.                                                           *)

\* MarkCanonicalSiteFixVerified, in the statement that verifies the fix: what
\* approval planned is handed off; a measurement that is optional waits for a person.
HandsOff ==
  /\ \/ meas' = [meas EXCEPT !.status = "ready"] /\ handoff' = NewHandoff
     \/ UNCHANGED <<meas, handoff>>
  /\ UNCHANGED <<points, clock, worker>>

\* optInCanonicalSiteFixMeasurementIdempotently: one transaction.
OptIn ==
  /\ meas.status = "none"
  /\ meas' = [meas EXCEPT !.status = "ready", !.prospective = TRUE]
  /\ handoff' = NewHandoff
  /\ UNCHANGED <<points, clock, worker>>

\* ClaimSiteFixMeasurementHandoff.
HandoffClaimable ==
  /\ \/ handoff.status \in {"pending", "failed_retryable"} /\ ~handoff.waiting
     \/ handoff.status = "processing" /\ handoff.lapsed
  /\ handoff.attempts < MaxAttempts

ClaimHandoff(w) ==
  /\ Works(w, "rest")
  /\ HandoffClaimable
  /\ handoff' = [handoff EXCEPT !.status = "processing", !.attempts = @ + 1, !.token = w,
                                !.lapsed = FALSE]
  /\ Turns(w, "activate")
  /\ UNCHANGED <<meas, points, clock>>

Unlocked(status) == [handoff EXCEPT !.status = status, !.token = Nobody, !.lapsed = FALSE]

HandoffHeld(w) == handoff.status = "processing" /\ handoff.token = w

\* Seeded fault: the hand-off is completed by its id.
CompletesById(w) == TRUE

\* CompleteSiteFixMeasurementHandoff, the last statement of the activation.
Completes(w) == HandoffHeld(w)

Unfinished == meas.status # "terminal"

Scheduled ==
  [k \in 1 .. Points |-> IF points[k].status = "none" THEN [NoPoint EXCEPT !.status = "open"]
                         ELSE points[k]]

\* activateSiteFixMeasurement: one transaction, undone where a statement finds nothing.
Activate(w) ==
  /\ Works(w, "activate")
  /\ IF Unfinished /\ Completes(w)
       THEN /\ meas' = [meas EXCEPT !.status = "observing"]
            /\ points' = Scheduled
            /\ handoff' = Unlocked("completed")
            /\ Rests(w)
       ELSE UNCHANGED <<meas, points, handoff>> /\ Turns(w, "retry")
  /\ UNCHANGED clock

\* The activation fails at the database.
ActivationFails(w) ==
  /\ Works(w, "activate")
  /\ Turns(w, "retry")
  /\ UNCHANGED <<meas, handoff, points, clock>>

\* RetrySiteFixMeasurementHandoff.
RetryHandoff(w) ==
  /\ Works(w, "retry")
  /\ handoff' =
       IF ~HandoffHeld(w) THEN handoff
       ELSE IF handoff.attempts >= MaxAttempts THEN Unlocked("failed_terminal")
       ELSE [Unlocked("failed_retryable") EXCEPT !.waiting = TRUE]
  /\ Rests(w)
  /\ UNCHANGED <<meas, points, clock>>

\* Seeded fault: one attempt too few counts as the limit.
ExpirableLate ==
  handoff.status = "processing" /\ handoff.lapsed /\ handoff.attempts > MaxAttempts

\* TerminalizeExpiredSiteFixMeasurementHandoffs: nobody claims after the last attempt.
Expirable ==
  handoff.status = "processing" /\ handoff.lapsed /\ handoff.attempts >= MaxAttempts

ExpireHandoff(w) ==
  /\ Works(w, "rest")
  /\ Expirable
  /\ handoff' = Unlocked("failed_terminal")
  /\ UNCHANGED <<meas, points, clock, worker>>

\* ClaimFailedTerminalSiteFixMeasurementHandoffAlert.
ClaimAlert(w) ==
  /\ Works(w, "rest")
  /\ handoff.status = "failed_terminal" /\ ~handoff.notified
  /\ handoff.alert = Nobody \/ handoff.lapsed
  /\ handoff' = [handoff EXCEPT !.alert = w, !.lapsed = FALSE]
  /\ Turns(w, "alert")
  /\ UNCHANGED <<meas, points, clock>>

\* The alert is given, then CompleteFailedTerminalSiteFixMeasurementHandoffAlert.
GiveAlert(w) ==
  /\ Works(w, "alert")
  /\ handoff' =
       IF handoff.status = "failed_terminal" /\ ~handoff.notified /\ handoff.alert = w
         THEN [handoff EXCEPT !.notified = TRUE, !.alert = Nobody, !.lapsed = FALSE]
         ELSE handoff
  /\ Rests(w)
  /\ UNCHANGED <<meas, points, clock>>

-----------------------------------------------------------------------------
(* The checkpoints.                                                        *)

Labels == {"directional", "insufficient"}
Failures == {"unavailable", "broken"}

\* ClaimDueSiteFixMeasurement, and the loop's own test of each checkpoint.
DuePoints ==
  {k \in 1 .. clock.due : points[k].status = "open" /\ (clock.late \/ ~points[k].waiting)}

MeasurementDue == meas.status = "observing" /\ (clock.late \/ DuePoints # {})

Label(says) == IF meas.prospective THEN "insufficient" ELSE says

\* hasLaterSiteFixCheckpoint.
Exhausted(k) == clock.late \/ \A j \in k + 1 .. Points : points[j].status # "open"

\* Seeded fault: the early signal decides as well.
DecisionAtAnyRole(k, says) == Label(says) = "directional" \/ meas.prospective \/ Exhausted(k)

\* siteFixTerminalDecision: the early signal, the first checkpoint, never decides.
TerminalDecision(k, says) ==
  k # 1 /\ (Label(says) = "directional" \/ meas.prospective \/ Exhausted(k))

Computed(S, says) ==
  [k \in 1 .. Points |-> IF k \in S THEN [NoPoint EXCEPT !.status = Label(says[k])] ELSE points[k]]

\* terminalizeSiteFixMeasurement, which closes what is open.
Concludes(rows, outcome) ==
  /\ meas' = [meas EXCEPT !.status = "terminal", !.outcome = outcome]
  /\ points' = [k \in 1 .. Points |-> IF rows[k].status = "open"
                                       THEN [NoPoint EXCEPT !.status = "closed"] ELSE rows[k]]

\* The whole loop runs in one transaction, which the row's lock keeps to one worker.
Halting(says) == {k \in DOMAIN says : says[k] \in Failures \/ TerminalDecision(k, says[k])}

\* No checkpoint decides: the deadline does, if it is past.
EvaluateAll(says) ==
  /\ Halting(says) = {}
  /\ IF clock.late THEN Concludes(Computed(DuePoints, says), "insufficient")
     ELSE points' = Computed(DuePoints, says) /\ UNCHANGED meas
  /\ UNCHANGED worker

FirstHalt(k, says) == k \in Halting(says) /\ \A j \in Halting(says) : k <= j

EvaluateUpTo(k, says) ==
  /\ FirstHalt(k, says) /\ says[k] \in Labels
  /\ Concludes(Computed({j \in DuePoints : j <= k}, says), Label(says[k]))
  /\ UNCHANGED worker

\* The evidence fails: what the transaction has computed is undone, and the worker
\* goes on without the row's lock.
EvaluationFails(w, k, says) ==
  /\ FirstHalt(k, says) /\ says[k] \in Failures
  /\ IF clock.late \/ says[k] = "broken" THEN Turns(w, "end")
     ELSE worker' = [worker EXCEPT ![w] = [pc |-> "defer", at |-> k]]
  /\ UNCHANGED <<meas, points>>

\* processDueSiteFixMeasurement.
Evaluate(w) ==
  /\ Works(w, "rest")
  /\ MeasurementDue
  /\ \E says \in [DuePoints -> Labels \cup Failures] :
       \/ EvaluateAll(says)
       \/ \E k \in DuePoints : EvaluateUpTo(k, says) \/ EvaluationFails(w, k, says)
  /\ UNCHANGED <<handoff, clock>>

\* DeferSiteFixMeasurementCheckpoint.
Defer(w) ==
  LET k == worker[w].at IN
  /\ Works(w, "defer")
  /\ points' = IF points[k].status = "open" THEN [points EXCEPT ![k].waiting = TRUE] ELSE points
  /\ Rests(w)
  /\ UNCHANGED <<meas, handoff, clock>>

\* Seeded fault: a measurement may be concluded again.
ConcludableAgain == TRUE

\* TerminalizeSiteFixMeasurement.
Concludable == Unfinished

\* terminalizeSiteFixEvaluationFailure: one transaction.
EndMeasurement(w) ==
  /\ Works(w, "end")
  /\ IF Concludable THEN Concludes(points, "insufficient") ELSE UNCHANGED <<meas, points>>
  /\ Rests(w)
  /\ UNCHANGED <<handoff, clock>>

-----------------------------------------------------------------------------
(* Time, and workers that die.                                             *)

\* Two minutes from the claim, whatever its worker does.
LeaseLapses ==
  /\ ~handoff.lapsed
  /\ handoff.status = "processing" \/ handoff.alert # Nobody
  /\ handoff' = [handoff EXCEPT !.lapsed = TRUE]
  /\ UNCHANGED <<meas, points, clock, worker>>

\* siteFixHandoffRetryAt: at most an hour.
DelayEnds ==
  /\ \/ handoff.waiting /\ handoff' = [handoff EXCEPT !.waiting = FALSE] /\ UNCHANGED points
     \/ \E k \in 1 .. Points :
          points[k].waiting /\ points' = [points EXCEPT ![k].waiting = FALSE] /\ UNCHANGED handoff
  /\ UNCHANGED <<meas, clock, worker>>

\* The days run from the verification, or from the opting in, however late the activation is.
DayComes ==
  /\ meas.status # "none"
  /\ \/ clock.due < Points /\ clock' = [clock EXCEPT !.due = @ + 1]
     \/ clock.due = Points /\ ~clock.late /\ clock' = [clock EXCEPT !.late = TRUE]
  /\ UNCHANGED <<meas, handoff, points, worker>>

WorkerDies(w) ==
  /\ ~Works(w, "rest")
  /\ Rests(w)
  /\ UNCHANGED <<meas, handoff, points, clock>>

-----------------------------------------------------------------------------
(* The fix and its measurement together.                                   *)

FixVerified == fix.status = "verified"

\* A step of the fix's own: the one that verifies it hands it off.
WithHandoff == IF FixVerified' /\ ~FixVerified THEN HandsOff ELSE UNCHANGED results

Working(w) ==
  \/ ClaimHandoff(w) \/ Activate(w) \/ RetryHandoff(w) \/ ExpireHandoff(w)
  \/ ClaimAlert(w) \/ GiveAlert(w) \/ Evaluate(w) \/ Defer(w) \/ EndMeasurement(w)

Measuring ==
  /\ FixVerified
  /\ \/ OptIn \/ LeaseLapses \/ DelayEnds \/ DayComes
     \/ \E w \in Workers : Working(w) \/ ActivationFails(w) \/ WorkerDies(w)
  /\ UNCHANGED vars

MeasuredInit == Init /\ ResultsInit
MeasuredNext == (Next /\ WithHandoff) \/ Measuring
MeasuredSpec == MeasuredInit /\ [][MeasuredNext]_<<vars, results>>

-----------------------------------------------------------------------------
(* Properties.                                                             *)

ResultsTypeOK ==
  /\ meas \in [status : {"none", "ready", "observing", "terminal"}, prospective : BOOLEAN,
               outcome : Labels \cup {"none"}]
  /\ handoff \in [status : {"none", "pending", "processing", "failed_retryable",
                            "failed_terminal", "completed"},
                  attempts : 0 .. MaxAttempts, token : Workers \cup {Nobody}, lapsed : BOOLEAN,
                  waiting : BOOLEAN, alert : Workers \cup {Nobody}, notified : BOOLEAN]
  /\ points \in [1 .. Points -> [status : Labels \cup {"none", "open", "closed"},
                                 waiting : BOOLEAN]]
  /\ clock \in [due : 0 .. Points, late : BOOLEAN]
  /\ worker \in [Workers -> [pc : {"rest", "activate", "retry", "alert", "defer", "end"},
                             at : 0 .. Points]]

\* Fix, hand-off and measurement never contradict each other: a measurement has its
\* hand-off as soon as the fix is verified (so the tick's reconciliation finds none
\* missing), it runs exactly when the hand-off was completed, and one reported as
\* failed for good never starts afterwards (the hand-off's token;
\* PRD-CiteLoop-Site-Fix-Results-Measurement-Policy.md:277-285).
HandoffAgrees ==
  /\ ResultsTypeOK
  /\ (meas.status # "none") = (handoff.status # "none")
  /\ handoff.status # "none" => FixVerified
  /\ (handoff.status = "completed") = (meas.status \in {"observing", "terminal"})
  /\ (handoff.status = "completed") = (\A k \in 1 .. Points : points[k].status # "none")
  /\ (handoff.status = "processing") = (handoff.token # Nobody)
  /\ handoff.notified => handoff.status = "failed_terminal" /\ meas.status = "ready"

\* A verdict rests on evidence: one checkpoint after the early signal gives a direction,
\* and no other, none does for a prospective observation, and a measurement that runs has
\* a checkpoint left to compute (siteFixTerminalDecision;
\* PRD-CiteLoop-Site-Fix-Results-Measurement-Policy.md:265-267).  One that was deferred may
\* decide after those that follow it.
VerdictHasEvidence ==
  LET deciding == {k \in 2 .. Points : points[k].status = "directional"} IN
  /\ meas.outcome = "directional" <=> deciding # {}
  /\ deciding # {} => ~meas.prospective
  /\ \A j, k \in deciding : j = k
  /\ (meas.status = "observing") = (\E k \in 1 .. Points : points[k].status = "open")

\* What was measured is never measured again: a checkpoint that is computed or closed
\* and an outcome stay as they are, although workers go on without the row's lock
\* (the triggers of 0093_site_fix_measurement_worker.sql).
ResultsAreFinal ==
  [][/\ meas.status = "terminal" => UNCHANGED meas
     /\ \A k \in 1 .. Points :
          points[k].status \in Labels \cup {"closed"} => UNCHANGED points[k]]_results
=============================================================================
