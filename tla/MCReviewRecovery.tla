-------------------------- MODULE MCReviewRecovery --------------------------
(***************************************************************************)
(* ReviewRecovery for TLC, with a budget of troubles: faults and operators.  *)
(***************************************************************************)
EXTENDS ReviewRecovery

CONSTANT MaxTrouble  \* bound: errors, crashes and operators' calls in a behaviour

VARIABLES faults, ops

mcVars == <<rvars, faults, ops>>

MCInit == RInit /\ topic = [t \in Topics |-> Blank] /\ faults = 0 /\ ops = 0

Budgets == UNCHANGED <<faults, ops>>
Ticks(r) == Lists(r) /\ Budgets
Recovery(r) == Recovers(r) /\ Budgets
Runs(w) == Beside(Works(w)) /\ Budgets
Stocks == (\E w \in Workers : Beside(Passes(w))) /\ Budgets

\* Reviewers are interchangeable: when there is trouble once, it may be this one's.
Troubled == IF MaxTrouble = 1 THEN {CHOOSE r \in Reviewers : TRUE} ELSE Reviewers

MCNext ==
  \/ \E r \in Reviewers : Ticks(r) \/ Recovery(r)
  \/ Stocks
  \/ \E w \in Workers : Runs(w)
  \/ \E d \in Drafts : Beside(Publish(d)) /\ Budgets
  \/ /\ faults + ops < MaxTrouble /\ faults' = faults + 1 /\ UNCHANGED ops
     /\ \/ \E r \in Troubled : RevFault(r)
        \/ \E w \in Workers : Beside(Fault(w))
  \/ /\ faults + ops < MaxTrouble /\ ops' = ops + 1 /\ UNCHANGED faults
     /\ \/ \E r \in Troubled, d \in Drafts : Operates(r, d)
        \/ \E w \in Workers, d \in Drafts : Beside(Reject(w, d))

\* Cron starts the passes for ever; model calls and statements return.
Fairness ==
  /\ WF_mcVars(Stocks)
  /\ \A w \in Workers : WF_mcVars(Runs(w))
  /\ \A r \in Reviewers : WF_mcVars(Ticks(r)) /\ WF_mcVars(Recovery(r))

MCSpec == MCInit /\ [][MCNext]_mcVars /\ Fairness

\* The draft of t is blocked and CiteLoop is to handle it: no human has been asked,
\* and nothing has failed so far.
Handled(t) ==
  /\ faults = 0
  /\ \E d \in Of(t) :
       draft[d].status = "pending_review" /\ qa[d].block /\ ~(qa[d].human /\ ~CanFix(qa[d]))

\* A blocked topic does not park, nor go round between one blocked draft and the
\* next: it is cleared or handed to a human in the end.
NeverParks == \A t \in Topics : Handled(t) ~> ~Handled(t)
=============================================================================
