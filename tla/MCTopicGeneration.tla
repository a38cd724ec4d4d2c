------------------------- MODULE MCTopicGeneration -------------------------
(***************************************************************************)
(* TopicGeneration for TLC, with a budget of faults and one of requests.   *)
(***************************************************************************)
EXTENDS TopicGeneration

CONSTANTS MaxFaults,  \* bound: errors and crashes in a behaviour
          MaxOps      \* bound: requests and approvals in a behaviour

VARIABLES faults, ops

mcVars == <<vars, faults, ops>>

MCInit == Init /\ faults = 0 /\ ops = 0

Ticks == (\E w \in Workers : Passes(w)) /\ UNCHANGED <<faults, ops>>
Runs(w) == Works(w) /\ UNCHANGED <<faults, ops>>
Comes(t) == SlotComes(t) /\ UNCHANGED <<faults, ops>>

MCNext ==
  \/ Ticks
  \/ \E w \in Workers : Runs(w)
  \/ \E t \in Topics : Comes(t)
  \/ /\ faults < MaxFaults /\ faults' = faults + 1 /\ UNCHANGED ops
     /\ \E w \in Workers : Fault(w)
  \/ /\ ops < MaxOps /\ ops' = ops + 1 /\ UNCHANGED faults
     /\ Reviews \/ \E w \in Workers : Requests(w)

\* Cron starts both passes for ever, model calls and statements return, and a
\* slot that was given comes.
Fairness ==
  /\ WF_mcVars(Ticks)
  /\ \A w \in Workers : WF_mcVars(Runs(w))
  /\ \A t \in Topics : WF_mcVars(Comes(t))

MCSpec == MCInit /\ [][MCNext]_mcVars /\ Fairness

\* t has a slot or is in generation, and has no draft that counts.
Waits(t) ==
  topic[t].status \in {"scheduled", "generating"} /\ ~Live(t) /\ t \notin disturbed

\* Unless something fails, a topic that was given a slot or put in generation gets
\* its draft, or is taken back: it is not left "generating" with no row to show
\* for it, and does not go round between failure and slot for ever.
DraftsCome == [](faults = 0) => \A t \in Topics : Waits(t) ~> ~Waits(t)

\* handlers_review.go:521 gives the topic of a rejected draft back to the backlog
\* so that it can be picked again.
Forgotten(t) == topic[t].status = "drafted" /\ Of(t) # {} /\ ~Live(t)

RejectedIsPickedAgain == \A t \in Topics : Forgotten(t) ~> ~Forgotten(t)
=============================================================================
