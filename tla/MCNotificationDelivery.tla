---------------------- MODULE MCNotificationDelivery ----------------------
(***************************************************************************)
(* NotificationDelivery for TLC, with budgets of events, faults and        *)
(* operators' requests.                                                    *)
(***************************************************************************)
EXTENDS NotificationDelivery

CONSTANTS MaxEmits,   \* bound: dispatches of events in a behaviour
          MaxFaults,  \* bound: crashes in a behaviour
          MaxOps      \* bound: retries and deletions in a behaviour

\* One channel hears of events, and the others of its death.
MCSubscribed ==
  LET first == CHOOSE c \in Channels : TRUE IN [event |-> {first}, dead |-> Channels \ {first}]

VARIABLES emits, faults, ops

mcVars == <<vars, emits, faults, ops>>

MCInit == Init /\ emits = 0 /\ faults = 0 /\ ops = 0

Budgets == UNCHANGED <<emits, faults, ops>>
Tick == (\E w \in Workers : List(w)) /\ Budgets
Runs(w) == Works(w) /\ Budgets
Comes(i) == RetryComes(i) /\ Budgets

MCNext ==
  \/ Tick
  \/ \E w \in Workers : Runs(w)
  \/ \E i \in Ids : Comes(i)
  \/ /\ emits < MaxEmits /\ emits' = emits + 1 /\ UNCHANGED <<faults, ops>>
     /\ \E w \in Workers, e \in Events : Emit(w, e)
  \/ /\ faults < MaxFaults /\ faults' = faults + 1 /\ UNCHANGED <<emits, ops>>
     /\ \E w \in Workers : Dies(w)
  \/ /\ ops < MaxOps /\ ops' = ops + 1 /\ UNCHANGED <<emits, faults>>
     /\ Operator

\* Cron starts the worker for ever, requests have a timeout of ten seconds, and a
\* retry time comes.
Fairness ==
  /\ WF_mcVars(Tick)
  /\ \A w \in Workers : WF_mcVars(Runs(w))
  /\ \A i \in Ids : WF_mcVars(Comes(i))

MCSpec == MCInit /\ [][MCNext]_mcVars /\ Fairness

\* Deliveries come to rest: although a late failure turns a sent delivery back to
\* pending, none goes round between sent and pending for ever, and none is left
\* behind by a run that died.
Rests(i) == row[i].status # "pending" \/ i.channel \in deleted

ComesToRest == <>[](\A i \in Ids : Rests(i))

\* i has died for the first time, nobody has been told, and nothing has failed.
Unreported(i) ==
  /\ faults = 0
  /\ row[i].status = "dead"
  /\ \E c \in Subscribers(DeathOf(i)) : row[Delivery(DeathOf(i), c)] = NoRow

\* docs/PRD-CiteLoop-MVP-Closure.md:193 has every death reported.
DeathIsReported == \A i \in {j \in Ids : j.of = None} : Unreported(i) ~> ~Unreported(i)
=============================================================================
