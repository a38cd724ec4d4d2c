-------------------------- MODULE MCWorkflowQueue --------------------------
(***************************************************************************)
(* WorkflowQueue for TLC.  The only addition is a budget of faults: calls  *)
(* that die, and locks that expire while their owner is still at work.     *)
(* Without it attempts would grow for ever.  A lock that nobody owns       *)
(* expires for free: that is the recovery, not the fault.                  *)
(***************************************************************************)
EXTENDS WorkflowQueue

CONSTANT MaxFaults   \* bound: faults in a behaviour

VARIABLE faults

mcVars == <<vars, faults>>

Overtaken(e) == \E w \in Workers : Owns(w, e)

MCInit == Init /\ faults = 0

\* Progress of the outbox itself: workers, the clock, recovery.
Run ==
  /\ \/ \E e \in Events : (\E later \in BOOLEAN : Enqueue(e, later)) \/ BecomeDue(e)
     \/ \E e \in Events : ~Overtaken(e) /\ LockExpire(e)
     \/ \E w \in Workers : Process(w)
     \/ \E w \in Workers : \E c \in current[w] : Heartbeat(w, c)
  /\ UNCHANGED faults

Fault ==
  /\ faults < MaxFaults
  /\ \/ \E e \in Events : Overtaken(e) /\ LockExpire(e)
     \/ \E w \in Workers : Abandon(w)
  /\ faults' = faults + 1

MCNext == Run \/ Fault

\* Cron starts calls for ever, statements and handlers return, the clock runs.
\* Nothing obliges anybody to enqueue, to crash or to be slow.
Fairness ==
  /\ \A w \in Workers : WF_mcVars(Process(w) /\ UNCHANGED faults)
  /\ \A e \in Events : /\ WF_mcVars(BecomeDue(e) /\ UNCHANGED faults)
                       /\ WF_mcVars(~Overtaken(e) /\ LockExpire(e) /\ UNCHANGED faults)

MCSpec == MCInit /\ [][MCNext]_mcVars /\ Fairness

\* Every enqueued event is settled in the end, whichever calls died or were
\* overtaken meanwhile, because what they left running is reclaimed.
EveryEventSettles ==
  \A e \in Events : status[e] = "pending" ~> status[e] \in Settled
=============================================================================
