-------------------------- MODULE MCFindingStages --------------------------
(***************************************************************************)
(* FindingStages for TLC, with a budget of faults.                         *)
(***************************************************************************)
EXTENDS FindingFaults

CONSTANTS MaxFaults,   \* bound: faults in a behaviour
          FirstConfig  \* where config starts; the others only differ in name

\* Minutes to wait after attempts 1, 2, 3; attempt 4 never waits.  6 stands for
\* 30: leases and locks have all run out by then.
MCBackoff == [n \in 1 .. MaxAttempts |-> IF n = 1 THEN 1 ELSE IF n = 2 THEN 5 ELSE 6]

MCInit == FInit /\ config = FirstConfig

Fault == faults < MaxFaults /\ (Overtaking \/ Trouble)

MCNext == Fault \/ Passes \/ \E w \in Workers : Works(w)

\* Calls are started for ever and their statements return; time passes.
Fairness ==
  /\ WF_fvars(Passes)
  /\ \A w \in Workers : WF_fvars(Works(w))

MCSpec == MCInit /\ [][MCNext]_fvars /\ Fairness

\* The event is settled in the end: whatever a dead handler left, the lock is
\* reclaimed, the lease runs out, and finished stages are not repeated.
FindingSettles == <>(row.status \in Settled)
=============================================================================
