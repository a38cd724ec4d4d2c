--------------------------- MODULE FindingFaults ---------------------------
(***************************************************************************)
(* FindingStages, watched: what has gone wrong so far.  The three          *)
(* variables record and forbid nothing; a crash, a failed query, a changed *)
(* configuration, and a lock that goes stale under a handler that is still *)
(* there are faults, however many there are.                               *)
(***************************************************************************)
EXTENDS FindingStages

\* One of the delays between the second attempt and the last outlives a lease
\* (5 minutes after the second attempt, 4 of the lease).
ASSUME FaultsAssumption == \E n \in 2 .. MaxAttempts - 1 : Backoff[n] >= StageLease

VARIABLES faults,     \* faults so far
          overtaken,  \* a lock went stale under its owner
          refused     \* a handler failed in its preamble, or over a fingerprint

watch == <<faults, overtaken, refused>>
fvars == <<vars, watch>>

FInit == Init /\ faults = 0 /\ overtaken = FALSE /\ refused = FALSE

Owned == \E w \in Workers : call[w].pc \notin {"idle", "reclaimed"} /\ FenceHolds(w)

\* The next minute makes the lock of an owned event stale.
Overtakes == row.status = "running" /\ row.lockAge = ReclaimAfter /\ Owned

Works(w) ==
  /\ Step(w)
  /\ refused' = \/ refused
                \/ call[w].pc = "looping" /\ call'[w].pc = "returning"
                \/ call[w].pc = "acquiring" /\ Differs(w)
  /\ UNCHANGED <<faults, overtaken>>

Passes == ~Overtakes /\ Tick /\ UNCHANGED watch

Overtaking ==
  /\ Overtakes /\ Tick
  /\ faults' = faults + 1 /\ overtaken' = TRUE
  /\ UNCHANGED refused

Trouble ==
  /\ Reconfigure \/ \E w \in Workers : StageError(w) \/ Crash(w)
  /\ faults' = faults + 1
  /\ UNCHANGED <<overtaken, refused>>

FNext == Passes \/ Overtaking \/ Trouble \/ \E w \in Workers : Works(w)

FSpec == FInit /\ [][FNext]_fvars

\* One crash, or one failed query, does not cost the event its life: the lease
\* the dead handler left behind runs out before the last attempt that meets it,
\* however late in the life of its lock the handler had taken it.
OneFaultIsSurvived ==
  row.status = "dead" /\ faults <= 1 /\ ~overtaken => refused
=============================================================================
