----------------------------- MODULE MCSiteFix -----------------------------
(***************************************************************************)
(* SiteFixMeasurement for TLC: a site fix and then its measurement, with a *)
(* budget of troubles.                                                     *)
(***************************************************************************)
EXTENDS SiteFixMeasurement

CONSTANTS MaxTroubles,  \* bound: errors, deaths and ticks cut short, until the fix is verified
          MaxMishaps    \* bound: the same for its measurement

VARIABLES troubles, mishaps

mcVars == <<vars, results, troubles, mishaps>>

MCInit == MeasuredInit /\ troubles = 0 /\ mishaps = 0

Handed == WithHandoff /\ UNCHANGED <<troubles, mishaps>>

\* The fix has ended, and nobody is left who would look at it, its pull request or its page.
Quiet ==
  /\ ~fix.active
  /\ \A c \in Calls : At(c, "idle")
  /\ \A x \in Ticks \cup People : Is(x, "idle")

\* Bound: commits are only compared with the one a patch was written for, and not after
\* there is a pull request; the base moves only away from such a commit.
BaseMatters ==
  /\ \A a \in DOMAIN hub : hub[a] = "none"
  /\ \/ Last # 0 /\ apps[Last].base = base
     \/ \E c \in Calls : At(c, "prepare") /\ call[c].base = base

\* Bound: what GitHub and the site do afterwards is left out, and of the fixes that have
\* come to rest, which differ in what a measurement never reads, these are measured.
Measured ==
  /\ FixVerified /\ Quiet
  /\ base = 1 /\ live /\ troubles = 0 /\ fix.retries = 0 /\ Last = 1 /\ apps[1].due /\ ~apps[1].aged /\ ~apps[1].expired

Ticks1(t) == Ticking(t) /\ Handed
Passes == Time /\ Handed
Due == (\E a \in DOMAIN apps : ComesDue(a)) /\ Handed
Expiry == (\E a \in DOMAIN apps : Expires(a)) /\ Handed

FixNext ==
  \/ \E c \in Calls : Calling(c) /\ Handed
  \/ \E t \in Ticks : Ticks1(t)
  \/ Person /\ Handed
  \/ Passes
  \/ BaseMatters /\ MovesBase /\ Handed
  \/ ~Quiet /\ (Deploys \/ \E a \in DOMAIN hub : Decides(a)) /\ Handed
  \/ troubles < MaxTroubles /\ troubles' = troubles + 1 /\ Trouble /\ WithHandoff
     /\ UNCHANGED mishaps

\* Between the claim of an alert and its mark a line is logged: the two minutes do not run
\* out there but by a mishap.
Alerting == handoff.alert # Nobody /\ Works(handoff.alert, "alert")

Results == Measured /\ UNCHANGED <<vars, troubles>>

Works1(w) == Results /\ Working(w) /\ UNCHANGED mishaps
Lapse == Results /\ ~Alerting /\ LeaseLapses /\ UNCHANGED mishaps
Delay == Results /\ DelayEnds /\ UNCHANGED mishaps
Day == Results /\ DayComes /\ UNCHANGED mishaps

ResultsNext ==
  \/ \E w \in Workers : Works1(w)
  \/ Lapse \/ Delay \/ Day
  \/ Results /\ OptIn /\ UNCHANGED mishaps
  \/ /\ Results
     /\ mishaps < MaxMishaps /\ mishaps' = mishaps + 1
     /\ \/ \E w \in Workers : ActivationFails(w) \/ WorkerDies(w)
        \/ Alerting /\ LeaseLapses

MCNext == FixNext \/ ResultsNext

Waits == Due \/ Delay
Days == Expiry \/ Day

\* Cron starts both ticks for ever, and the tick of some process gets on; leases, delays
\* and days pass.  (The fix's own waits are over where those of its measurement begin.)
\* Nobody need ask for anything, and a request may stop.
Fairness ==
  /\ \A t \in Ticks : WF_mcVars(Ticks1(t))
  /\ WF_mcVars(\E w \in Workers : Works1(w))
  /\ WF_mcVars(Waits) /\ WF_mcVars(Days) /\ WF_mcVars(Lapse)

MCSpec == MCInit /\ [][MCNext]_mcVars /\ Fairness

\* What becomes of a pull request is noticed, or it is given up; and a merged fix does
\* not wait for its verification for ever: it is verified, or a person is asked, or it has
\* ended (the tick's comment, scheduler.go:1895-1900).
MergesEnd ==
  /\ (Watched /\ hub[Last] \in {"merged", "closed"}) ~> ~Watched
  /\ fix.status \in Verifying ~> fix.status \in {"verified", "failed_retryable", "failed_terminal"}

\* A measurement that was handed off ends with an outcome, whatever its evidence and its
\* workers do, or somebody is told that it never started (PRD-CiteLoop-Site-Fix-Results-
\* Measurement-Policy.md:267, 281).
MeasurementsEnd ==
  (Measured /\ meas.status # "none") ~> (meas.status = "terminal" \/ handoff.notified)
=============================================================================
