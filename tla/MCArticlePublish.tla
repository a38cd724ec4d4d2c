-------------------------- MODULE MCArticlePublish --------------------------
(***************************************************************************)
(* ArticlePublish for TLC, with a budget of faults and one of operations.  *)
(***************************************************************************)
EXTENDS ArticlePublish

CONSTANTS MaxFaults,  \* bound: errors and crashes in a behaviour
          MaxOps,     \* bound: what operators do, but for first approvals
          FirstPath   \* the slug all articles ask for at first

VARIABLES faults, ops

mcVars == <<vars, faults, ops>>

\* One delay shorter than a tick's period, one longer.
MCDelays == <<1, 2>>

MCInit == Init /\ slug = [a \in Articles |-> FirstPath] /\ faults = 0 /\ ops = 0

Runs(w) == Tick(w) /\ UNCHANGED <<faults, ops>>
Builds(p) == Deploy(p) /\ UNCHANGED <<faults, ops>>
Passes == Pass /\ UNCHANGED <<faults, ops>>

MCNext ==
  \/ Passes
  \/ \E w \in Workers : Runs(w)
  \/ \E p \in Paths : Builds(p)
  \/ \E a \in Articles : /\ SlotReached(a) \/ (art[a].status = "pending_review" /\ Approve(a))
                         /\ UNCHANGED <<faults, ops>>
  \/ /\ faults < MaxFaults /\ faults' = faults + 1 /\ UNCHANGED ops
     /\ \E w \in Workers : Fault(w)
  \/ /\ ops < MaxOps /\ ops' = ops + 1 /\ UNCHANGED faults
     /\ Operator

\* Cron starts ticks for ever, their statements return, the clock runs.
Fairness == WF_mcVars(Passes) /\ \A w \in Workers : WF_mcVars(Runs(w))

MCSpec == MCInit /\ [][MCNext]_mcVars /\ Fairness

\* Nothing is left to do for a: it is published, or an operator is waited for,
\* or its slot, or its retries are spent.
Rests(a) ==
  \/ art[a].status \in {"pending_review", "rejected", "published"}
  \/ art[a].status \in {"approved", "publish_failed"} /\ ~art[a].due
  \/ art[a].status = "publish_failed" /\ art[a].attempts > Len(Delays)

\* If the site is built after every commit, every article comes to rest: an
\* approved one whose slot is reached is published, or tried as often as the
\* table of delays says, and what a late mark of an overlapping tick undid is
\* reconciled.
Converges ==
  (\A p \in Paths : WF_mcVars(Builds(p))) => \A a \in Articles : <>[]Rests(a)

\* Even if the site is never built, no article waits for its URL for ever.
VerificationEnds ==
  \A a \in Articles : art[a].status = "pending_url_verification"
                       ~> art[a].status # "pending_url_verification"

-----------------------------------------------------------------------------
(* What the documents promise and the code does not keep.                  *)

\* PRD-CiteLoop-MVP-Closure.md:452 retries a failed attempt after its delay.
Waits(a) == art[a].status = "publish_failed" /\ art[a].retry \notin {0, Never}

RetriesComeDue == \A a \in Articles : Waits(a) ~> ~Waits(a)
=============================================================================
