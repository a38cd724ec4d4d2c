------------------------------ MODULE SiteFix ------------------------------
(***************************************************************************)
(* One canonical Doctor site fix, from its approval to a verified page.    *)
(* Three records follow it: the fix, its signature in the work registry,   *)
(* and one application for each patch prepared.  A request applies the fix *)
(* (it has a patch written, claims the application and opens a pull        *)
(* request from the application's own branch), a tick of the scheduler     *)
(* looks for the merge and then at the page, and people approve, give      *)
(* evidence, reopen and terminate.  All of them overlap.                   *)
(*                                                                         *)
(* A state change is one statement that compares the three records again,  *)
(* so a read it repeats is not a step of its own.  Clocks are flags that   *)
(* turn TRUE.  What a patch, a page or a prompt says, the model reviewing  *)
(* a page, writer authority and connection checks (a trouble) are left out.*)
(***************************************************************************)
EXTENDS Integers, Sequences, FiniteSets

CONSTANTS Calls,       \* apply requests
          Ticks,       \* runs of the scheduler's reconciliation
          People,      \* users who give evidence by hand
          MaxRetries,  \* max_retries of the fix
          Bases,       \* commits of the base branch, in their order
          Nobody       \* no claim token

ASSUME SiteFixAssumption ==
  /\ MaxRetries \in Nat
  /\ Bases \in Nat \ {0}
  /\ Nobody \notin Calls
  /\ Ticks \cap People = {}

VARIABLES fix,       \* the row of site_fixes and its row of work_signature_registry
          apps,      \* its rows of site_change_applications, oldest first
          verdicts,  \* its rows of site_fix_verifications
          hub,       \* hub[a]: the pull request of application a, on GitHub
          base,      \* the commit the base branch is at
          live,      \* the production page passes the acceptance tests
          call,      \* call[c]: where an apply request is
          check      \* check[x]: where a tick or a person is

vars == <<fix, apps, verdicts, hub, base, live, call, check>>
outside == <<hub, base, live>>

NewApp(b) == [status |-> "ready_for_pr", reason |-> "none", base |-> b, token |-> Nobody,
              lapsed |-> FALSE, url |-> FALSE, aged |-> FALSE, due |-> TRUE, expired |-> FALSE]

IdleCall == [pc |-> "idle", app |-> 0, base |-> 0, state |-> "none"]
IdleCheck == [pc |-> "idle", status |-> "none", retries |-> 0]

Init ==
  /\ fix = [status |-> "proposed", sig |-> "proposed", active |-> TRUE, retries |-> 0]
  /\ apps = <<>>
  /\ verdicts = {}
  /\ hub = <<>>
  /\ base = 1
  /\ live = FALSE
  /\ call = [c \in Calls |-> IdleCall]
  /\ check = [x \in Ticks \cup People |-> IdleCheck]

At(c, pc) == call[c].pc = pc
Is(x, pc) == check[x].pc = pc

\* The statements ask for the status of the fix and of its signature.
FixIn(status, sig) == fix.status = status /\ fix.sig = sig /\ fix.active
FixAt(statuses) == \E s \in statuses : FixIn(s, s)
Moved(status) == [fix EXCEPT !.status = status, !.sig = status]
Ended(status) == [Moved(status) EXCEPT !.active = FALSE]

\* The latest application.
Last == Len(apps)
LastIn(statuses) == Last # 0 /\ apps[Last].status \in statuses

Rewritten(a, status, reason) ==
  [apps EXCEPT ![a].status = status, ![a].reason = reason]
Released(a, status, reason) ==
  [apps EXCEPT ![a].status = status, ![a].reason = reason, ![a].token = Nobody, ![a].lapsed = FALSE]

-----------------------------------------------------------------------------
(* Preparing.                                                              *)

\* ApproveCanonicalSiteFix.
Approve ==
  /\ FixIn("proposed", "proposed")
  /\ fix' = Moved("approved")
  /\ UNCHANGED <<apps, verdicts, outside, call, check>>

\* An application that failed without a pull request is opened again by the next
\* request, for the failures that another attempt may cure.
CanReopen ==
  /\ FixIn("applying", "executing")
  /\ LastIn({"needs_follow_up"})
  /\ ~apps[Last].url /\ apps[Last].reason = "retryable"

Resume(c) ==
  /\ At(c, "idle")
  /\ \/ CanReopen /\ apps' = Released(Last, "ready_for_pr", "none")
     \/ LastIn({"ready_for_pr", "creating_pr"}) /\ UNCHANGED apps
  /\ call' = [call EXCEPT ![c].pc = "claim", ![c].app = Last]
  /\ UNCHANGED <<fix, verdicts, outside, check>>

\* With no application but failed ones the request has a patch written, for the
\* base branch as it is now.
Preparable == apps = <<>> \/ LastIn({"failed"})

Begin(c) ==
  /\ At(c, "idle")
  /\ Preparable
  /\ \/ FixAt({"approved"}) /\ fix' = Moved("preparing")
     \/ FixAt({"preparing"}) /\ UNCHANGED fix
  /\ call' = [call EXCEPT ![c].pc = "prepare", ![c].base = base]
  /\ UNCHANGED <<apps, verdicts, outside, check>>

\* Seeded fault: the request that prepared it need not find the fix preparing.
StillPreparingLoose == FixAt({"preparing"}) \/ FixIn("applying", "executing")

\* MarkCanonicalSiteFixReadyToApply is the first statement of Finalize.
StillPreparing == FixAt({"preparing"})

\* Finalize: the fix goes to applying and gets its application, in one transaction.
Finalize(c) ==
  /\ At(c, "prepare")
  /\ IF StillPreparing
       THEN /\ fix' = [fix EXCEPT !.status = "applying", !.sig = "executing"]
            /\ apps' = Append(apps, NewApp(call[c].base))
            /\ hub' = Append(hub, "none")
            /\ call' = [call EXCEPT ![c] = [IdleCall EXCEPT !.pc = "claim", !.app = Last + 1]]
       ELSE UNCHANGED <<fix, apps, hub>> /\ call' = [call EXCEPT ![c] = IdleCall]
  /\ UNCHANGED <<verdicts, base, live, check>>

-----------------------------------------------------------------------------
(* Opening the pull request, under a claim of the application that lasts   *)
(* five minutes and is renewed before each request that changes GitHub.    *)

Goes(c, pc) == call' = [call EXCEPT ![c].pc = pc]
Ends(c) == call' = [call EXCEPT ![c] = IdleCall]

Claimable(a) ==
  \/ apps[a].status = "ready_for_pr"
  \/ apps[a].status = "creating_pr" /\ apps[a].lapsed

\* ClaimCanonicalSiteFixGitHubPR.
Claim(c) ==
  LET a == call[c].app IN
  /\ At(c, "claim")
  /\ IF Claimable(a) /\ FixIn("applying", "executing")
       THEN /\ apps' = [apps EXCEPT ![a].status = "creating_pr", ![a].reason = "none",
                                    ![a].token = c, ![a].lapsed = FALSE]
            /\ Goes(c, "look")
       ELSE UNCHANGED apps /\ Ends(c)
  /\ UNCHANGED <<fix, verdicts, outside, check>>

\* Seeded fault: the token is not compared.
HoldsAnyones(c) == apps[call[c].app].status = "creating_pr"

Holds(c) == apps[call[c].app].status = "creating_pr" /\ apps[call[c].app].token = c
HoldsNow(c) == Holds(c) /\ ~apps[call[c].app].lapsed

\* SaveCanonicalSiteFixPreparedPatch, and a look at GitHub.  A pull request from
\* this branch is found again, and without one the base must not have moved.
Look(c) ==
  LET a == call[c].app IN
  /\ At(c, "look")
  /\ IF ~HoldsNow(c) THEN Ends(c)
     ELSE IF hub[a] # "none" THEN call' = [call EXCEPT ![c].pc = "record", ![c].state = hub[a]]
     ELSE IF apps[a].base # base THEN Goes(c, "reset")
     ELSE Goes(c, "renew")
  /\ UNCHANGED <<fix, apps, verdicts, outside, check>>

\* RenewCanonicalSiteFixGitHubPRClaim asks for the token and no more: a claim that
\* has lapsed is renewed if nobody took it.  Without it there is none to fail.
Renewed(c, pc) ==
  /\ IF Holds(c) THEN apps' = [apps EXCEPT ![call[c].app].lapsed = FALSE] /\ Goes(c, pc)
     ELSE UNCHANGED apps /\ Ends(c)
  /\ UNCHANGED <<fix, verdicts, outside, check>>

Renew(c) == At(c, "renew") /\ Renewed(c, "open")

\* openPullRequest; GitHub refuses a second one from a branch, and the first is
\* then found.
Open(c) ==
  LET a == call[c].app
      now == IF hub[a] = "none" THEN "open" ELSE hub[a] IN
  /\ At(c, "open")
  /\ hub' = [hub EXCEPT ![a] = now]
  /\ call' = [call EXCEPT ![c].pc = "record", ![c].state = now]
  /\ UNCHANGED <<fix, apps, verdicts, base, live, check>>

RenewAgain(c) == At(c, "record") /\ Renewed(c, "mark")

RecordedAs(state) ==
  CASE state = "open" -> "github_pr_open"
    [] state = "closed" -> "needs_follow_up"
    [] state = "merged" -> "deployment_pending"

\* MarkCanonicalSiteFixGitHubPR records the state that was seen, or the claim fails.
Mark(c) ==
  LET a == call[c].app
      s == call[c].state IN
  /\ At(c, "mark")
  /\ IF HoldsNow(c) /\ FixIn("applying", "executing")
       THEN /\ apps' = [Released(a, RecordedAs(s), "none") EXCEPT
                          ![a].url = TRUE, ![a].due = (s # "merged")]
            /\ fix' = IF s = "merged" THEN Moved("awaiting_deploy") ELSE fix
            /\ Ends(c)
       ELSE UNCHANGED <<fix, apps>> /\ Goes(c, "fail")
  /\ UNCHANGED <<verdicts, outside, check>>

\* FailCanonicalSiteFixGitHubPRClaim.
FailedClaim(c, reason) ==
  /\ apps' = IF Holds(c) THEN Released(call[c].app, "needs_follow_up", reason) ELSE apps
  /\ Ends(c)

Fail(c) ==
  /\ At(c, "fail")
  /\ FailedClaim(c, "retryable")
  /\ UNCHANGED <<fix, verdicts, outside, check>>

ResetAllowed == \A a \in 1 .. Last - 1 : apps[a].reason # "conflict"

\* ResetCanonicalSiteFixSourceConflictForReprepare: the patch is prepared afresh, once
\* (the same request goes on as if it came again); the second conflict stays, as does
\* one that the database does not take.
Reset(c) ==
  /\ At(c, "reset")
  /\ IF HoldsNow(c) /\ FixIn("applying", "executing") /\ ResetAllowed
       THEN /\ apps' = Released(call[c].app, "failed", "conflict")
            /\ fix' = Moved("preparing")
            /\ Ends(c)
       ELSE UNCHANGED fix /\ FailedClaim(c, "exhausted")
  /\ UNCHANGED <<verdicts, outside, check>>

\* A request fails at GitHub, whose answer may be lost after the fact, at the
\* database, or because its connection or its writer authority is gone.
Troubled(c) ==
  LET a == call[c].app IN
  /\ call[c].pc \in {"prepare", "look", "renew", "open", "record", "mark"}
  /\ hub' \in {hub} \cup
       (IF At(c, "open") /\ hub[a] = "none" THEN {[hub EXCEPT ![a] = "open"]} ELSE {})
  /\ IF At(c, "prepare") THEN Ends(c) ELSE Goes(c, "fail")
  /\ UNCHANGED <<fix, apps, verdicts, base, live, check>>

\* The process dies, or the client hangs up: the claim stays until it lapses.
Dies(c) ==
  /\ ~At(c, "idle")
  /\ Ends(c)
  /\ UNCHANGED <<fix, apps, verdicts, outside, check>>

-----------------------------------------------------------------------------
(* The tick: first the pull request.                                       *)

\* ListCanonicalSiteFixPRsForReconciliation.
Watched == LastIn({"github_pr_open"}) /\ FixIn("applying", "executing")

\* MarkCanonicalSiteFixPRMerged; the page is looked at three minutes later.
NoticeMerge ==
  /\ ~apps[Last].aged /\ hub[Last] = "merged"
  /\ apps' = [Rewritten(Last, "deployment_pending", "none") EXCEPT ![Last].due = FALSE]
  /\ fix' = Moved("awaiting_deploy")

\* MarkCanonicalSiteFixApplyFailure.
NoticeClose ==
  /\ ~apps[Last].aged /\ hub[Last] = "closed"
  /\ apps' = Rewritten(Last, "needs_follow_up", "closed")
  /\ UNCHANGED fix

\* After 14 days GitHub is not asked any more.
GiveUp ==
  /\ apps[Last].aged
  /\ apps' = Rewritten(Last, "needs_follow_up", "unmerged")
  /\ UNCHANGED fix

\* Seeded fault: a pull request that is closed is not noticed.
OutcomeMerged == NoticeMerge \/ GiveUp

Outcome == NoticeMerge \/ NoticeClose \/ GiveUp

ReconcilePR(t) ==
  /\ Is(t, "idle")
  /\ Watched
  /\ Outcome
  /\ UNCHANGED <<verdicts, outside, call, check>>

-----------------------------------------------------------------------------
(* Then the page.                                                          *)

Verifying == {"awaiting_deploy", "verifying", "reopened"}

\* ListCanonicalSiteFixesForVerification, and the rows it works on from here on.
\* A fix that is failed_retryable waits for a person.
TakeUp(t) ==
  /\ Is(t, "idle")
  /\ LastIn({"deployment_pending", "verification_pending", "needs_follow_up"})
  /\ FixAt(Verifying)
  /\ apps[Last].due
  /\ check' = [check EXCEPT ![t] = [pc |-> "fetch", status |-> fix.status, retries |-> fix.retries]]
  /\ UNCHANGED <<fix, apps, verdicts, outside, call>>

Then(x, pc) == check' = [check EXCEPT ![x].pc = pc]
Through(x) == check' = [check EXCEPT ![x] = IdleCheck]

NotYetSeen(x) == check[x].status \in {"awaiting_deploy", "reopened"}

\* The page is fetched and tested.  While the day after the merge lasts, a page that
\* does not pass, or cannot be fetched, is looked at again in five minutes.
Fetch(t) ==
  /\ Is(t, "fetch")
  /\ \E passes \in {live, FALSE} :
       IF passes THEN Then(t, IF NotYetSeen(t) THEN "observe" ELSE "pass") /\ UNCHANGED apps
       ELSE IF apps[Last].expired THEN Then(t, "fail") /\ UNCHANGED apps
       ELSE Through(t) /\ apps' = [apps EXCEPT ![Last].due = FALSE]
  /\ UNCHANGED <<fix, verdicts, outside, call>>

\* MarkCanonicalSiteFixVerifying.
Observable ==
  \/ FixAt({"awaiting_deploy"}) /\ LastIn({"deployment_pending"})
  \/ FixAt({"reopened"}) /\ LastIn({"verification_pending"})

Observe(t) ==
  /\ Is(t, "observe")
  /\ IF Observable
       THEN /\ fix' = Moved("verifying")
            /\ apps' = Rewritten(Last, "verification_pending", apps[Last].reason)
            /\ Then(t, "pass")
       ELSE UNCHANGED <<fix, apps>> /\ Through(t)
  /\ UNCHANGED <<verdicts, outside, call>>

\* The attempt that x reads its evidence for.
Attempt(x) == check[x].retries + 1

\* Seeded fault: an attempt may have two verdicts.
FirstVerdictLoose(x) == TRUE

\* AppendCanonicalSiteFixVerification, with its unique index of attempts.
FirstVerdict(x) == \A v \in verdicts : v.attempt # Attempt(x)

Verdict(x, result) == verdicts \cup {[attempt |-> Attempt(x), result |-> result]}

\* MarkCanonicalSiteFixVerified.
Verifiable ==
  /\ FixAt({"verifying", "failed_retryable", "reopened"})
  /\ LastIn({"verification_pending", "needs_follow_up"})

Verified(x) ==
  /\ fix' = Ended("verified")
  /\ apps' = Rewritten(Last, "verified", "none")
  /\ verdicts' = Verdict(x, "passed")

\* recordCanonicalVerificationPass: one transaction.
Pass(t) ==
  /\ Is(t, "pass")
  /\ IF FirstVerdict(t) /\ Verifiable THEN Verified(t) ELSE UNCHANGED <<fix, apps, verdicts>>
  /\ Through(t)
  /\ UNCHANGED <<outside, call>>

\* MarkCanonicalSiteFixRetryable.
Retryable ==
  /\ FixAt(Verifying)
  /\ fix.retries < MaxRetries
  /\ LastIn({"deployment_pending", "verification_pending", "needs_follow_up"})

\* TerminalizeCanonicalSiteFix, forced, for a fix that the tick has taken up.
Terminable ==
  /\ FixAt(Verifying \cup {"failed_retryable"}) \/ FixIn("applying", "executing")
  /\ LastIn({"ready_for_pr", "creating_pr", "github_pr_open", "deployment_pending",
             "verification_pending", "needs_follow_up"})

\* canonicalRetryClassification.
LastAttempt(x) == check[x].retries >= MaxRetries

RetryLater(t) ==
  /\ ~LastAttempt(t) /\ Retryable
  /\ fix' = [Moved("failed_retryable") EXCEPT !.retries = @ + 1]
  /\ apps' = Rewritten(Last, "needs_follow_up", "failed")

EndHere(t) ==
  /\ LastAttempt(t) /\ Terminable
  /\ fix' = Ended("failed_terminal")
  /\ apps' = Released(Last, "failed", "failed")

\* recordCanonicalVerificationFailure: one transaction.
FailVerification(t) ==
  /\ Is(t, "fail")
  /\ \/ FirstVerdict(t) /\ (RetryLater(t) \/ EndHere(t)) /\ verdicts' = Verdict(t, "failed")
     \/ ~(FirstVerdict(t) /\ IF LastAttempt(t) THEN Terminable ELSE Retryable)
        /\ UNCHANGED <<fix, apps, verdicts>>
  /\ Through(t)
  /\ UNCHANGED <<outside, call>>

\* The tick is cut short.
Stops(t) ==
  /\ ~Is(t, "idle")
  /\ Through(t)
  /\ UNCHANGED <<fix, apps, verdicts, outside, call>>

-----------------------------------------------------------------------------
(* People.                                                                 *)

\* Someone says what the page shows, and the request has read the rows.
ReadForEvidence(p) ==
  /\ Is(p, "idle")
  /\ FixAt(Verifying)
  /\ check' = [check EXCEPT ![p] = [pc |-> "give", status |-> fix.status, retries |-> fix.retries]]
  /\ UNCHANGED <<fix, apps, verdicts, outside, call>>

\* verifyWithAuthenticatedManualEvidence: one transaction.
GiveEvidence(p) ==
  /\ Is(p, "give")
  /\ IF /\ FirstVerdict(p)
        /\ IF NotYetSeen(p) THEN Observable ELSE Verifiable
       THEN Verified(p)
       ELSE UNCHANGED <<fix, apps, verdicts>>
  /\ Through(p)
  /\ UNCHANGED <<outside, call>>

\* ReopenCanonicalSiteFix; the day after the merge is not given again.
Reopen ==
  /\ FixAt({"failed_retryable"}) /\ fix.retries <= MaxRetries
  /\ LastIn({"needs_follow_up"})
  /\ fix' = Moved("reopened")
  /\ apps' = Rewritten(Last, "verification_pending", "none")
  /\ UNCHANGED <<verdicts, outside, call, check>>

\* TerminateCanonicalSiteFixByUser.
Terminate ==
  /\ fix.active
  /\ fix.sig = fix.status \/ FixIn("applying", "executing")
  /\ fix' = Ended("failed_terminal")
  /\ apps' = IF Last = 0 THEN apps ELSE Released(Last, "failed", "terminated")
  /\ UNCHANGED <<verdicts, outside, call, check>>

-----------------------------------------------------------------------------
(* Time, GitHub and the site.                                              *)

\* A claim lasts five minutes from its last renewal, and the request that the
\* renewal is made for is over in thirty seconds.
Lapses(a) ==
  /\ apps[a].status = "creating_pr" /\ ~apps[a].lapsed
  /\ ~At(apps[a].token, "open")
  /\ apps' = [apps EXCEPT ![a].lapsed = TRUE]
  /\ UNCHANGED <<fix, verdicts, outside, call, check>>

Only == UNCHANGED <<fix, verdicts, outside, call, check>>

\* 14 days since the pull request was recorded.
Ages(a) == apps[a].status = "github_pr_open" /\ ~apps[a].aged
           /\ apps' = [apps EXCEPT ![a].aged = TRUE] /\ Only

MergeRecorded(a) ==
  apps[a].status \in {"deployment_pending", "verification_pending", "needs_follow_up"}
  /\ fix.status # "applying"

\* A poll is due, or a person asks for one.
ComesDue(a) == MergeRecorded(a) /\ ~apps[a].due
               /\ apps' = [apps EXCEPT ![a].due = TRUE] /\ Only

\* A day since the merge was recorded.
Expires(a) == MergeRecorded(a) /\ ~apps[a].expired
              /\ apps' = [apps EXCEPT ![a].expired = TRUE] /\ Only

Time == \E a \in DOMAIN apps : Lapses(a) \/ Ages(a) \/ ComesDue(a) \/ Expires(a)

MovesBase == base < Bases /\ base' = base + 1
             /\ UNCHANGED <<fix, apps, verdicts, hub, live, call, check>>

Decides(a) ==
  /\ hub[a] = "open"
  /\ hub' \in {[hub EXCEPT ![a] = s] : s \in {"merged", "closed"}}
  /\ UNCHANGED <<fix, apps, verdicts, base, live, call, check>>

\* The change is deployed, or rolled back.
Deploys ==
  /\ \E a \in DOMAIN hub : hub[a] = "merged"
  /\ live' = ~live
  /\ UNCHANGED <<fix, apps, verdicts, hub, base, call, check>>

-----------------------------------------------------------------------------
(* The next-state relation.                                                *)

Calling(c) ==
  \/ Resume(c) \/ Begin(c) \/ Finalize(c) \/ Claim(c) \/ Look(c) \/ Renew(c) \/ Open(c)
  \/ RenewAgain(c) \/ Mark(c) \/ Fail(c) \/ Reset(c)

Ticking(t) == ReconcilePR(t) \/ TakeUp(t) \/ Fetch(t) \/ Observe(t) \/ Pass(t) \/ FailVerification(t)

Person == Approve \/ Reopen \/ Terminate \/ \E p \in People : ReadForEvidence(p) \/ GiveEvidence(p)

World == Time \/ MovesBase \/ Deploys \/ \E a \in DOMAIN hub : Decides(a)

Trouble == (\E c \in Calls : Troubled(c) \/ Dies(c)) \/ \E t \in Ticks : Stops(t)

Next ==
  \/ \E c \in Calls : Calling(c)
  \/ \E t \in Ticks : Ticking(t)
  \/ Person \/ World \/ Trouble

Spec == Init /\ [][Next]_vars

-----------------------------------------------------------------------------
(* Properties.                                                             *)

FixStatuses ==
  {"proposed", "approved", "preparing", "applying", "awaiting_deploy", "verifying",
   "failed_retryable", "reopened", "verified", "failed_terminal"}

AppStatuses ==
  {"ready_for_pr", "creating_pr", "github_pr_open", "needs_follow_up", "deployment_pending",
   "verification_pending", "verified", "failed"}

TypeOK ==
  /\ fix \in [status : FixStatuses, sig : FixStatuses \cup {"executing"},
              active : BOOLEAN, retries : 0 .. MaxRetries]
  /\ apps \in Seq([status : AppStatuses, base : 1 .. Bases, token : Calls \cup {Nobody},
                   reason : {"none", "retryable", "conflict", "exhausted", "closed", "unmerged",
                             "failed", "terminated"},
                   lapsed : BOOLEAN, url : BOOLEAN, aged : BOOLEAN, due : BOOLEAN,
                   expired : BOOLEAN])
  /\ verdicts \subseteq [attempt : 1 .. MaxRetries + 1, result : {"passed", "failed"}]
  /\ hub \in Seq({"none", "open", "merged", "closed"}) /\ Len(hub) = Len(apps)
  /\ base \in 1 .. Bases /\ live \in BOOLEAN
  /\ call \in [Calls -> [pc : {"idle", "prepare", "claim", "look", "renew", "open", "record",
                               "mark", "fail", "reset"},
                         app : 0 .. Last, base : 0 .. Bases,
                         state : {"none", "open", "merged", "closed"}]]
  /\ check \in [Ticks \cup People ->
                   [pc : {"idle", "fetch", "observe", "pass", "fail", "give"},
                    status : FixStatuses \cup {"none"}, retries : 0 .. MaxRetries]]

\* What the latest application may be while the fix has a status; and what the
\* registry says of it.
AppFor(status) ==
  CASE status \in {"proposed", "approved"} -> {}
    [] status \in {"preparing", "failed_terminal"} -> {"failed"}
    [] status = "applying" -> {"ready_for_pr", "creating_pr", "github_pr_open", "needs_follow_up"}
    [] status = "awaiting_deploy" -> {"deployment_pending"}
    [] status \in {"verifying", "reopened"} -> {"verification_pending"}
    [] status = "failed_retryable" -> {"needs_follow_up"}
    [] status = "verified" -> {"verified"}

SignatureFor(status) == IF status = "applying" THEN "executing" ELSE status

\* The three records of a fix never disagree, whatever overlaps, only its latest
\* application is alive, and past "applying" the change is merged
\* (site_fixes.sql moves them together; PRD-CiteLoop-Two-Line-Workspace.md:1274).
RecordsAgree ==
  /\ TypeOK
  /\ fix.sig = SignatureFor(fix.status)
  /\ fix.active = (fix.status \notin {"verified", "failed_terminal"})
  /\ IF Last = 0 THEN fix.status \in {"proposed", "approved", "preparing", "failed_terminal"}
     ELSE apps[Last].status \in AppFor(fix.status)
  /\ \A a \in 1 .. Last - 1 : apps[a].status = "failed"
  /\ fix.status \in Verifying \cup {"failed_retryable", "verified"} => hub[Last] = "merged"

\* However requests are repeated, cut short and overlap, one fix opens one pull
\* request (docs/superpowers/specs/2026-07-12-site-fix-github-pr-readiness-design.md:133).
OnePullRequest == Cardinality({a \in DOMAIN hub : hub[a] # "none"}) <= 1

\* Each attempt at verification has one verdict: the attempts that failed are those
\* the retries count, and a verified fix passed in the attempt after them.
VerdictsCount ==
  LET ended == fix.status = "failed_terminal"
      failed == {v.attempt : v \in {w \in verdicts : w.result = "failed"}}
      passed == {v.attempt : v \in {w \in verdicts : w.result = "passed"}} IN
  /\ \/ failed = 1 .. fix.retries
     \/ ended /\ fix.retries = MaxRetries /\ failed = 1 .. fix.retries + 1
  /\ passed = IF fix.status = "verified" THEN {fix.retries + 1} ELSE {}
=============================================================================
