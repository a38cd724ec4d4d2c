--------------------------- MODULE SiteFixProofs ---------------------------
(***************************************************************************)
(* Proofs about SiteFix and SiteFixMeasurement, for any requests, ticks,   *)
(* people, workers and limits.                                             *)
(*                                                                         *)
(* Only the latest application is alive: the others failed in a conflict,  *)
(* before they had a pull request.  Whoever is about to open one holds the *)
(* claim of the latest application, or the fix has been terminated; so a   *)
(* pull request is never opened from an application that gives way to      *)
(* another.  A verdict counts when its attempt has none, and that is the   *)
(* one after those the fix has counted, however old the read is.           *)
(*                                                                         *)
(* A verified fix stays verified, so the measurement's own steps and the   *)
(* step that hands it off are all that change it; the hand-off is locked   *)
(* from the claim to its end, and the row's lock and the label "open" keep *)
(* what was computed from being computed again.                            *)
(***************************************************************************)
EXTENDS SiteFixMeasurement, FiniteSetTheorems, TLAPS

FixRows == [status : FixStatuses, sig : FixStatuses \cup {"executing"},
            active : BOOLEAN, retries : 0 .. MaxRetries]

AppRows == [status : AppStatuses, base : 1 .. Bases, token : Calls \cup {Nobody},
            reason : {"none", "retryable", "conflict", "exhausted", "closed", "unmerged",
                      "failed", "terminated"},
            lapsed : BOOLEAN, url : BOOLEAN, aged : BOOLEAN, due : BOOLEAN, expired : BOOLEAN]

HubStates == {"none", "open", "merged", "closed"}

CallRows(n) == [pc : {"idle", "prepare", "claim", "look", "renew", "open", "record",
                      "mark", "fail", "reset"},
                app : 0 .. n, base : 0 .. Bases, state : HubStates]

CheckRows == [pc : {"idle", "fetch", "observe", "pass", "fail", "give"},
              status : FixStatuses \cup {"none"}, retries : 0 .. MaxRetries]

\* What a request relies on at its position: whoever opens a pull request holds the
\* claim, or the fix was terminated; whoever prepares afresh has seen none.
CallOK(c) ==
  LET n == call[c] IN
  /\ n.pc \notin {"idle", "prepare"} => n.app \in 1 .. Last
  /\ n.pc = "prepare" => n.base \in 1 .. Bases
  /\ n.pc \in {"record", "mark"} =>
       n.state # "none" /\ (n.state = "merged" => hub[n.app] = "merged")
  /\ n.pc = "open" =>
       n.app = Last /\ (fix.status = "failed_terminal" \/ HoldsNow(c))
  /\ n.pc = "reset" => (Holds(c) => hub[n.app] = "none")

CallsSound == \A c \in Calls : CallOK(c)

\* What a check has read is not newer than the fix, which has an application.
ChecksSound ==
  \A x \in Ticks \cup People :
    check[x].retries <= fix.retries /\ (check[x].pc # "idle" => Last # 0)

\* An application that has given way has no pull request.
OnlyLastOpened ==
  /\ \A a \in 1 .. Last - 1 : hub[a] = "none"
  /\ fix.status = "preparing" /\ Last # 0 => hub[Last] = "none"

Inv == RecordsAgree /\ VerdictsCount /\ CallsSound /\ ChecksSound /\ OnlyLastOpened

-----------------------------------------------------------------------------
(* Types.                                                                  *)

LEMMA TypesOK ==
  ASSUME TypeOK
  PROVE  /\ fix \in FixRows
         /\ apps \in Seq(AppRows) /\ Last \in Nat /\ DOMAIN apps = 1 .. Last
         /\ \A a \in 1 .. Last : apps[a] \in AppRows /\ hub[a] \in HubStates
         /\ verdicts \subseteq [attempt : 1 .. MaxRetries + 1, result : {"passed", "failed"}]
         /\ hub \in Seq(HubStates) /\ Len(hub) = Last /\ DOMAIN hub = 1 .. Last
         /\ base \in 1 .. Bases /\ live \in BOOLEAN
         /\ call \in [Calls -> CallRows(Last)]
         /\ check \in [Ticks \cup People -> CheckRows]
<1>1. /\ fix \in FixRows /\ apps \in Seq(AppRows) /\ hub \in Seq(HubStates) /\ Len(hub) = Len(apps)
      /\ verdicts \subseteq [attempt : 1 .. MaxRetries + 1, result : {"passed", "failed"}]
      /\ base \in 1 .. Bases /\ live \in BOOLEAN
      /\ call \in [Calls -> CallRows(Last)]
      /\ check \in [Ticks \cup People -> CheckRows]
  BY DEF TypeOK, FixRows, AppRows, HubStates, CallRows, CheckRows
<1>2. Last \in Nat /\ DOMAIN apps = 1 .. Last /\ DOMAIN hub = 1 .. Last
  BY <1>1 DEF Last
<1>3. \A a \in 1 .. Last : apps[a] \in AppRows /\ hub[a] \in HubStates
  BY <1>1, <1>2
<1> QED
  BY <1>1, <1>2, <1>3 DEF Last

\* The converse; and the same of the next state.
LEMMA TypesGive ==
  ASSUME fix \in FixRows, (apps \in Seq(AppRows)), (hub \in Seq(HubStates)), Len(hub) = Len(apps),
         (verdicts \subseteq [attempt : 1 .. MaxRetries + 1, result : {"passed", "failed"}]),
         (base \in 1 .. Bases), (live \in BOOLEAN),
         (call \in [Calls -> CallRows(Last)]), (check \in [Ticks \cup People -> CheckRows])
  PROVE  TypeOK
BY DEF TypeOK, FixRows, AppRows, HubStates, CallRows, CheckRows, Last

LEMMA TypesKept ==
  ASSUME (fix \in FixRows)', (apps \in Seq(AppRows))', (hub \in Seq(HubStates))', Len(hub)' = Len(apps)',
         (verdicts \subseteq [attempt : 1 .. MaxRetries + 1, result : {"passed", "failed"}])',
         (base \in 1 .. Bases)', (live \in BOOLEAN)',
         (call \in [Calls -> CallRows(Last)])', (check \in [Ticks \cup People -> CheckRows])'
  PROVE  TypeOK'
BY DEF TypeOK, FixRows, AppRows, HubStates, CallRows, CheckRows, Last

LEMMA IdleType ==
  /\ \A n \in Nat : IdleCall \in CallRows(n)
  /\ IdleCall.pc = "idle" /\ IdleCheck.pc = "idle" /\ IdleCheck.retries = 0
  /\ IdleCheck \in CheckRows
BY SiteFixAssumption DEF IdleCall, CallRows, HubStates, IdleCheck, CheckRows, FixStatuses

-----------------------------------------------------------------------------
(* The fix.                                                                *)

\* The row of the fix and that of its signature agree.
FixOK(f) ==
  /\ f \in FixRows
  /\ f.sig = SignatureFor(f.status)
  /\ f.active = (f.status \notin {"verified", "failed_terminal"})

LEMMA FixAgrees == RecordsAgree => FixOK(fix)
BY TypesOK DEF RecordsAgree, FixOK

LEMMA AtStatus ==
  ASSUME RecordsAgree, NEW S \in SUBSET FixStatuses, FixAt(S)
  PROVE  fix.status \in S /\ fix.status # "applying" /\ fix.active
BY DEF FixAt, FixIn, RecordsAgree, SignatureFor

LEMMA MovedIs ==
  ASSUME FixOK(fix), fix.active, NEW s \in FixStatuses \ {"applying"}
  PROVE  /\ Moved(s).status = s /\ Moved(s).retries = fix.retries
         /\ Ended(s).status = s /\ Ended(s).retries = fix.retries
         /\ s \notin {"verified", "failed_terminal"} => FixOK(Moved(s))
         /\ s \in {"verified", "failed_terminal"} => FixOK(Ended(s))
<1>1. fix \in FixRows /\ fix.active = TRUE
  BY DEF FixOK, FixRows
<1>2. Moved(s) \in FixRows /\ Moved(s).status = s /\ Moved(s).sig = s
      /\ Moved(s).retries = fix.retries /\ Moved(s).active = TRUE
  BY <1>1 DEF Moved, FixRows
<1>3. Ended(s) \in FixRows /\ Ended(s).status = s /\ Ended(s).sig = s
      /\ Ended(s).retries = fix.retries /\ Ended(s).active = FALSE
  <2> HIDE DEF Moved
  <2> QED
    BY <1>2 DEF Ended, FixRows
<1> QED
  BY <1>2, <1>3 DEF FixOK, SignatureFor

\* Which latest application a status allows, row by row.
LEMMA AppForIs ==
  /\ AppFor("proposed") = {} /\ AppFor("approved") = {}
  /\ AppFor("preparing") = {"failed"} /\ AppFor("failed_terminal") = {"failed"}
  /\ AppFor("applying") = {"ready_for_pr", "creating_pr", "github_pr_open", "needs_follow_up"}
  /\ AppFor("awaiting_deploy") = {"deployment_pending"}
  /\ AppFor("verifying") = {"verification_pending"} /\ AppFor("reopened") = {"verification_pending"}
  /\ AppFor("failed_retryable") = {"needs_follow_up"} /\ AppFor("verified") = {"verified"}
BY DEF AppFor

\* What the status of the latest application says of the fix.
LEMMA LastSays ==
  ASSUME RecordsAgree, Last # 0
  PROVE  /\ apps[Last].status = "creating_pr" => fix.status = "applying"
         /\ fix.status \notin {"proposed", "approved"}
         /\ fix.status \in {"preparing", "failed_terminal"} => apps[Last].status = "failed"
<1>1. apps[Last].status \in AppFor(fix.status) /\ fix.status \in FixStatuses
  BY TypesOK DEF RecordsAgree, FixRows
<1> QED
  BY <1>1, AppForIs DEF FixStatuses

-----------------------------------------------------------------------------
(* Who holds the claim.                                                    *)

LEMMA ClaimIsLast ==
  ASSUME Inv, NEW c \in Calls, call[c].pc \notin {"idle", "prepare"},
         apps[call[c].app].status # "failed"
  PROVE  call[c].app = Last /\ Last # 0
<1>1. call[c].app \in 1 .. Last /\ Last \in Nat
  BY TypesOK DEF Inv, CallsSound, CallOK, RecordsAgree
<1> QED
  BY <1>1 DEF Inv, RecordsAgree

LEMMA ClaimHolds ==
  ASSUME Inv, NEW c \in Calls, call[c].pc \notin {"idle", "prepare"}, Holds(c)
  PROVE  /\ call[c].app = Last /\ Last # 0
         /\ apps[Last].status = "creating_pr" /\ apps[Last].token = c
         /\ fix.status = "applying" /\ fix.active
<1>1. call[c].app = Last /\ Last # 0
  BY ClaimIsLast DEF Holds
<1>2. apps[Last].status = "creating_pr" /\ apps[Last].token = c
  BY <1>1 DEF Holds
<1> QED
  BY <1>1, <1>2, LastSays DEF Inv, RecordsAgree

\* Nobody is about to open a pull request but for an application that is being created.
LEMMA NobodyOpens ==
  ASSUME Inv, fix.status # "failed_terminal", NEW c \in Calls, call[c].pc = "open"
  PROVE  Last # 0 /\ apps[Last].status = "creating_pr" /\ apps[Last].token = c /\ ~apps[Last].lapsed
<1>1. HoldsNow(c) /\ call[c].app = Last
  BY DEF Inv, CallsSound, CallOK
<1> QED
  BY <1>1, ClaimHolds DEF HoldsNow

-----------------------------------------------------------------------------
(* Steps of a row.                                                         *)

LEMMA AppStep ==
  ASSUME apps \in Seq(AppRows), NEW a \in 1 .. Last, NEW r \in AppRows,
         apps' = [apps EXCEPT ![a] = r]
  PROVE  /\ apps' \in Seq(AppRows) /\ Last' = Last /\ Len(apps') = Last /\ apps'[a] = r
         /\ \A b \in 1 .. Last : b # a => apps'[b] = apps[b]
<1>1. Last \in Nat /\ Last = Len(apps) /\ DOMAIN apps = 1 .. Last
  BY DEF Last
<1>2. apps' \in [1 .. Last -> AppRows]
  BY <1>1
<1>3. apps' \in Seq(AppRows) /\ Len(apps') = Last
  BY <1>1, <1>2
<1> QED
  BY <1>1, <1>3 DEF Last

Reasons ==
  {"none", "retryable", "conflict", "exhausted", "closed", "unmerged", "failed", "terminated"}

LEMMA RewrittenIs ==
  ASSUME apps \in Seq(AppRows), NEW a \in 1 .. Last, NEW s \in AppStatuses, NEW m \in Reasons
  PROVE  \E r \in AppRows :
           /\ Rewritten(a, s, m) = [apps EXCEPT ![a] = r]
           /\ r.status = s /\ r.token = apps[a].token /\ r.lapsed = apps[a].lapsed
<1> DEFINE r == [apps[a] EXCEPT !.status = s, !.reason = m]
<1>1. apps[a] \in AppRows /\ a \in DOMAIN apps
  BY DEF Last
<1>2. r \in AppRows /\ r.status = s /\ r.token = apps[a].token /\ r.lapsed = apps[a].lapsed
  BY <1>1 DEF AppRows, Reasons
<1>3. Rewritten(a, s, m) = [apps EXCEPT ![a] = r]
  BY <1>1 DEF Rewritten
<1> HIDE DEF r
<1> QED
  BY <1>2, <1>3

LEMMA ReleasedIs ==
  ASSUME apps \in Seq(AppRows), NEW a \in 1 .. Last, NEW s \in AppStatuses, NEW m \in Reasons
  PROVE  \E r \in AppRows :
           /\ Released(a, s, m) = [apps EXCEPT ![a] = r]
           /\ r.status = s /\ r.token = Nobody
<1> DEFINE r == [apps[a] EXCEPT !.status = s, !.reason = m, !.token = Nobody, !.lapsed = FALSE]
<1>1. apps[a] \in AppRows /\ a \in DOMAIN apps
  BY DEF Last
<1>2. r \in AppRows /\ r.status = s /\ r.token = Nobody
  BY <1>1 DEF AppRows, Reasons
<1>3. Released(a, s, m) = [apps EXCEPT ![a] = r]
  BY <1>1 DEF Released
<1> HIDE DEF r
<1> QED
  BY <1>2, <1>3

-----------------------------------------------------------------------------
(* What a step has to show.                                                *)

Merged == Verifying \cup {"failed_retryable", "verified"}

LEMMA LastRow ==
  ASSUME Inv, Last # 0, NEW r \in AppRows, apps' = [apps EXCEPT ![Last] = r]
  PROVE  /\ apps' \in Seq(AppRows) /\ Last' = Last /\ Len(apps') = Last /\ apps'[Last] = r
         /\ \A b \in 1 .. Last : b # Last => apps'[b] = apps[b]
<1>1. /\ apps \in Seq(AppRows) /\ Last \in Nat /\ Last \in 1 .. Last
  BY TypesOK DEF Inv, RecordsAgree
<1> QED
  BY <1>1, AppStep

\* A step of the fix and its latest application.
LEMMA LastStep ==
  ASSUME Inv, Last # 0, NEW r \in AppRows, apps' = [apps EXCEPT ![Last] = r],
         FixOK(fix)', r.status \in AppFor(fix.status)', UNCHANGED outside,
         fix.status' \in Merged => hub[Last] = "merged",
         fix.status' = "preparing" => hub[Last] = "none",
         (verdicts \subseteq [attempt : 1 .. MaxRetries + 1, result : {"passed", "failed"}])',
         call' \in [Calls -> CallRows(Last)], (check \in [Ticks \cup People -> CheckRows])',
         CallsSound', ChecksSound', VerdictsCount'
  PROVE  Inv'
<1>1. /\ apps \in Seq(AppRows) /\ Last \in Nat /\ Last \in 1 .. Last
      /\ hub \in Seq(HubStates) /\ Len(hub) = Last /\ base \in 1 .. Bases /\ live \in BOOLEAN
  BY TypesOK DEF Inv, RecordsAgree
<1>2. /\ apps' \in Seq(AppRows) /\ Last' = Last /\ apps'[Last] = r
      /\ \A b \in 1 .. Last : b # Last => apps'[b] = apps[b]
  BY LastRow
<1>3. TypeOK'
  BY <1>1, <1>2, TypesKept DEF outside, FixOK, Last
<1>4. RecordsAgree'
  BY <1>1, <1>2, <1>3 DEF Inv, RecordsAgree, FixOK, outside, Merged
<1>5. OnlyLastOpened'
  BY <1>1, <1>2 DEF Inv, OnlyLastOpened, outside
<1> QED
  BY <1>4, <1>5 DEF Inv

\* What a request relies on that the step is not about.
LEMMA OtherCall ==
  ASSUME Inv, Last # 0, NEW r \in AppRows, apps' = [apps EXCEPT ![Last] = r],
         UNCHANGED hub, NEW d \in Calls, call'[d] = call[d],
         \/ r.status # "creating_pr" \/ r.token # d
         \/ r.status = apps[Last].status /\ r.token = apps[Last].token,
         call[d].pc = "open" =>
           \/ fix.status' = "failed_terminal"
           \/ r.status = "creating_pr" /\ r.token = d /\ ~r.lapsed
  PROVE  CallOK(d)'
<1>1. /\ apps \in Seq(AppRows) /\ Last \in Nat /\ Last \in 1 .. Last
  BY TypesOK DEF Inv, RecordsAgree
<1>2. /\ apps' \in Seq(AppRows) /\ Last' = Last /\ apps'[Last] = r
      /\ \A b \in 1 .. Last : b # Last => apps'[b] = apps[b]
  BY <1>1, AppStep
<1>3. CallOK(d)
  BY DEF Inv, CallsSound
<1>4. ASSUME call[d].pc = "reset", Holds(d)'
      PROVE  Holds(d)
  <2>1. call[d].app \in 1 .. Last
    BY <1>3, <1>4 DEF CallOK
  <2> QED
    BY <1>2, <1>4, <2>1 DEF Holds
<1>5. call[d].pc = "open" => fix.status' = "failed_terminal" \/ HoldsNow(d)'
  BY <1>2, <1>3 DEF CallOK, HoldsNow, Holds
<1> QED
  BY <1>2, <1>3, <1>4, <1>5 DEF CallOK

\* All of them, where the latest application is not, or no longer, being created.
LEMMA CallsUnclaimed ==
  ASSUME Inv, Last # 0, NEW r \in AppRows, apps' = [apps EXCEPT ![Last] = r],
         UNCHANGED <<hub, call>>, r.status # "creating_pr",
         fix.status' = "failed_terminal"
           \/ (fix.status # "failed_terminal" /\ apps[Last].status # "creating_pr")
  PROVE  CallsSound' /\ call' \in [Calls -> CallRows(Last)]
<1>1. ASSUME NEW d \in Calls
      PROVE  CallOK(d)'
  BY NobodyOpens, OtherCall
<1> QED
  BY <1>1, TypesOK DEF CallsSound, Inv, RecordsAgree

\* A request that changes no row and no pull request.
LEMMA CallOnly ==
  ASSUME Inv, NEW c \in Calls, NEW n \in CallRows(Last), call' = [call EXCEPT ![c] = n],
         UNCHANGED <<fix, apps, verdicts, outside, check>>, CallOK(c)'
  PROVE  Inv'
<1>1. /\ call \in [Calls -> CallRows(Last)] /\ Last' = Last
      /\ call' \in [Calls -> CallRows(Last)]
  BY TypesOK DEF Inv, RecordsAgree, Last
<1>2. TypeOK'
  BY <1>1, TypesOK, TypesKept DEF Inv, RecordsAgree, outside, Last
<1>3. ASSUME NEW d \in Calls, d # c
      PROVE  CallOK(d)'
  <2>1. CallOK(d) /\ call'[d] = call[d]
    BY <1>1, <1>3 DEF Inv, CallsSound
  <2> QED
    BY <1>1, <2>1 DEF CallOK, HoldsNow, Holds, outside
<1>4. CallsSound'
  BY <1>3 DEF CallsSound
<1>5. RecordsAgree' /\ ChecksSound' /\ OnlyLastOpened' /\ VerdictsCount'
  BY <1>1, <1>2 DEF Inv, RecordsAgree, ChecksSound, OnlyLastOpened, VerdictsCount, outside, Verifying
<1> QED
  BY <1>4, <1>5 DEF Inv

\* A tick or a person that changes no row.
LEMMA CheckOnly ==
  ASSUME Inv, (check \in [Ticks \cup People -> CheckRows])', ChecksSound',
         UNCHANGED <<fix, apps, verdicts, outside, call>>
  PROVE  Inv'
<1>1. TypeOK'
  BY TypesOK, TypesKept DEF Inv, RecordsAgree, outside, Last
<1>2. RecordsAgree' /\ OnlyLastOpened' /\ VerdictsCount'
  BY <1>1 DEF Inv, RecordsAgree, OnlyLastOpened, VerdictsCount, outside, Verifying, Last
<1>3. CallsSound'
  BY DEF Inv, CallsSound, CallOK, HoldsNow, Holds, outside, Last
<1> QED
  BY <1>2, <1>3 DEF Inv

\* The verdicts, in a step that gives none.
LEMMA NoVerdict ==
  ASSUME VerdictsCount, verdicts' = verdicts, fix.retries' = fix.retries,
         \/ fix.status' = fix.status
         \/ fix.status \notin {"verified", "failed_terminal"} /\ fix.status' # "verified"
  PROVE  VerdictsCount'
BY DEF VerdictsCount

LEMMA ChecksStay ==
  ASSUME ChecksSound, check' = check, fix.retries' = fix.retries, Last' = Last
  PROVE  ChecksSound'
BY DEF ChecksSound

\* A check that ends, or goes on.
LEMMA CheckGoes ==
  ASSUME Inv, NEW x \in Ticks \cup People,
         NEW p \in {"idle", "fetch", "observe", "pass", "fail", "give"},
         check[x].pc # "idle", Then(x, p) \/ Through(x), Last' = Last,
         fix.retries' \in Nat, fix.retries <= fix.retries'
  PROVE  check' \in [Ticks \cup People -> CheckRows] /\ ChecksSound'
<1>1. /\ check \in [Ticks \cup People -> CheckRows] /\ fix.retries \in Nat
      /\ \A y \in Ticks \cup People : check[y].retries \in Nat
  BY TypesOK, SiteFixAssumption DEF Inv, RecordsAgree, FixRows, CheckRows
<1>2. PICK k \in CheckRows :
        /\ check' = [check EXCEPT ![x] = k]
        /\ k.retries <= fix.retries /\ k.retries \in Nat
  <2>1. CASE Through(x)
    <3>1. check' = [check EXCEPT ![x] = IdleCheck]
      BY <2>1 DEF Through
    <3>2. IdleCheck.retries <= fix.retries /\ IdleCheck.retries \in Nat
      BY <1>1, IdleType
    <3> QED
      BY <3>1, <3>2, IdleType
  <2>2. CASE Then(x, p)
    <3> DEFINE k == [check[x] EXCEPT !.pc = p]
    <3>1. k \in CheckRows /\ k.retries = check[x].retries
      BY <1>1 DEF CheckRows
    <3>2. check' = [check EXCEPT ![x] = k]
      BY <2>2 DEF Then
    <3> HIDE DEF k
    <3> QED
      BY <1>1, <3>1, <3>2 DEF Inv, ChecksSound
  <2> QED
    BY <2>1, <2>2
<1> QED
  BY <1>1, <1>2 DEF Inv, ChecksSound

LEMMA JustChecks ==
  ASSUME Inv, NEW x \in Ticks \cup People,
         NEW p \in {"idle", "fetch", "observe", "pass", "fail", "give"},
         check[x].pc # "idle", Then(x, p) \/ Through(x),
         UNCHANGED <<fix, apps, verdicts, outside, call>>
  PROVE  Inv'
<1>1. Last' = Last /\ fix.retries' \in Nat /\ fix.retries <= fix.retries'
  BY TypesOK, SiteFixAssumption DEF Last, Inv, RecordsAgree, FixRows
<1>2. check' \in [Ticks \cup People -> CheckRows] /\ ChecksSound'
  BY <1>1, CheckGoes
<1> QED
  BY <1>2, CheckOnly DEF CheckRows

-----------------------------------------------------------------------------
(* Where a request goes.                                                   *)

LEMMA CallStep ==
  ASSUME Inv, NEW c \in Calls, NEW n \in CallRows(Last), call' = [call EXCEPT ![c] = n]
  PROVE  /\ call' \in [Calls -> CallRows(Last)] /\ call'[c] = n
         /\ \A d \in Calls : d # c => call'[d] = call[d]
BY TypesOK DEF Inv, RecordsAgree

CallPcs == {"idle", "prepare", "claim", "look", "renew", "open", "record", "mark", "fail", "reset"}

LEMMA GoesIs ==
  ASSUME Inv, NEW c \in Calls, NEW p \in CallPcs, Goes(c, p)
  PROVE  \E n \in CallRows(Last) :
           /\ call' = [call EXCEPT ![c] = n]
           /\ n.pc = p /\ n.app = call[c].app /\ n.state = call[c].state
<1> DEFINE n == [call[c] EXCEPT !.pc = p]
<1>1. call[c] \in CallRows(Last)
  BY TypesOK DEF Inv, RecordsAgree
<1>2. n \in CallRows(Last) /\ n.pc = p /\ n.app = call[c].app /\ n.state = call[c].state
  BY <1>1 DEF CallRows, CallPcs
<1>3. call' = [call EXCEPT ![c] = n]
  BY DEF Goes
<1> HIDE DEF n
<1> QED
  BY <1>2, <1>3

LEMMA EndsIs ==
  ASSUME Inv, NEW c \in Calls, Ends(c)
  PROVE  IdleCall \in CallRows(Last) /\ IdleCall.pc = "idle" /\ call' = [call EXCEPT ![c] = IdleCall]
BY IdleType, TypesOK DEF Ends, Inv, RecordsAgree

LEMMA EndsOK ==
  ASSUME NEW c \in Calls, call'[c] = IdleCall
  PROVE  CallOK(c)'
BY IdleType DEF CallOK

\* A request that ends, and nothing else.
LEMMA JustEnds ==
  ASSUME Inv, NEW c \in Calls, Ends(c), UNCHANGED <<fix, apps, verdicts, outside, check>>
  PROVE  Inv'
<1>1. IdleCall \in CallRows(Last) /\ IdleCall.pc = "idle" /\ call' = [call EXCEPT ![c] = IdleCall]
  BY EndsIs
<1>2. call'[c] = IdleCall
  BY <1>1, CallStep
<1>3. CallOK(c)'
  BY <1>2, EndsOK
<1> QED
  BY <1>1, <1>3, CallOnly

\* A request that goes on to a position at which it relies on its application alone.
LEMMA JustGoes ==
  ASSUME Inv, NEW c \in Calls, NEW p \in {"look", "renew", "fail"}, Goes(c, p),
         call[c].pc \notin {"idle", "prepare"},
         UNCHANGED <<fix, apps, verdicts, outside, check>>
  PROVE  Inv'
<1>1. PICK n \in CallRows(Last) :
        /\ call' = [call EXCEPT ![c] = n]
        /\ n.pc = p /\ n.app = call[c].app /\ n.state = call[c].state
  BY GoesIs DEF CallPcs
<1>2. call'[c] = n
  BY <1>1, CallStep
<1>3. n.app \in 1 .. Last
  BY <1>1 DEF Inv, CallsSound, CallOK
<1>4. CallOK(c)'
  BY <1>1, <1>2, <1>3 DEF CallOK, Last
<1> QED
  BY <1>1, <1>4, CallOnly

\* With no application the requests are idle, or prepare.
LEMMA NoAppCalls ==
  ASSUME Inv, Last = 0, NEW c \in Calls
  PROVE  call[c].pc \in {"idle", "prepare"}
BY DEF Inv, CallsSound, CallOK

LEMMA NoAppStep ==
  ASSUME Inv, Last = 0, UNCHANGED <<apps, verdicts, outside, check>>,
         FixOK(fix)', fix.status' \in {"preparing", "approved", "failed_terminal"},
         fix.retries' = fix.retries, fix.active,
         call' \in [Calls -> CallRows(Last)], CallsSound'
  PROVE  Inv'
<1>1. Last' = Last /\ Last = Len(apps)
  BY DEF Last
<1>2. TypeOK'
  BY <1>1, TypesOK, TypesKept DEF Inv, RecordsAgree, outside, FixOK
<1>3. RecordsAgree'
  BY <1>1, <1>2 DEF Inv, RecordsAgree, FixOK, outside, Verifying
<1>4. OnlyLastOpened'
  BY <1>1 DEF OnlyLastOpened, Inv, outside
<1>5. VerdictsCount'
  <2>1. fix.status \notin {"verified", "failed_terminal"} /\ fix.status' # "verified"
    BY DEF Inv, RecordsAgree
  <2> QED
    BY <2>1, NoVerdict DEF Inv
<1>6. ChecksSound'
  BY <1>1, ChecksStay DEF Inv
<1> QED
  BY <1>3, <1>4, <1>5, <1>6 DEF Inv

-----------------------------------------------------------------------------
(* Requests.                                                               *)

LEMMA ApproveStep ==
  ASSUME Inv, Approve
  PROVE  Inv'
<1>1. FixOK(fix) /\ fix.status = "proposed" /\ fix.active
  BY FixAgrees DEF Inv, Approve, FixIn
<1>2. Last = 0
  BY <1>1, LastSays DEF Inv
<1>3. /\ fix' = Moved("approved") /\ FixOK(Moved("approved"))
      /\ Moved("approved").status = "approved" /\ Moved("approved").retries = fix.retries
  BY <1>1, MovedIs DEF Approve, FixStatuses
<1>4. FixOK(fix)' /\ fix.status' = "approved" /\ fix.retries' = fix.retries
  BY <1>3 DEF FixOK
<1>5. UNCHANGED <<apps, verdicts, outside, call, check>>
  BY DEF Approve
<1>6. call' \in [Calls -> CallRows(Last)]
  BY <1>5, TypesOK DEF Inv, RecordsAgree
<1>7. CallsSound'
  BY <1>5, <1>2, NoAppCalls DEF CallsSound, CallOK, Inv, Last
<1> QED
  BY <1>1, <1>2, <1>4, <1>5, <1>6, <1>7, NoAppStep

LEMMA ResumeStep ==
  ASSUME Inv, NEW c \in Calls, Resume(c)
  PROVE  Inv'
<1>1. call[c] \in CallRows(Last) /\ Last \in Nat /\ apps \in Seq(AppRows)
  BY TypesOK DEF Inv, RecordsAgree
<1>2. Last # 0 /\ Last \in 0 .. Last /\ Last \in 1 .. Last
  BY <1>1 DEF Resume, CanReopen, LastIn
<1> DEFINE n == [call[c] EXCEPT !.pc = "claim", !.app = Last]
<1>3. n \in CallRows(Last) /\ n.pc = "claim" /\ n.app = Last
  BY <1>1, <1>2 DEF CallRows
<1>4. call' = [call EXCEPT ![c] = n] /\ UNCHANGED <<fix, verdicts, outside, check>>
  BY DEF Resume
<1> HIDE DEF n
<1>5. /\ call' \in [Calls -> CallRows(Last)] /\ call'[c] = n
      /\ \A d \in Calls : d # c => call'[d] = call[d]
  BY <1>3, <1>4, CallStep
<1>6. Last' = Last => CallOK(c)'
  BY <1>1, <1>2, <1>3, <1>5 DEF CallOK
<1>7. CASE UNCHANGED apps
  <2>1. Last' = Last
    BY <1>7 DEF Last
  <2> QED
    BY <2>1, <1>3, <1>4, <1>6, <1>7, CallOnly
<1>8. CASE CanReopen /\ apps' = Released(Last, "ready_for_pr", "none")
  <2>1. PICK r \in AppRows :
          apps' = [apps EXCEPT ![Last] = r] /\ r.status = "ready_for_pr"
    <3>1. "ready_for_pr" \in AppStatuses /\ "none" \in Reasons
      BY DEF AppStatuses, Reasons
    <3> QED
      BY <1>1, <1>2, <1>8, <3>1, ReleasedIs
  <2>2. /\ fix.status = "applying" /\ apps[Last].status = "needs_follow_up" /\ FixOK(fix)
    BY <1>8, FixAgrees DEF CanReopen, FixIn, LastIn, Inv
  <2>3. Last' = Last
    BY <1>2, <2>1, LastRow
  <2>4. ASSUME NEW d \in Calls, d # c
        PROVE  CallOK(d)'
    <3>1. call[d].pc # "open" /\ call'[d] = call[d]
      BY <2>2, <2>4, <1>5, NobodyOpens
    <3> QED
      BY <3>1, <1>2, <1>4, <2>1, OtherCall DEF outside
  <2>5. CallsSound'
    BY <1>6, <2>3, <2>4 DEF CallsSound
  <2>6. ChecksSound' /\ VerdictsCount'
    BY <1>4, <2>3, ChecksStay, NoVerdict DEF Inv
  <2>7. FixOK(fix)' /\ fix.status' = "applying"
    BY <1>4, <2>2 DEF FixOK
  <2>8. r.status \in AppFor(fix.status)'
    BY <2>1, <2>7, AppForIs
  <2>9. /\ (verdicts \subseteq [attempt : 1 .. MaxRetries + 1, result : {"passed", "failed"}])'
        /\ (check \in [Ticks \cup People -> CheckRows])'
    BY <1>4, TypesOK DEF Inv, RecordsAgree
  <2> QED
    BY <1>2, <1>4, <1>5, <2>1, <2>5, <2>6, <2>7, <2>8, <2>9, LastStep DEF Merged, Verifying
<1> QED
  BY <1>7, <1>8 DEF Resume

LEMMA BeginStep ==
  ASSUME Inv, NEW c \in Calls, Begin(c)
  PROVE  Inv'
<1>1. call[c] \in CallRows(Last) /\ Last \in Nat /\ base \in 1 .. Bases /\ base \in 0 .. Bases
  BY TypesOK, SiteFixAssumption DEF Inv, RecordsAgree
<1> DEFINE n == [call[c] EXCEPT !.pc = "prepare", !.base = base]
<1>2. n \in CallRows(Last) /\ n.pc = "prepare" /\ n.base = base
  BY <1>1 DEF CallRows
<1>3. call' = [call EXCEPT ![c] = n] /\ UNCHANGED <<apps, verdicts, outside, check>>
  BY DEF Begin
<1> HIDE DEF n
<1>4. /\ call' \in [Calls -> CallRows(Last)] /\ call'[c] = n
      /\ \A d \in Calls : d # c => call'[d] = call[d]
  BY <1>2, <1>3, CallStep
<1>5. CallOK(c)'
  BY <1>1, <1>2, <1>4 DEF CallOK
<1>6. CASE FixAt({"approved"}) /\ fix' = Moved("preparing")
  <2>1. fix.status = "approved" /\ fix.active /\ FixOK(fix)
    BY <1>6, AtStatus, FixAgrees DEF Inv, FixStatuses
  <2>2. Last = 0
    BY <2>1, LastSays DEF Inv
  <2>3. /\ FixOK(Moved("preparing"))
        /\ Moved("preparing").status = "preparing" /\ Moved("preparing").retries = fix.retries
    BY <2>1, MovedIs DEF FixStatuses
  <2>4. FixOK(fix)' /\ fix.status' = "preparing" /\ fix.retries' = fix.retries
    BY <1>6, <2>3 DEF FixOK
  <2>5. ASSUME NEW d \in Calls, d # c
        PROVE  CallOK(d)'
    <3>1. call'[d] = call[d] /\ call[d].pc \in {"idle", "prepare"} /\ CallOK(d)
      BY <2>2, <2>5, <1>4, NoAppCalls DEF Inv, CallsSound
    <3> QED
      BY <3>1 DEF CallOK
  <2>6. CallsSound'
    BY <1>5, <2>5 DEF CallsSound
  <2> QED
    BY <1>3, <1>4, <2>1, <2>2, <2>4, <2>6, NoAppStep
<1>7. CASE UNCHANGED fix
  BY <1>2, <1>3, <1>5, <1>7, CallOnly
<1> QED
  BY <1>6, <1>7 DEF Begin

\* A flag of the latest application.
LEMMA FlagStep ==
  ASSUME Inv, Last # 0, NEW r \in AppRows, apps' = [apps EXCEPT ![Last] = r],
         r.status = apps[Last].status, UNCHANGED <<fix, verdicts, outside>>,
         call' \in [Calls -> CallRows(Last)], (check \in [Ticks \cup People -> CheckRows])',
         CallsSound', ChecksSound'
  PROVE  Inv'
<1>1. FixOK(fix)' /\ r.status \in AppFor(fix.status)'
  BY FixAgrees DEF Inv, RecordsAgree, FixOK
<1>2. /\ fix.status' \in Merged => hub[Last] = "merged"
      /\ fix.status' = "preparing" => hub[Last] = "none"
  BY DEF Inv, RecordsAgree, OnlyLastOpened, Merged
<1>3. VerdictsCount'
  BY NoVerdict DEF Inv
<1>4. (verdicts \subseteq [attempt : 1 .. MaxRetries + 1, result : {"passed", "failed"}])'
  BY TypesOK DEF Inv, RecordsAgree
<1> QED
  BY <1>1, <1>2, <1>3, <1>4, LastStep

LEMMA NewAppType ==
  ASSUME NEW b \in 1 .. Bases
  PROVE  NewApp(b) \in AppRows /\ NewApp(b).status = "ready_for_pr"
BY DEF NewApp, AppRows, AppStatuses

\* Preparing is over: no application but the new one may be alive.
LEMMA FinalizeStep ==
  ASSUME Inv, NEW c \in Calls, Finalize(c)
  PROVE  Inv'
<1>1. CASE ~StillPreparing
  BY <1>1, JustEnds DEF Finalize, Ends, outside
<1>2. CASE StillPreparing
  <2>1. /\ fix.status = "preparing" /\ fix.active /\ FixOK(fix) /\ fix \in FixRows
        /\ fix.active = TRUE
    BY <1>2, AtStatus, FixAgrees DEF StillPreparing, Inv, FixStatuses, FixOK, FixRows
  <2>2. /\ apps \in Seq(AppRows) /\ hub \in Seq(HubStates) /\ Last \in Nat /\ Last = Len(apps)
        /\ Last = Len(hub) /\ call \in [Calls -> CallRows(Last)]
        /\ base \in 1 .. Bases /\ live \in BOOLEAN
        /\ verdicts \subseteq [attempt : 1 .. MaxRetries + 1, result : {"passed", "failed"}]
        /\ check \in [Ticks \cup People -> CheckRows]
    BY TypesOK DEF Inv, RecordsAgree, Last
  <2>3. NewApp(call[c].base) \in AppRows /\ NewApp(call[c].base).status = "ready_for_pr"
    BY NewAppType DEF Finalize, At, Inv, CallsSound, CallOK
  <2> DEFINE n == [IdleCall EXCEPT !.pc = "claim", !.app = Last + 1]
  <2>4. n \in CallRows(Last + 1) /\ n.pc = "claim" /\ n.app = Last + 1
    <3>1. IdleCall \in CallRows(Last + 1) /\ Last + 1 \in 0 .. Last + 1
      BY <2>2, IdleType
    <3> QED
      BY <3>1 DEF CallRows
  <2>5. /\ fix' = [fix EXCEPT !.status = "applying", !.sig = "executing"]
        /\ apps' = Append(apps, NewApp(call[c].base)) /\ hub' = Append(hub, "none")
        /\ call' = [call EXCEPT ![c] = n]
        /\ UNCHANGED <<verdicts, base, live, check>>
    BY <1>2 DEF Finalize
  <2> HIDE DEF n
  <2>6. FixOK(fix)' /\ fix.status' = "applying" /\ fix.retries' = fix.retries
    BY <2>1, <2>5 DEF FixOK, FixRows, FixStatuses, SignatureFor
  <2>7. /\ apps' \in Seq(AppRows) /\ Last' = Last + 1 /\ Len(apps)' = Last + 1
        /\ \A a \in 1 .. Last : apps'[a] = apps[a]
        /\ apps'[Last + 1].status = "ready_for_pr"
    BY <2>2, <2>3, <2>5 DEF Last
  <2>8. /\ hub' \in Seq(HubStates) /\ Len(hub)' = Last + 1
        /\ \A a \in 1 .. Last : hub'[a] = hub[a]
        /\ hub'[Last + 1] = "none"
    BY <2>2, <2>5 DEF HubStates
  <2>9. CallRows(Last) \subseteq CallRows(Last + 1)
    BY <2>2 DEF CallRows
  <2>10. /\ call' \in [Calls -> CallRows(Last)'] /\ call'[c] = n
         /\ \A d \in Calls : d # c => call'[d] = call[d]
    <3>1. call' \in [Calls -> CallRows(Last + 1)]
      BY <2>2, <2>4, <2>5, <2>9
    <3>2. CallRows(Last)' = CallRows(Last + 1)
      BY <2>7
    <3> QED
      BY <2>2, <2>5, <3>1, <3>2
  <2>11. ASSUME NEW d \in Calls, d # c
         PROVE  CallOK(d)'
    <3>1. call'[d] = call[d] /\ CallOK(d)
      BY <2>10, <2>11 DEF Inv, CallsSound
    <3>2. call[d].pc # "open"
      BY <2>1, NobodyOpens, LastSays DEF Inv
    <3>3. call[d].pc \notin {"idle", "prepare"} =>
            /\ call[d].app \in 1 .. Last /\ call[d].app \in 1 .. Last + 1
            /\ hub'[call[d].app] = hub[call[d].app] /\ apps'[call[d].app] = apps[call[d].app]
      BY <3>1, <2>2, <2>7, <2>8 DEF CallOK
    <3> QED
      BY <3>1, <3>2, <3>3, <2>7 DEF CallOK, Holds
  <2>12. CallOK(c)'
    BY <2>2, <2>4, <2>7, <2>10 DEF CallOK
  <2>13. CallsSound'
    BY <2>11, <2>12 DEF CallsSound
  <2>14. VerdictsCount'
    BY <2>1, <2>5, <2>6, NoVerdict DEF Inv
  <2>15. ChecksSound'
    BY <2>2, <2>5, <2>6, <2>7 DEF Inv, ChecksSound
  <2>16. TypeOK'
    BY <2>2, <2>5, <2>6, <2>7, <2>8, <2>10, TypesKept DEF FixOK
  <2>17. Last # 0 => apps[Last].status = "failed" /\ hub[Last] = "none"
    BY <2>1, LastSays DEF Inv, OnlyLastOpened
  <2>18. RecordsAgree'
    <3>1. "ready_for_pr" \in AppFor(fix.status)'
      BY <2>6, AppForIs
    <3> QED
      BY <2>2, <2>6, <2>7, <2>16, <2>17, <3>1 DEF Inv, RecordsAgree, FixOK, Verifying
  <2>19. OnlyLastOpened'
    <3>1. ASSUME NEW a \in 1 .. Last
          PROVE  hub'[a] = "none"
      BY <2>2, <2>8, <2>17 DEF Inv, OnlyLastOpened
    <3>2. Last' - 1 = Last /\ fix.status' # "preparing"
      BY <2>2, <2>6, <2>7
    <3> QED
      BY <3>1, <3>2 DEF OnlyLastOpened
  <2> QED
    BY <2>13, <2>14, <2>15, <2>18, <2>19 DEF Inv
<1> QED
  BY <1>1, <1>2

LEMMA ClaimStep ==
  ASSUME Inv, NEW c \in Calls, Claim(c)
  PROVE  Inv'
<1> DEFINE a == call[c].app
<1>1. call[c].pc = "claim" /\ UNCHANGED <<fix, verdicts, outside, check>>
  BY DEF Claim, At
<1>2. CASE ~(Claimable(a) /\ FixIn("applying", "executing"))
  BY <1>1, <1>2, JustEnds DEF Claim
<1>3. CASE Claimable(a) /\ FixIn("applying", "executing")
  <2>1. call[c].app = Last /\ Last # 0 /\ Claimable(Last)
    BY <1>1, <1>3, ClaimIsLast DEF Claimable
  <2>2. apps \in Seq(AppRows) /\ Last \in 1 .. Last /\ apps[Last] \in AppRows /\ Last \in DOMAIN apps
    BY <2>1, TypesOK DEF Inv, RecordsAgree
  <2> DEFINE r == [apps[Last] EXCEPT !.status = "creating_pr", !.reason = "none", !.token = c, !.lapsed = FALSE]
  <2>3. r \in AppRows /\ r.status = "creating_pr" /\ r.token = c /\ r.lapsed = FALSE
    BY <2>2 DEF AppRows, AppStatuses
  <2>4. apps' = [apps EXCEPT ![Last] = r] /\ Goes(c, "look")
    BY <1>3, <2>1, <2>2 DEF Claim
  <2> HIDE DEF r
  <2>5. PICK n \in CallRows(Last) :
          call' = [call EXCEPT ![c] = n] /\ n.pc = "look" /\ n.app = call[c].app
    BY <2>4, GoesIs DEF CallPcs
  <2>6. /\ call' \in [Calls -> CallRows(Last)] /\ call'[c] = n
        /\ \A d \in Calls : d # c => call'[d] = call[d]
    BY <2>5, CallStep
  <2>7. Last' = Last
    BY <2>1, <2>3, <2>4, LastRow
  <2>8. ASSUME NEW d \in Calls, d # c
        PROVE  CallOK(d)'
    <3>1. call'[d] = call[d] /\ UNCHANGED hub
      BY <1>1, <2>6, <2>8 DEF outside
    <3>2. call[d].pc # "open"
      BY <1>3, <2>1, NobodyOpens DEF FixIn, Claimable
    <3> QED
      BY <2>1, <2>3, <2>4, <2>8, <3>1, <3>2, OtherCall
  <2>9. CallOK(c)'
    BY <2>1, <2>2, <2>5, <2>6, <2>7 DEF CallOK
  <2>10. CallsSound'
    BY <2>8, <2>9 DEF CallsSound
  <2>11. ChecksSound' /\ VerdictsCount'
    BY <1>1, <2>7, ChecksStay, NoVerdict DEF Inv
  <2>12. FixOK(fix)' /\ fix.status' = "applying"
    BY <1>1, <1>3, FixAgrees DEF FixOK, FixIn, Inv
  <2>13. r.status \in AppFor(fix.status)'
    BY <2>3, <2>12, AppForIs
  <2>14. /\ (verdicts \subseteq [attempt : 1 .. MaxRetries + 1, result : {"passed", "failed"}])'
         /\ (check \in [Ticks \cup People -> CheckRows])'
    BY <1>1, TypesOK DEF Inv, RecordsAgree
  <2> QED
    BY <1>1, <2>1, <2>3, <2>4, <2>6, <2>10, <2>11, <2>12, <2>13, <2>14, LastStep DEF Merged, Verifying
<1> QED
  BY <1>2, <1>3

LEMMA LookStep ==
  ASSUME Inv, NEW c \in Calls, Look(c)
  PROVE  Inv'
<1> DEFINE a == call[c].app
<1>1. call[c].pc = "look" /\ UNCHANGED <<fix, apps, verdicts, outside, check>> /\ CallOK(c)
  BY DEF Look, At, Inv, CallsSound
<1>2. CASE Ends(c)
  BY <1>1, <1>2, JustEnds
<1>3. CASE Goes(c, "renew")
  BY <1>1, <1>3, JustGoes
<1>4. CASE Goes(c, "reset") /\ hub[a] = "none"
  <2>1. PICK n \in CallRows(Last) :
          call' = [call EXCEPT ![c] = n] /\ n.pc = "reset" /\ n.app = call[c].app
    BY <1>4, GoesIs DEF CallPcs
  <2>2. call'[c] = n
    BY <2>1, CallStep
  <2>3. CallOK(c)'
    BY <1>1, <1>4, <2>1, <2>2 DEF CallOK, Last, outside
  <2> QED
    BY <1>1, <2>1, <2>3, CallOnly
<1>5. CASE hub[a] # "none" /\ call' = [call EXCEPT ![c].pc = "record", ![c].state = hub[a]]
  <2>1. a \in 1 .. Last /\ call[c] \in CallRows(Last) /\ hub[a] \in HubStates
    BY <1>1, TypesOK DEF CallOK, Inv, RecordsAgree
  <2> DEFINE n == [call[c] EXCEPT !.pc = "record", !.state = hub[a]]
  <2>2. n \in CallRows(Last) /\ n.pc = "record" /\ n.state = hub[a] /\ n.app = a
    BY <2>1 DEF CallRows
  <2>3. call' = [call EXCEPT ![c] = n]
    BY <1>5
  <2> HIDE DEF n
  <2>4. call'[c] = n
    BY <2>2, <2>3, CallStep
  <2>5. CallOK(c)'
    BY <1>1, <1>5, <2>1, <2>2, <2>4 DEF CallOK, Last, outside
  <2> QED
    BY <1>1, <2>2, <2>3, <2>5, CallOnly
<1> QED
  BY <1>1, <1>2, <1>3, <1>4, <1>5 DEF Look

LEMMA RenewedStep ==
  ASSUME Inv, NEW c \in Calls, NEW p \in {"open", "mark"}, Renewed(c, p),
         call[c].pc \in {"renew", "record"}, p = "mark" => call[c].pc = "record"
  PROVE  Inv'
<1>1. UNCHANGED <<fix, verdicts, outside, check>>
  BY DEF Renewed
<1>2. CASE ~Holds(c)
  BY <1>1, <1>2, JustEnds DEF Renewed
<1>3. CASE Holds(c)
  <2>1. /\ call[c].app = Last /\ Last # 0 /\ apps[Last].status = "creating_pr"
        /\ apps[Last].token = c
    BY <1>3, ClaimHolds
  <2>2. /\ apps \in Seq(AppRows) /\ Last \in 1 .. Last /\ apps[Last] \in AppRows /\ Last \in DOMAIN apps
    BY <2>1, TypesOK DEF Inv, RecordsAgree
  <2> DEFINE r == [apps[Last] EXCEPT !.lapsed = FALSE]
  <2>3. r \in AppRows /\ r.status = "creating_pr" /\ r.token = c /\ r.lapsed = FALSE
    BY <2>1, <2>2 DEF AppRows
  <2>4. apps' = [apps EXCEPT ![Last] = r] /\ Goes(c, p)
    BY <1>3, <2>1, <2>2 DEF Renewed
  <2> HIDE DEF r
  <2>5. PICK n \in CallRows(Last) :
          /\ call' = [call EXCEPT ![c] = n]
          /\ n.pc = p /\ n.app = call[c].app /\ n.state = call[c].state
    BY <2>4, GoesIs DEF CallPcs
  <2>6. /\ call' \in [Calls -> CallRows(Last)] /\ call'[c] = n
        /\ \A d \in Calls : d # c => call'[d] = call[d]
    BY <2>5, CallStep
  <2>7. Last' = Last /\ apps'[Last] = r
    BY <2>1, <2>3, <2>4, LastRow
  <2>8. ASSUME NEW d \in Calls, d # c
        PROVE  CallOK(d)'
    <3>1. call'[d] = call[d] /\ UNCHANGED hub /\ r.token # d
      BY <1>1, <2>3, <2>6, <2>8 DEF outside
    <3>2. call[d].pc = "open" => fix.status' = "failed_terminal"
      BY <1>1, <2>1, <2>8, NobodyOpens
    <3> QED
      BY <2>1, <2>3, <2>4, <3>1, <3>2, OtherCall
  <2>9. CallOK(c)'
    <3>1. HoldsNow(c)'
      BY <2>1, <2>3, <2>5, <2>6, <2>7 DEF HoldsNow, Holds
    <3>2. CallOK(c) /\ UNCHANGED hub
      BY <1>1 DEF Inv, CallsSound, outside
    <3> QED
      BY <2>1, <2>2, <2>5, <2>6, <2>7, <3>1, <3>2 DEF CallOK
  <2>10. CallsSound'
    BY <2>8, <2>9 DEF CallsSound
  <2>11. ChecksSound'
    BY <1>1, <2>7, ChecksStay DEF Inv
  <2>12. (check \in [Ticks \cup People -> CheckRows])'
    BY <1>1, TypesOK DEF Inv, RecordsAgree
  <2> QED
    BY <1>1, <2>1, <2>3, <2>4, <2>6, <2>10, <2>11, <2>12, FlagStep
<1> QED
  BY <1>2, <1>3

\* A change of a pull request: one that is merged stays merged, and one is opened
\* only by who holds the claim, or after the fix was terminated.
LEMMA HubStep ==
  ASSUME Inv, NEW h \in HubStates, Last # 0, hub' = [hub EXCEPT ![Last] = h],
         hub[Last] = "merged" => h = "merged",
         UNCHANGED <<fix, apps, verdicts, base, live, check>>,
         call' \in [Calls -> CallRows(Last)], CallsSound',
         fix.status # "preparing" \/ h = "none"
  PROVE  Inv'
<1>1. /\ hub \in Seq(HubStates) /\ Last \in Nat /\ Last \in 1 .. Last /\ Len(hub) = Last /\ Len(apps) = Last
      /\ Last' = Last
  BY TypesOK DEF Inv, RecordsAgree, Last
<1>2. /\ hub' \in Seq(HubStates) /\ Len(hub)' = Last /\ hub'[Last] = h
      /\ \A a \in 1 .. Last : a # Last => hub'[a] = hub[a]
  BY <1>1
<1>3. TypeOK'
  BY <1>1, <1>2, TypesOK, TypesKept DEF Inv, RecordsAgree
<1>4. RecordsAgree'
  BY <1>1, <1>2, <1>3 DEF Inv, RecordsAgree
<1>5. OnlyLastOpened'
  BY <1>1, <1>2 DEF Inv, OnlyLastOpened
<1>6. ChecksSound' /\ VerdictsCount'
  BY <1>1, ChecksStay, NoVerdict DEF Inv
<1> QED
  BY <1>4, <1>5, <1>6 DEF Inv

\* What the other requests rely on when c opens a pull request.
LEMMA OpenedOthers ==
  ASSUME Inv, NEW c \in Calls, call[c].pc = "open", NEW h \in HubStates,
         hub' = [hub EXCEPT ![Last] = h], hub[Last] = "merged" => h = "merged",
         UNCHANGED <<fix, apps>>, NEW d \in Calls, d # c, call'[d] = call[d]
  PROVE  CallOK(d)'
<1>1. /\ hub \in Seq(HubStates) /\ Last \in Nat /\ Len(hub) = Last /\ Last' = Last
      /\ CallOK(d) /\ CallOK(c) /\ Last \in 1 .. Last
  BY TypesOK DEF Inv, RecordsAgree, Last, CallsSound, CallOK
<1>2. /\ hub'[Last] = h /\ \A a \in 1 .. Last : a # Last => hub'[a] = hub[a]
  BY <1>1
<1>3. call[d].pc = "reset" /\ Holds(d) => call[d].app # Last
  <2>1. ~(call[d].pc = "reset" /\ Holds(d))
    <3> SUFFICES ASSUME call[d].pc = "reset", Holds(d) PROVE FALSE
      OBVIOUS
    <3>1. apps[Last].token = d /\ fix.status = "applying"
      BY ClaimHolds
    <3>2. apps[Last].token = c
      BY <3>1, NobodyOpens
    <3> QED
      BY <3>1, <3>2
  <2> QED
    BY <2>1
<1>4. Holds(d)' = Holds(d) /\ HoldsNow(d)' = HoldsNow(d)
  BY DEF Holds, HoldsNow
<1> QED
  BY <1>1, <1>2, <1>3, <1>4 DEF CallOK

LEMMA OpenStep ==
  ASSUME Inv, NEW c \in Calls, Open(c)
  PROVE  Inv'
<1> DEFINE now == IF hub[Last] = "none" THEN "open" ELSE hub[Last]
<1>1. call[c].pc = "open" /\ call[c].app = Last /\ UNCHANGED <<fix, apps, verdicts, base, live, check>>
  BY DEF Open, At, Inv, CallsSound, CallOK
<1>2. /\ hub \in Seq(HubStates) /\ Last \in Nat /\ Len(hub) = Last /\ Last' = Last
      /\ Last \in 1 .. Last /\ call[c] \in CallRows(Last) /\ hub[Last] \in HubStates
  BY <1>1, TypesOK DEF Inv, RecordsAgree, Last, CallsSound, CallOK
<1>3. now \in HubStates /\ now # "none" /\ (hub[Last] = "merged" => now = "merged")
  BY <1>2 DEF HubStates
<1> DEFINE n == [call[c] EXCEPT !.pc = "record", !.state = now]
<1>4. n \in CallRows(Last) /\ n.pc = "record" /\ n.state = now /\ n.app = Last
  <2> HIDE DEF now
  <2> QED
    BY <1>1, <1>2, <1>3 DEF CallRows
<1>5. hub' = [hub EXCEPT ![Last] = now] /\ call' = [call EXCEPT ![c] = n]
  BY <1>1 DEF Open
<1> HIDE DEF n, now
<1>6. /\ call' \in [Calls -> CallRows(Last)] /\ call'[c] = n
      /\ \A d \in Calls : d # c => call'[d] = call[d]
  BY <1>4, <1>5, CallStep
<1>7. hub'[Last] = now
  BY <1>2, <1>5
<1>8. ASSUME NEW d \in Calls, d # c
      PROVE  CallOK(d)'
  BY <1>1, <1>3, <1>5, <1>6, <1>8, OpenedOthers
<1>9. CallOK(c)'
  BY <1>2, <1>3, <1>4, <1>6, <1>7 DEF CallOK
<1>10. CallsSound'
  BY <1>8, <1>9 DEF CallsSound
<1>11. fix.status # "preparing"
  BY <1>1, NobodyOpens, LastSays DEF Inv
<1>12. Last # 0
  BY <1>2
<1> QED
  BY <1>1, <1>3, <1>5, <1>6, <1>10, <1>11, <1>12, HubStep

\* Who holds the claim gives it back: nobody else was about to use it.
LEMMA ClaimEnds ==
  ASSUME Inv, NEW c \in Calls, call[c].pc \notin {"idle", "prepare"}, Holds(c), Ends(c),
         NEW r \in AppRows, apps' = [apps EXCEPT ![Last] = r], r.status # "creating_pr",
         UNCHANGED hub
  PROVE  call' \in [Calls -> CallRows(Last)] /\ CallsSound' /\ Last' = Last
<1>1. Last # 0 /\ apps[Last].token = c /\ fix.status = "applying"
  BY ClaimHolds
<1>2. IdleCall \in CallRows(Last) /\ call' = [call EXCEPT ![c] = IdleCall]
  BY EndsIs
<1>3. /\ call' \in [Calls -> CallRows(Last)] /\ call'[c] = IdleCall
      /\ \A d \in Calls : d # c => call'[d] = call[d]
  BY <1>2, CallStep
<1>4. ASSUME NEW d \in Calls, d # c
      PROVE  CallOK(d)'
  <2>1. call'[d] = call[d] /\ call[d].pc # "open"
    BY <1>1, <1>3, <1>4, NobodyOpens
  <2> QED
    BY <1>1, <2>1, OtherCall
<1>5. CallOK(c)'
  BY <1>3, EndsOK
<1> QED
  BY <1>1, <1>3, <1>4, <1>5, LastRow DEF CallsSound

LEMMA FailedClaimStep ==
  ASSUME Inv, NEW c \in Calls, NEW m \in Reasons, call[c].pc \notin {"idle", "prepare"},
         FailedClaim(c, m), UNCHANGED <<fix, verdicts, outside, check>>
  PROVE  Inv'
<1>1. CASE ~Holds(c)
  BY <1>1, JustEnds DEF FailedClaim
<1>2. CASE Holds(c)
  <2>1. /\ call[c].app = Last /\ Last # 0 /\ fix.status = "applying"
        /\ apps \in Seq(AppRows) /\ Last \in 1 .. Last /\ "needs_follow_up" \in AppStatuses
    BY <1>2, ClaimHolds, TypesOK DEF Inv, RecordsAgree, AppStatuses
  <2>2. PICK r \in AppRows : apps' = [apps EXCEPT ![Last] = r] /\ r.status = "needs_follow_up"
    BY <1>2, <2>1, ReleasedIs DEF FailedClaim
  <2>3. call' \in [Calls -> CallRows(Last)] /\ CallsSound' /\ Last' = Last
    BY <1>2, <2>1, <2>2, ClaimEnds DEF FailedClaim, outside
  <2>4. FixOK(fix)' /\ fix.status' = "applying"
    BY <2>1, FixAgrees DEF FixOK, Inv
  <2>5. r.status \in AppFor(fix.status)'
    BY <2>2, <2>4, AppForIs
  <2>6. ChecksSound' /\ VerdictsCount'
    BY <2>3, ChecksStay, NoVerdict DEF Inv
  <2>7. /\ (verdicts \subseteq [attempt : 1 .. MaxRetries + 1, result : {"passed", "failed"}])'
        /\ (check \in [Ticks \cup People -> CheckRows])'
    BY TypesOK DEF Inv, RecordsAgree
  <2> QED
    BY <2>1, <2>2, <2>3, <2>4, <2>5, <2>6, <2>7, LastStep DEF Merged, Verifying
<1> QED
  BY <1>1, <1>2

LEMMA FailStep ==
  ASSUME Inv, NEW c \in Calls, Fail(c)
  PROVE  Inv'
BY FailedClaimStep DEF Fail, At, Reasons

LEMMA MarkStep ==
  ASSUME Inv, NEW c \in Calls, Mark(c)
  PROVE  Inv'
<1> DEFINE s == call[c].state
<1>1. call[c].pc = "mark" /\ UNCHANGED <<verdicts, outside, check>> /\ CallOK(c)
  BY DEF Mark, At, Inv, CallsSound
<1>2. CASE ~(HoldsNow(c) /\ FixIn("applying", "executing"))
  BY <1>1, <1>2, JustGoes DEF Mark
<1>3. CASE HoldsNow(c) /\ FixIn("applying", "executing")
  <2>1. /\ call[c].app = Last /\ Last # 0 /\ fix.status = "applying" /\ fix.active
        /\ apps \in Seq(AppRows) /\ Last \in 1 .. Last /\ FixOK(fix) /\ Holds(c)
    BY <1>1, <1>3, ClaimHolds, TypesOK, FixAgrees DEF Inv, RecordsAgree, HoldsNow
  <2>2. s \in {"open", "closed", "merged"} /\ (s = "merged" => hub[Last] = "merged")
    BY <1>1, <2>1, TypesOK DEF CallOK, Inv, RecordsAgree, CallRows, HubStates
  <2>3. PICK st \in AppStatuses :
          /\ st = RecordedAs(s) /\ st # "creating_pr"
          /\ s = "open" => st = "github_pr_open"
          /\ s = "closed" => st = "needs_follow_up"
          /\ s = "merged" => st = "deployment_pending"
    BY <2>2 DEF RecordedAs, AppStatuses
  <2>4. PICK q \in AppRows :
          Released(Last, RecordedAs(s), "none") = [apps EXCEPT ![Last] = q] /\ q.status = st
    <3>1. "none" \in Reasons
      BY DEF Reasons
    <3>2. PICK q \in AppRows :
            Released(Last, st, "none") = [apps EXCEPT ![Last] = q] /\ q.status = st
      BY <2>1, <3>1, ReleasedIs
    <3> QED
      BY <3>2, <2>3
  <2> DEFINE r == [q EXCEPT !.url = TRUE, !.due = (s # "merged")]
  <2>5. r \in AppRows /\ r.status = st
    BY <2>4 DEF AppRows
  <2>6. apps' = [apps EXCEPT ![Last] = r]
    <3>1. apps' = [Released(Last, RecordedAs(s), "none") EXCEPT ![Last].url = TRUE, ![Last].due = (s # "merged")]
      BY <1>3, <2>1 DEF Mark
    <3>2. Last \in DOMAIN apps
      BY <2>1 DEF Last
    <3> QED
      BY <2>4, <3>1, <3>2
  <2> HIDE DEF r
  <2>7. /\ Ends(c) /\ fix' = IF s = "merged" THEN Moved("awaiting_deploy") ELSE fix
    BY <1>3 DEF Mark
  <2>8. call' \in [Calls -> CallRows(Last)] /\ CallsSound' /\ Last' = Last
    BY <1>1, <2>1, <2>3, <2>5, <2>6, <2>7, ClaimEnds DEF outside
  <2>9. /\ FixOK(fix') /\ fix'.retries = fix.retries
        /\ fix'.status = IF s = "merged" THEN "awaiting_deploy" ELSE "applying"
    BY <2>1, <2>7, MovedIs DEF FixStatuses
  <2>10. FixOK(fix)' /\ fix.retries' = fix.retries
         /\ fix.status' = IF s = "merged" THEN "awaiting_deploy" ELSE "applying"
    BY <2>9 DEF FixOK
  <2>11. r.status \in AppFor(fix.status)'
    BY <2>2, <2>3, <2>5, <2>10, AppForIs
  <2>12. ChecksSound'
    BY <1>1, <2>8, <2>10, ChecksStay DEF Inv
  <2>13. VerdictsCount'
    BY <1>1, <2>1, <2>10, NoVerdict DEF Inv
  <2>14. /\ (verdicts \subseteq [attempt : 1 .. MaxRetries + 1, result : {"passed", "failed"}])'
         /\ (check \in [Ticks \cup People -> CheckRows])'
    BY <1>1, TypesOK DEF Inv, RecordsAgree
  <2>15. fix.status' \in Merged => hub[Last] = "merged"
    BY <2>2, <2>10 DEF Merged, Verifying
  <2>16. fix.status' # "preparing"
    BY <2>10
  <2> QED
    BY <1>1, <2>1, <2>5, <2>6, <2>8, <2>10, <2>11, <2>12, <2>13, <2>14, <2>15, <2>16, LastStep
<1> QED
  BY <1>2, <1>3

\* A patch is prepared afresh: the application that gives way had no pull request.
LEMMA ResetStep ==
  ASSUME Inv, NEW c \in Calls, Reset(c)
  PROVE  Inv'
<1>1. call[c].pc = "reset" /\ UNCHANGED <<verdicts, outside, check>> /\ CallOK(c)
  BY DEF Reset, At, Inv, CallsSound
<1>2. CASE ~(HoldsNow(c) /\ FixIn("applying", "executing") /\ ResetAllowed)
  BY <1>1, <1>2, FailedClaimStep DEF Reset, Reasons
<1>3. CASE HoldsNow(c) /\ FixIn("applying", "executing") /\ ResetAllowed
  <2>1. /\ call[c].app = Last /\ Last # 0 /\ fix.status = "applying" /\ fix.active
        /\ apps \in Seq(AppRows) /\ Last \in 1 .. Last /\ FixOK(fix) /\ Holds(c)
    BY <1>1, <1>3, ClaimHolds, TypesOK, FixAgrees DEF Inv, RecordsAgree, HoldsNow
  <2>2. hub[Last] = "none"
    BY <1>1, <2>1 DEF CallOK
  <2>3. "failed" \in AppStatuses /\ "conflict" \in Reasons
    BY DEF AppStatuses, Reasons
  <2>4. PICK r \in AppRows : apps' = [apps EXCEPT ![Last] = r] /\ r.status = "failed"
    BY <1>3, <2>1, <2>3, ReleasedIs DEF Reset
  <2>5. call' \in [Calls -> CallRows(Last)] /\ CallsSound' /\ Last' = Last
    BY <1>1, <1>3, <2>1, <2>4, ClaimEnds DEF Reset, outside
  <2>6. /\ fix' = Moved("preparing") /\ FixOK(Moved("preparing"))
        /\ Moved("preparing").status = "preparing" /\ Moved("preparing").retries = fix.retries
    BY <1>3, <2>1, MovedIs DEF Reset, FixStatuses
  <2>7. FixOK(fix)' /\ fix.retries' = fix.retries /\ fix.status' = "preparing"
    BY <2>6 DEF FixOK
  <2>8. r.status \in AppFor(fix.status)'
    BY <2>4, <2>7, AppForIs
  <2>9. ChecksSound'
    BY <1>1, <2>5, <2>7, ChecksStay DEF Inv
  <2>10. VerdictsCount'
    BY <1>1, <2>1, <2>7, NoVerdict DEF Inv
  <2>11. /\ (verdicts \subseteq [attempt : 1 .. MaxRetries + 1, result : {"passed", "failed"}])'
         /\ (check \in [Ticks \cup People -> CheckRows])'
    BY <1>1, TypesOK DEF Inv, RecordsAgree
  <2> QED
    BY <1>1, <2>1, <2>2, <2>4, <2>5, <2>7, <2>8, <2>9, <2>10, <2>11, LastStep DEF Merged, Verifying
<1> QED
  BY <1>2, <1>3

LEMMA TroubledStep ==
  ASSUME Inv, NEW c \in Calls, Troubled(c)
  PROVE  Inv'
<1>1. UNCHANGED <<fix, apps, verdicts, base, live, check>> /\ call[c].pc # "idle"
  BY DEF Troubled
<1>2. CASE hub' = hub
  <2>1. CASE Ends(c)
    BY <1>1, <1>2, <2>1, JustEnds DEF outside
  <2>2. CASE Goes(c, "fail") /\ call[c].pc # "prepare"
    BY <1>1, <1>2, <2>2, JustGoes DEF outside
  <2> QED
    BY <2>1, <2>2 DEF Troubled, At
<1>3. CASE /\ call[c].pc = "open" /\ hub[call[c].app] = "none"
           /\ hub' = [hub EXCEPT ![call[c].app] = "open"] /\ Goes(c, "fail")
  <2>1. call[c].app = Last /\ hub[Last] = "none" /\ hub' = [hub EXCEPT ![Last] = "open"]
    BY <1>3 DEF Inv, CallsSound, CallOK
  <2>2. "open" \in HubStates /\ Last \in 1 .. Last /\ Last' = Last /\ Last # 0
    BY <1>1, <1>3, <2>1 DEF HubStates, Inv, CallsSound, CallOK, Last
  <2>3. PICK n \in CallRows(Last) :
          call' = [call EXCEPT ![c] = n] /\ n.pc = "fail" /\ n.app = call[c].app
    BY <1>3, GoesIs DEF CallPcs
  <2>4. /\ call' \in [Calls -> CallRows(Last)] /\ call'[c] = n
        /\ \A d \in Calls : d # c => call'[d] = call[d]
    BY <2>3, CallStep
  <2>5. ASSUME NEW d \in Calls, d # c
        PROVE  CallOK(d)'
    BY <1>1, <1>3, <2>1, <2>2, <2>4, <2>5, OpenedOthers
  <2>6. CallOK(c)'
    BY <2>1, <2>2, <2>3, <2>4 DEF CallOK
  <2>7. CallsSound'
    BY <2>5, <2>6 DEF CallsSound
  <2>8. fix.status # "preparing"
    BY <1>3, NobodyOpens, LastSays DEF Inv
  <2> QED
    BY <1>1, <2>1, <2>2, <2>4, <2>7, <2>8, HubStep
<1> QED
  BY <1>2, <1>3 DEF Troubled, At

LEMMA DiesStep ==
  ASSUME Inv, NEW c \in Calls, Dies(c)
  PROVE  Inv'
BY JustEnds DEF Dies

LEMMA CallingStep ==
  ASSUME Inv, NEW c \in Calls, Calling(c)
  PROVE  Inv'
<1>1. CASE Renew(c)
  BY <1>1, RenewedStep DEF Renew, At
<1>2. CASE RenewAgain(c)
  BY <1>2, RenewedStep DEF RenewAgain, At
<1> QED
  BY <1>1, <1>2, ResumeStep, BeginStep, FinalizeStep, ClaimStep, LookStep, OpenStep, MarkStep,
     FailStep, ResetStep DEF Calling

-----------------------------------------------------------------------------
(* The tick.                                                               *)

\* A step of the tick or of a person to another status of an active fix, which has an
\* application that nobody creates: what is left to show is about the checks.
LEMMA MoveStep ==
  ASSUME Inv, Last # 0, NEW s \in AppStatuses, NEW r \in AppRows,
         apps' = [apps EXCEPT ![Last] = r], r.status = s, s # "creating_pr",
         FixOK(fix'), fix.active, s \in AppFor(fix'.status), fix'.status # "preparing",
         fix'.status \in Merged => hub[Last] = "merged",
         fix'.status = "failed_terminal" \/ apps[Last].status # "creating_pr",
         (verdicts \subseteq [attempt : 1 .. MaxRetries + 1, result : {"passed", "failed"}])',
         (check \in [Ticks \cup People -> CheckRows])', ChecksSound', VerdictsCount',
         UNCHANGED <<outside, call>>
  PROVE  Inv'
<1>1. fix.status # "failed_terminal"
  BY DEF Inv, RecordsAgree
<1>2. CallsSound' /\ call' \in [Calls -> CallRows(Last)]
  BY <1>1, CallsUnclaimed DEF outside
<1>3. FixOK(fix)' /\ r.status \in AppFor(fix.status)'
  BY DEF FixOK
<1> QED
  BY <1>2, <1>3, LastStep

LEMMA SameTypes ==
  ASSUME Inv
  PROVE  /\ verdicts' = verdicts =>
              verdicts' \subseteq [attempt : 1 .. MaxRetries + 1, result : {"passed", "failed"}]
         /\ check' = check => (check \in [Ticks \cup People -> CheckRows])'
BY TypesOK DEF Inv, RecordsAgree, CheckRows

LEMMA LastIs ==
  ASSUME Inv, Last # 0
  PROVE  /\ Last \in 1 .. Last /\ apps \in Seq(AppRows) /\ apps[Last] \in AppRows
         /\ Last \in DOMAIN apps /\ Last \in Nat
BY TypesOK DEF Inv, RecordsAgree

LEMMA ReconcilePRStep ==
  ASSUME Inv, NEW t \in Ticks, ReconcilePR(t)
  PROVE  Inv'
<1>1. /\ Last # 0 /\ apps[Last].status = "github_pr_open" /\ fix.status = "applying" /\ fix.active
      /\ UNCHANGED <<verdicts, outside, call, check>> /\ FixOK(fix)
  BY FixAgrees DEF ReconcilePR, Watched, LastIn, FixIn, Inv
<1>2. /\ Last \in 1 .. Last /\ apps \in Seq(AppRows) /\ Last \in DOMAIN apps
  BY <1>1, LastIs
<1>3. /\ {"deployment_pending", "needs_follow_up"} \subseteq AppStatuses
      /\ {"none", "closed", "unmerged"} \subseteq Reasons
  BY DEF AppStatuses, Reasons
<1>4. CASE NoticeMerge
  <2>1. PICK q \in AppRows :
          /\ Rewritten(Last, "deployment_pending", "none") = [apps EXCEPT ![Last] = q]
          /\ q.status = "deployment_pending"
    BY <1>2, <1>3, RewrittenIs
  <2> DEFINE r == [q EXCEPT !.due = FALSE]
  <2>2. r \in AppRows /\ r.status = "deployment_pending"
    BY <2>1 DEF AppRows
  <2>3. apps' = [apps EXCEPT ![Last] = r]
    BY <1>2, <1>4, <2>1 DEF NoticeMerge
  <2> HIDE DEF r
  <2>4. FixOK(fix') /\ fix'.status = "awaiting_deploy" /\ fix'.retries = fix.retries
    BY <1>1, <1>4, MovedIs DEF NoticeMerge, FixStatuses
  <2>5. hub[Last] = "merged"
    BY <1>4 DEF NoticeMerge
  <2>6. Last' = Last
    BY <1>1, <2>2, <2>3, LastRow
  <2>7. ChecksSound' /\ VerdictsCount'
    BY <1>1, <2>4, <2>6, ChecksStay, NoVerdict DEF Inv
  <2>8. "deployment_pending" \in AppFor(fix'.status)
    BY <2>4, AppForIs
  <2> QED
    BY <1>1, <1>3, <2>2, <2>3, <2>4, <2>5, <2>7, <2>8, SameTypes, MoveStep
<1>5. CASE NoticeClose \/ GiveUp
  <2>1. PICK m \in Reasons : apps' = Rewritten(Last, "needs_follow_up", m) /\ UNCHANGED fix
    BY <1>3, <1>5 DEF NoticeClose, GiveUp
  <2>2. PICK r \in AppRows : apps' = [apps EXCEPT ![Last] = r] /\ r.status = "needs_follow_up"
    BY <1>2, <1>3, <2>1, RewrittenIs
  <2>3. FixOK(fix') /\ fix'.status = "applying" /\ fix'.retries = fix.retries
    BY <1>1, <2>1
  <2>4. Last' = Last
    BY <1>1, <2>2, LastRow
  <2>5. ChecksSound' /\ VerdictsCount'
    BY <1>1, <2>3, <2>4, ChecksStay, NoVerdict DEF Inv
  <2>6. "needs_follow_up" \in AppFor(fix'.status)
    BY <2>3, AppForIs
  <2>7. fix'.status \notin Merged
    BY <2>3 DEF Merged, Verifying
  <2> QED
    BY <1>1, <1>3, <2>2, <2>3, <2>5, <2>6, <2>7, SameTypes, MoveStep
<1> QED
  BY <1>4, <1>5 DEF ReconcilePR, Outcome

\* A check that begins, of a fix that waits for its page.
LEMMA BeginsCheck ==
  ASSUME Inv, NEW x \in Ticks \cup People, NEW p \in {"fetch", "give"}, Last # 0,
         check' = [check EXCEPT ![x] = [pc |-> p, status |-> fix.status, retries |-> fix.retries]],
         UNCHANGED <<fix, apps, verdicts, outside, call>>
  PROVE  Inv'
<1>1. check \in [Ticks \cup People -> CheckRows] /\ fix.retries \in 0 .. MaxRetries /\ fix.status \in FixStatuses
  BY TypesOK DEF Inv, RecordsAgree, FixRows
<1> DEFINE k == [pc |-> p, status |-> fix.status, retries |-> fix.retries]
<1>2. k \in CheckRows /\ k.retries = fix.retries
  BY <1>1 DEF CheckRows
<1> HIDE DEF k
<1>3. check' = [check EXCEPT ![x] = k]
  BY DEF k
<1>4. /\ check' \in [Ticks \cup People -> CheckRows] /\ check'[x] = k
      /\ \A y \in Ticks \cup People : y # x => check'[y] = check[y]
  BY <1>1, <1>2, <1>3
<1>5. ChecksSound'
  BY <1>1, <1>2, <1>4, SiteFixAssumption DEF Inv, ChecksSound, Last
<1> QED
  BY <1>4, <1>5, CheckOnly DEF CheckRows

LEMMA MergedHasApp ==
  ASSUME Inv, fix.status \in Merged
  PROVE  Last # 0 /\ hub[Last] = "merged"
BY DEF Inv, RecordsAgree, Merged, Verifying

LEMMA TakeUpStep ==
  ASSUME Inv, NEW t \in Ticks, TakeUp(t)
  PROVE  Inv'
<1>1. Last # 0
  BY DEF TakeUp, LastIn
<1> QED
  BY <1>1, BeginsCheck DEF TakeUp

LEMMA ReadForEvidenceStep ==
  ASSUME Inv, NEW p \in People, ReadForEvidence(p)
  PROVE  Inv'
<1>1. fix.status \in Merged
  BY AtStatus DEF ReadForEvidence, Inv, Verifying, FixStatuses, Merged
<1> QED
  BY <1>1, MergedHasApp, BeginsCheck DEF ReadForEvidence

LEMMA FetchStep ==
  ASSUME Inv, NEW t \in Ticks, Fetch(t)
  PROVE  Inv'
<1>1. /\ check[t].pc = "fetch" /\ UNCHANGED <<fix, verdicts, outside, call>> /\ Last # 0
  BY DEF Fetch, Is, Inv, ChecksSound
<1>2. ASSUME NEW p \in {"observe", "pass", "fail"}, Then(t, p), UNCHANGED apps
      PROVE  Inv'
  BY <1>1, <1>2, JustChecks
<1>3. CASE Through(t) /\ apps' = [apps EXCEPT ![Last].due = FALSE]
  <2>1. /\ Last \in 1 .. Last /\ apps \in Seq(AppRows) /\ Last \in DOMAIN apps /\ apps[Last] \in AppRows
    BY <1>1, LastIs
  <2> DEFINE r == [apps[Last] EXCEPT !.due = FALSE]
  <2>2. /\ r \in AppRows /\ r.status = apps[Last].status /\ r.token = apps[Last].token
        /\ r.lapsed = apps[Last].lapsed
    BY <2>1 DEF AppRows
  <2>3. apps' = [apps EXCEPT ![Last] = r]
    BY <1>3, <2>1
  <2> HIDE DEF r
  <2>4. Last' = Last
    BY <1>1, <2>2, <2>3, LastRow
  <2>5. fix.retries' \in Nat /\ fix.retries <= fix.retries'
    BY <1>1, TypesOK, SiteFixAssumption DEF Inv, RecordsAgree, FixRows
  <2>6. check' \in [Ticks \cup People -> CheckRows] /\ ChecksSound'
    BY <1>1, <1>3, <2>4, <2>5, CheckGoes
  <2>7. ASSUME NEW d \in Calls
        PROVE  CallOK(d)'
    <3>1. call[d].pc = "open" => fix.status' = "failed_terminal" \/
                                 (r.status = "creating_pr" /\ r.token = d /\ ~r.lapsed)
      BY <1>1, <2>2, NobodyOpens
    <3> QED
      BY <1>1, <2>2, <2>3, <3>1, OtherCall DEF outside
  <2>8. CallsSound' /\ call' \in [Calls -> CallRows(Last)]
    BY <1>1, <2>7, TypesOK DEF CallsSound, Inv, RecordsAgree
  <2>9. (check \in [Ticks \cup People -> CheckRows])'
    BY <2>6 DEF CheckRows
  <2> QED
    BY <1>1, <2>2, <2>3, <2>6, <2>8, <2>9, FlagStep
<1> QED
  BY <1>2, <1>3 DEF Fetch

LEMMA StopsStep ==
  ASSUME Inv, NEW t \in Ticks, Stops(t)
  PROVE  Inv'
<1>1. check[t].pc # "idle" /\ Through(t) /\ UNCHANGED <<fix, apps, verdicts, outside, call>>
  BY DEF Stops, Is
<1>2. "idle" \in {"idle", "fetch", "observe", "pass", "fail", "give"}
  OBVIOUS
<1> QED
  BY <1>1, <1>2, JustChecks

LEMMA ObserveStep ==
  ASSUME Inv, NEW t \in Ticks, Observe(t)
  PROVE  Inv'
<1>1. check[t].pc = "observe" /\ UNCHANGED <<verdicts, outside, call>>
  BY DEF Observe, Is
<1>2. CASE ~Observable
  BY <1>1, <1>2, JustChecks DEF Observe
<1>3. CASE Observable
  <2>1. /\ fix.status \in Merged /\ fix.active /\ FixOK(fix) /\ LastIn({"deployment_pending", "verification_pending"})
    BY <1>3, AtStatus, FixAgrees DEF Observable, Inv, Merged, Verifying, FixStatuses, LastIn
  <2>2. Last # 0 /\ hub[Last] = "merged" /\ apps[Last].status # "creating_pr"
    BY <2>1, MergedHasApp DEF LastIn
  <2>3. /\ Last \in 1 .. Last /\ apps \in Seq(AppRows) /\ apps[Last].reason \in Reasons
        /\ "verification_pending" \in AppStatuses
    BY <2>2, LastIs DEF AppRows, Reasons, AppStatuses
  <2>4. PICK r \in AppRows : apps' = [apps EXCEPT ![Last] = r] /\ r.status = "verification_pending"
    BY <1>3, <2>3, RewrittenIs DEF Observe
  <2>5. FixOK(fix') /\ fix'.status = "verifying" /\ fix'.retries = fix.retries
    BY <1>3, <2>1, MovedIs DEF Observe, FixStatuses
  <2>6. Last' = Last
    BY <2>2, <2>4, LastRow
  <2>7. fix.retries' \in Nat /\ fix.retries <= fix.retries'
    BY <2>5, TypesOK, SiteFixAssumption DEF Inv, RecordsAgree, FixRows
  <2>8. check' \in [Ticks \cup People -> CheckRows] /\ ChecksSound'
    BY <1>1, <1>3, <2>6, <2>7, CheckGoes DEF Observe
  <2>9. (check \in [Ticks \cup People -> CheckRows])'
    BY <2>8 DEF CheckRows
  <2>10. VerdictsCount'
    <3>1. fix.status \notin {"verified", "failed_terminal"}
      BY <2>1 DEF FixOK
    <3> QED
      BY <1>1, <2>5, <3>1, NoVerdict DEF Inv
  <2>11. "verification_pending" \in AppFor(fix'.status)
    BY <2>5, AppForIs
  <2> QED
    BY <1>1, <2>1, <2>2, <2>3, <2>4, <2>5, <2>8, <2>9, <2>10, <2>11, SameTypes, MoveStep
<1> QED
  BY <1>2, <1>3

-----------------------------------------------------------------------------
(* Verdicts.                                                               *)

Failed == {v.attempt : v \in {w \in verdicts : w.result = "failed"}}
Passed == {v.attempt : v \in {w \in verdicts : w.result = "passed"}}

LEMMA CountIs ==
  /\ VerdictsCount <=>
       /\ \/ Failed = 1 .. fix.retries
          \/ fix.status = "failed_terminal" /\ fix.retries = MaxRetries /\ Failed = 1 .. fix.retries + 1
       /\ Passed = IF fix.status = "verified" THEN {fix.retries + 1} ELSE {}
  /\ VerdictsCount' <=>
       /\ \/ Failed' = 1 .. fix.retries'
          \/ fix.status' = "failed_terminal" /\ fix.retries' = MaxRetries /\ Failed' = 1 .. fix.retries' + 1
       /\ Passed' = IF fix.status' = "verified" THEN {fix.retries' + 1} ELSE {}
BY DEF VerdictsCount, Failed, Passed

\* An attempt without a verdict is the one after those that are counted, whenever its
\* number was read.
LEMMA AttemptIsNext ==
  ASSUME Inv, NEW x \in Ticks \cup People, FirstVerdict(x), fix.active
  PROVE  /\ check[x].retries = fix.retries /\ Attempt(x) = fix.retries + 1
         /\ fix.retries \in 0 .. MaxRetries
         /\ Failed = 1 .. fix.retries /\ Passed = {}
<1>1. fix.retries \in Nat /\ fix.retries \in 0 .. MaxRetries /\ check[x].retries \in Nat
      /\ check[x].retries <= fix.retries
  BY TypesOK, SiteFixAssumption DEF Inv, RecordsAgree, FixRows, CheckRows, ChecksSound
<1>2. Failed = 1 .. fix.retries /\ Passed = {}
  BY CountIs DEF Inv, RecordsAgree
<1>3. Attempt(x) \notin Failed
  BY DEF FirstVerdict, Failed
<1> QED
  BY <1>1, <1>2, <1>3 DEF Attempt

LEMMA VerdictAdds ==
  ASSUME NEW x \in Ticks \cup People, NEW r \in {"passed", "failed"}, verdicts' = Verdict(x, r)
  PROVE  /\ r = "passed" => Passed' = Passed \cup {Attempt(x)} /\ Failed' = Failed
         /\ r = "failed" => Failed' = Failed \cup {Attempt(x)} /\ Passed' = Passed
<1> DEFINE v == [attempt |-> Attempt(x), result |-> r]
<1>1. verdicts' = verdicts \cup {v} /\ v.attempt = Attempt(x) /\ v.result = r
  BY DEF Verdict
<1> HIDE DEF v
<1> QED
  BY <1>1 DEF Passed, Failed

LEMMA VerdictType ==
  ASSUME Inv, NEW x \in Ticks \cup People, NEW r \in {"passed", "failed"}, verdicts' = Verdict(x, r)
  PROVE  (verdicts \subseteq [attempt : 1 .. MaxRetries + 1, result : {"passed", "failed"}])'
<1>1. check[x].retries \in 0 .. MaxRetries
      /\ verdicts \subseteq [attempt : 1 .. MaxRetries + 1, result : {"passed", "failed"}]
  BY TypesOK DEF Inv, RecordsAgree, CheckRows
<1>2. Attempt(x) \in 1 .. MaxRetries + 1
  BY <1>1, SiteFixAssumption DEF Attempt
<1> QED
  BY <1>1, <1>2 DEF Verdict

LEMMA VerifiedStep ==
  ASSUME Inv, NEW x \in Ticks \cup People, check[x].pc # "idle", FirstVerdict(x), Verified(x),
         fix.active, fix.status \in Merged, apps[Last].status # "creating_pr",
         Through(x), UNCHANGED <<outside, call>>
  PROVE  Inv'
<1>1. Last # 0 /\ hub[Last] = "merged" /\ FixOK(fix)
  BY MergedHasApp, FixAgrees DEF Inv
<1>2. /\ Last \in 1 .. Last /\ apps \in Seq(AppRows)
      /\ "verified" \in AppStatuses /\ "none" \in Reasons
  BY <1>1, LastIs DEF AppStatuses, Reasons
<1>3. PICK r \in AppRows : apps' = [apps EXCEPT ![Last] = r] /\ r.status = "verified"
  BY <1>2, RewrittenIs DEF Verified
<1>4. FixOK(fix') /\ fix'.status = "verified" /\ fix'.retries = fix.retries
  BY <1>1, MovedIs DEF Verified, FixStatuses
<1>5. Last' = Last
  BY <1>1, <1>3, LastRow
<1>6. fix.retries' \in Nat /\ fix.retries <= fix.retries'
  BY <1>4, TypesOK, SiteFixAssumption DEF Inv, RecordsAgree, FixRows
<1>7. check' \in [Ticks \cup People -> CheckRows] /\ ChecksSound'
  BY <1>5, <1>6, CheckGoes
<1>8. (check \in [Ticks \cup People -> CheckRows])'
  BY <1>7 DEF CheckRows
<1>9. VerdictsCount'
  <2>1. /\ Attempt(x) = fix.retries + 1 /\ Failed = 1 .. fix.retries /\ Passed = {}
    BY AttemptIsNext
  <2>2. Passed' = {fix.retries + 1} /\ Failed' = 1 .. fix.retries
    BY <2>1, VerdictAdds DEF Verified
  <2> QED
    BY <1>4, <2>2, CountIs
<1>10. (verdicts \subseteq [attempt : 1 .. MaxRetries + 1, result : {"passed", "failed"}])'
  BY VerdictType DEF Verified
<1>11. "verified" \in AppFor(fix'.status)
  BY <1>4, AppForIs
<1> QED
  BY <1>1, <1>2, <1>3, <1>4, <1>7, <1>8, <1>9, <1>10, <1>11, MoveStep

LEMMA PassStep ==
  ASSUME Inv, NEW t \in Ticks, Pass(t)
  PROVE  Inv'
<1>1. check[t].pc = "pass" /\ Through(t) /\ UNCHANGED <<outside, call>>
  BY DEF Pass, Is
<1>2. CASE UNCHANGED <<fix, apps, verdicts>>
  BY <1>1, <1>2, JustChecks
<1>3. CASE FirstVerdict(t) /\ Verifiable /\ Verified(t)
  <2>1. /\ fix.active /\ fix.status \in Merged /\ apps[Last].status # "creating_pr"
    BY <1>3, AtStatus DEF Verifiable, Inv, Merged, Verifying, FixStatuses, LastIn
  <2> QED
    BY <1>1, <1>3, <2>1, VerifiedStep
<1> QED
  BY <1>2, <1>3 DEF Pass

LEMMA GiveEvidenceStep ==
  ASSUME Inv, NEW p \in People, GiveEvidence(p)
  PROVE  Inv'
<1>1. check[p].pc = "give" /\ Through(p) /\ UNCHANGED <<outside, call>>
  BY DEF GiveEvidence, Is
<1>2. CASE UNCHANGED <<fix, apps, verdicts>>
  BY <1>1, <1>2, JustChecks
<1>3. CASE FirstVerdict(p) /\ (Observable \/ Verifiable) /\ Verified(p)
  <2>1. /\ fix.active /\ fix.status \in Merged /\ apps[Last].status # "creating_pr"
    BY <1>3, AtStatus DEF Observable, Verifiable, Inv, Merged, Verifying, FixStatuses, LastIn
  <2> QED
    BY <1>1, <1>3, <2>1, VerifiedStep
<1> QED
  BY <1>2, <1>3 DEF GiveEvidence

LEMMA RetryLaterStep ==
  ASSUME Inv, NEW t \in Ticks, check[t].pc # "idle", FirstVerdict(t), RetryLater(t),
         verdicts' = Verdict(t, "failed"), Through(t), UNCHANGED <<outside, call>>
  PROVE  Inv'
<1>1. /\ fix.active /\ fix.status \in Merged /\ FixOK(fix) /\ apps[Last].status # "creating_pr"
      /\ fix.retries < MaxRetries
  BY AtStatus, FixAgrees DEF RetryLater, Retryable, Inv, Verifying, FixStatuses, Merged, LastIn
<1>2. Last # 0 /\ hub[Last] = "merged"
  BY <1>1, MergedHasApp
<1>3. /\ Last \in 1 .. Last /\ apps \in Seq(AppRows)
      /\ "needs_follow_up" \in AppStatuses /\ "failed" \in Reasons
  BY <1>2, LastIs DEF AppStatuses, Reasons
<1>4. PICK r \in AppRows : apps' = [apps EXCEPT ![Last] = r] /\ r.status = "needs_follow_up"
  BY <1>3, RewrittenIs DEF RetryLater
<1>5. /\ Attempt(t) = fix.retries + 1 /\ Failed = 1 .. fix.retries /\ Passed = {}
      /\ fix.retries \in 0 .. MaxRetries
  BY <1>1, AttemptIsNext
<1> DEFINE m == Moved("failed_retryable")
<1>6. FixOK(m) /\ m.status = "failed_retryable" /\ m.retries = fix.retries
  BY <1>1, MovedIs DEF FixStatuses
<1>7. fix' = [m EXCEPT !.retries = @ + 1]
  BY DEF RetryLater
<1> HIDE DEF m
<1>8. FixOK(fix') /\ fix'.status = "failed_retryable" /\ fix'.retries = fix.retries + 1
  <2>1. m \in FixRows /\ m.retries + 1 \in 0 .. MaxRetries
    BY <1>1, <1>5, <1>6, SiteFixAssumption DEF FixOK
  <2>2. /\ fix' \in FixRows /\ fix'.status = m.status /\ fix'.sig = m.sig /\ fix'.active = m.active
        /\ fix'.retries = m.retries + 1
    BY <1>7, <2>1 DEF FixRows
  <2> QED
    BY <1>6, <2>2 DEF FixOK
<1>9. Last' = Last /\ fix.retries' \in Nat /\ fix.retries <= fix.retries'
  <2>1. Last' = Last
    BY <1>2, <1>4, LastRow
  <2>2. fix.retries \in Nat /\ fix.retries + 1 \in Nat /\ fix.retries <= fix.retries + 1
    BY <1>5
  <2> QED
    BY <1>8, <2>1, <2>2
<1>10. check' \in [Ticks \cup People -> CheckRows] /\ ChecksSound'
  BY <1>9, CheckGoes
<1>11. (check \in [Ticks \cup People -> CheckRows])'
  BY <1>10 DEF CheckRows
<1>12. VerdictsCount'
  <2>1. Passed' = {} /\ Failed' = (1 .. fix.retries) \cup {fix.retries + 1}
    BY <1>5, VerdictAdds
  <2>2. Failed' = 1 .. fix.retries + 1
    BY <1>5, <2>1
  <2> QED
    BY <1>8, <2>1, <2>2, CountIs
<1>13. (verdicts \subseteq [attempt : 1 .. MaxRetries + 1, result : {"passed", "failed"}])'
  BY VerdictType
<1>14. "needs_follow_up" \in AppFor(fix'.status)
  BY <1>8, AppForIs
<1> QED
  BY <1>1, <1>2, <1>3, <1>4, <1>8, <1>10, <1>11, <1>12, <1>13, <1>14, MoveStep

LEMMA EndHereStep ==
  ASSUME Inv, NEW t \in Ticks, check[t].pc # "idle", FirstVerdict(t), EndHere(t),
         verdicts' = Verdict(t, "failed"), Through(t), UNCHANGED <<outside, call>>
  PROVE  Inv'
<1>1. fix.active /\ FixOK(fix) /\ Last # 0
  BY FixAgrees DEF EndHere, Terminable, Inv, FixAt, FixIn, LastIn
<1>2. /\ Last \in 1 .. Last /\ apps \in Seq(AppRows)
      /\ "failed" \in AppStatuses /\ "failed" \in Reasons
  BY <1>1, LastIs DEF AppStatuses, Reasons
<1>3. PICK r \in AppRows : apps' = [apps EXCEPT ![Last] = r] /\ r.status = "failed"
  BY <1>2, ReleasedIs DEF EndHere
<1>4. /\ Attempt(t) = fix.retries + 1 /\ Failed = 1 .. fix.retries /\ Passed = {}
      /\ fix.retries \in 0 .. MaxRetries /\ check[t].retries = fix.retries
  BY <1>1, AttemptIsNext
<1>5. FixOK(fix') /\ fix'.status = "failed_terminal" /\ fix'.retries = fix.retries
  BY <1>1, MovedIs DEF EndHere, FixStatuses
<1>6. fix.retries = MaxRetries
  BY <1>4, SiteFixAssumption DEF EndHere, LastAttempt
<1>7. Last' = Last /\ fix.retries' \in Nat /\ fix.retries <= fix.retries'
  <2>1. Last' = Last
    BY <1>1, <1>3, LastRow
  <2>2. fix.retries \in Nat /\ fix.retries <= fix.retries
    BY <1>4
  <2> QED
    BY <1>5, <2>1, <2>2
<1>8. check' \in [Ticks \cup People -> CheckRows] /\ ChecksSound'
  BY <1>7, CheckGoes
<1>9. (check \in [Ticks \cup People -> CheckRows])'
  BY <1>8 DEF CheckRows
<1>10. VerdictsCount'
  <2>1. Passed' = {} /\ Failed' = (1 .. fix.retries) \cup {fix.retries + 1}
    BY <1>4, VerdictAdds
  <2>2. Failed' = 1 .. fix.retries + 1
    BY <1>4, <2>1
  <2> QED
    BY <1>5, <1>6, <2>1, <2>2, CountIs
<1>11. (verdicts \subseteq [attempt : 1 .. MaxRetries + 1, result : {"passed", "failed"}])'
  BY VerdictType
<1>12. "failed" \in AppFor(fix'.status) /\ fix'.status \notin Merged
  BY <1>5, AppForIs DEF Merged, Verifying
<1> QED
  BY <1>1, <1>2, <1>3, <1>5, <1>8, <1>9, <1>10, <1>11, <1>12, MoveStep

LEMMA FailVerificationStep ==
  ASSUME Inv, NEW t \in Ticks, FailVerification(t)
  PROVE  Inv'
<1>1. check[t].pc = "fail" /\ Through(t) /\ UNCHANGED <<outside, call>>
  BY DEF FailVerification, Is
<1>2. CASE UNCHANGED <<fix, apps, verdicts>>
  BY <1>1, <1>2, JustChecks
<1>3. CASE FirstVerdict(t) /\ (RetryLater(t) \/ EndHere(t)) /\ verdicts' = Verdict(t, "failed")
  BY <1>1, <1>3, RetryLaterStep, EndHereStep
<1> QED
  BY <1>2, <1>3 DEF FailVerification

LEMMA TickingStep ==
  ASSUME Inv, NEW t \in Ticks, Ticking(t)
  PROVE  Inv'
BY ReconcilePRStep, TakeUpStep, FetchStep, ObserveStep, PassStep, FailVerificationStep DEF Ticking

-----------------------------------------------------------------------------
(* People, time and GitHub.                                                *)

LEMMA ReopenStep ==
  ASSUME Inv, Reopen
  PROVE  Inv'
<1>1. /\ fix.active /\ fix.status \in Merged /\ FixOK(fix) /\ apps[Last].status # "creating_pr"
      /\ UNCHANGED <<verdicts, outside, call, check>>
  BY AtStatus, FixAgrees DEF Reopen, Inv, FixStatuses, Merged, LastIn
<1>2. Last # 0 /\ hub[Last] = "merged"
  BY <1>1, MergedHasApp
<1>3. /\ Last \in 1 .. Last /\ apps \in Seq(AppRows)
      /\ "verification_pending" \in AppStatuses /\ "none" \in Reasons
  BY <1>2, LastIs DEF AppStatuses, Reasons
<1>4. PICK r \in AppRows : apps' = [apps EXCEPT ![Last] = r] /\ r.status = "verification_pending"
  BY <1>3, RewrittenIs DEF Reopen
<1>5. FixOK(fix') /\ fix'.status = "reopened" /\ fix'.retries = fix.retries
  BY <1>1, MovedIs DEF Reopen, FixStatuses
<1>6. Last' = Last
  BY <1>2, <1>4, LastRow
<1>7. fix.status \notin {"verified", "failed_terminal"}
  BY <1>1 DEF FixOK
<1>8. ChecksSound' /\ VerdictsCount'
  BY <1>1, <1>5, <1>6, <1>7, ChecksStay, NoVerdict DEF Inv
<1>9. "verification_pending" \in AppFor(fix'.status)
  BY <1>5, AppForIs
<1> QED
  BY <1>1, <1>2, <1>3, <1>4, <1>5, <1>8, <1>9, SameTypes, MoveStep

LEMMA TerminateStep ==
  ASSUME Inv, Terminate
  PROVE  Inv'
<1>1. fix.active /\ FixOK(fix) /\ UNCHANGED <<verdicts, outside, call, check>>
  BY FixAgrees DEF Terminate, Inv
<1>2. FixOK(fix') /\ fix'.status = "failed_terminal" /\ fix'.retries = fix.retries
  BY <1>1, MovedIs DEF Terminate, FixStatuses
<1>3. CASE Last = 0
  <2>1. UNCHANGED apps /\ Last' = Last
    BY <1>3 DEF Terminate, Last
  <2>2. CallsSound'
    BY <1>1, <1>3, <2>1, NoAppCalls DEF CallsSound, CallOK, Inv
  <2>3. FixOK(fix)' /\ call' \in [Calls -> CallRows(Last)]
    BY <1>1, <1>2, TypesOK DEF FixOK, Inv, RecordsAgree
  <2> QED
    BY <1>1, <1>2, <1>3, <2>1, <2>2, <2>3, NoAppStep
<1>4. CASE Last # 0
  <2>1. /\ Last \in 1 .. Last /\ apps \in Seq(AppRows)
        /\ "failed" \in AppStatuses /\ "terminated" \in Reasons
    BY <1>4, LastIs DEF AppStatuses, Reasons
  <2>2. PICK r \in AppRows : apps' = [apps EXCEPT ![Last] = r] /\ r.status = "failed"
    BY <1>4, <2>1, ReleasedIs DEF Terminate
  <2>3. Last' = Last
    BY <1>4, <2>2, LastRow
  <2>4. fix.status \notin {"verified", "failed_terminal"}
    BY <1>1 DEF FixOK
  <2>5. ChecksSound' /\ VerdictsCount'
    BY <1>1, <1>2, <2>3, <2>4, ChecksStay, NoVerdict DEF Inv
  <2>6. "failed" \in AppFor(fix'.status) /\ fix'.status \notin Merged
    BY <1>2, AppForIs DEF Merged, Verifying
  <2> QED
    BY <1>1, <1>2, <1>4, <2>1, <2>2, <2>5, <2>6, SameTypes, MoveStep
<1> QED
  BY <1>3, <1>4

LEMMA PersonStep ==
  ASSUME Inv, Person
  PROVE  Inv'
BY ApproveStep, ReopenStep, TerminateStep, ReadForEvidenceStep, GiveEvidenceStep DEF Person

LEMMA TimeStep ==
  ASSUME Inv, NEW a \in DOMAIN apps, Lapses(a) \/ Ages(a) \/ ComesDue(a) \/ Expires(a)
  PROVE  Inv'
<1>1. a \in 1 .. Last /\ apps[a].status # "failed" /\ UNCHANGED <<fix, verdicts, outside, call, check>>
  BY TypesOK DEF Inv, RecordsAgree, Lapses, Ages, ComesDue, Expires, MergeRecorded, Only
<1>2. a = Last /\ Last # 0
  BY <1>1, TypesOK DEF Inv, RecordsAgree
<1>3. /\ Last \in 1 .. Last /\ apps \in Seq(AppRows) /\ apps[Last] \in AppRows /\ Last \in DOMAIN apps
  BY <1>2, LastIs
<1>4. \E r \in AppRows :
        /\ apps' = [apps EXCEPT ![Last] = r]
        /\ r.status = apps[Last].status /\ r.token = apps[Last].token
        /\ r.lapsed = apps[Last].lapsed \/ ~At(apps[Last].token, "open")
  <2>1. CASE Lapses(a)
    <3> DEFINE r == [apps[Last] EXCEPT !.lapsed = TRUE]
    <3>1. r \in AppRows /\ r.status = apps[Last].status /\ r.token = apps[Last].token
      BY <1>3 DEF AppRows
    <3>2. apps' = [apps EXCEPT ![Last] = r] /\ ~At(apps[Last].token, "open")
      BY <1>2, <1>3, <2>1 DEF Lapses
    <3> HIDE DEF r
    <3> QED
      BY <3>1, <3>2
  <2>2. CASE Ages(a)
    <3> DEFINE r == [apps[Last] EXCEPT !.aged = TRUE]
    <3>1. r \in AppRows /\ r.status = apps[Last].status /\ r.token = apps[Last].token
          /\ r.lapsed = apps[Last].lapsed
      BY <1>3 DEF AppRows
    <3>2. apps' = [apps EXCEPT ![Last] = r]
      BY <1>2, <1>3, <2>2 DEF Ages
    <3> HIDE DEF r
    <3> QED
      BY <3>1, <3>2
  <2>3. CASE ComesDue(a)
    <3> DEFINE r == [apps[Last] EXCEPT !.due = TRUE]
    <3>1. r \in AppRows /\ r.status = apps[Last].status /\ r.token = apps[Last].token
          /\ r.lapsed = apps[Last].lapsed
      BY <1>3 DEF AppRows
    <3>2. apps' = [apps EXCEPT ![Last] = r]
      BY <1>2, <1>3, <2>3 DEF ComesDue
    <3> HIDE DEF r
    <3> QED
      BY <3>1, <3>2
  <2>4. CASE Expires(a)
    <3> DEFINE r == [apps[Last] EXCEPT !.expired = TRUE]
    <3>1. r \in AppRows /\ r.status = apps[Last].status /\ r.token = apps[Last].token
          /\ r.lapsed = apps[Last].lapsed
      BY <1>3 DEF AppRows
    <3>2. apps' = [apps EXCEPT ![Last] = r]
      BY <1>2, <1>3, <2>4 DEF Expires
    <3> HIDE DEF r
    <3> QED
      BY <3>1, <3>2
  <2> QED
    BY <2>1, <2>2, <2>3, <2>4
<1>5. PICK r \in AppRows :
        /\ apps' = [apps EXCEPT ![Last] = r]
        /\ r.status = apps[Last].status /\ r.token = apps[Last].token
        /\ r.lapsed = apps[Last].lapsed \/ ~At(apps[Last].token, "open")
  BY <1>4
<1>6. Last' = Last
  BY <1>2, <1>5, LastRow
<1>7. ASSUME NEW d \in Calls
      PROVE  CallOK(d)'
  <2>1. call[d].pc = "open" =>
          fix.status' = "failed_terminal" \/ (r.status = "creating_pr" /\ r.token = d /\ ~r.lapsed)
    BY <1>1, <1>5, NobodyOpens DEF At
  <2> QED
    BY <1>1, <1>2, <1>5, <2>1, OtherCall DEF outside
<1>8. CallsSound' /\ call' \in [Calls -> CallRows(Last)]
  BY <1>1, <1>7, TypesOK DEF CallsSound, Inv, RecordsAgree
<1>9. ChecksSound' /\ (check \in [Ticks \cup People -> CheckRows])'
  BY <1>1, <1>6, ChecksStay, SameTypes DEF Inv
<1> QED
  BY <1>1, <1>2, <1>5, <1>8, <1>9, FlagStep

\* A commit of the base branch, or a deployment.
LEMMA OutsideStep ==
  ASSUME Inv, MovesBase \/ Deploys
  PROVE  Inv'
<1>1. UNCHANGED <<fix, apps, verdicts, hub, call, check>> /\ Last' = Last
  BY DEF MovesBase, Deploys, Last
<1>2. base' \in 1 .. Bases /\ live' \in BOOLEAN
  <2>1. base \in 1 .. Bases /\ live \in BOOLEAN /\ Bases \in Nat
    BY TypesOK, SiteFixAssumption DEF Inv, RecordsAgree
  <2>2. base' \in 1 .. Bases
    BY <2>1 DEF MovesBase, Deploys
  <2>3. live' = live \/ live' = ~live
    BY DEF MovesBase, Deploys
  <2>4. live' \in BOOLEAN
    BY <2>1, <2>3, Zenon
  <2> QED
    BY <2>2, <2>4
<1>3. TypeOK'
  BY <1>1, <1>2, TypesOK, TypesKept DEF Inv, RecordsAgree
<1>4. RecordsAgree'
  BY <1>1, <1>3 DEF Inv, RecordsAgree
<1>5. CallsSound' /\ ChecksSound' /\ OnlyLastOpened' /\ VerdictsCount'
  BY <1>1 DEF Inv, CallsSound, CallOK, HoldsNow, Holds, ChecksSound, OnlyLastOpened, VerdictsCount
<1> QED
  BY <1>4, <1>5 DEF Inv

LEMMA DecidesStep ==
  ASSUME Inv, NEW a \in DOMAIN hub, Decides(a)
  PROVE  Inv'
<1>1. /\ hub \in Seq(HubStates) /\ Last \in Nat /\ a \in 1 .. Last /\ DOMAIN hub = 1 .. Last
      /\ hub[a] = "open" /\ UNCHANGED <<fix, apps, verdicts, base, live, call, check>> /\ Last' = Last
  BY TypesOK DEF Inv, RecordsAgree, Decides, Last
<1>2. a = Last /\ Last # 0
  BY <1>1 DEF Inv, OnlyLastOpened
<1>3. PICK s \in {"merged", "closed"} : hub' = [hub EXCEPT ![Last] = s]
  BY <1>2 DEF Decides
<1>4. hub'[Last] = s /\ \A b \in 1 .. Last : b # Last => hub'[b] = hub[b]
  BY <1>1, <1>2, <1>3
<1>5. ASSUME NEW d \in Calls
      PROVE  CallOK(d)'
  <2>1. CallOK(d) /\ Holds(d)' = Holds(d) /\ HoldsNow(d)' = HoldsNow(d)
    BY <1>1 DEF Inv, CallsSound, Holds, HoldsNow
  <2> QED
    BY <1>1, <1>2, <1>4, <2>1 DEF CallOK
<1>6. CallsSound' /\ call' \in [Calls -> CallRows(Last)]
  BY <1>1, <1>5, TypesOK DEF CallsSound, Inv, RecordsAgree
<1>7. fix.status # "preparing" /\ s \in HubStates /\ hub[Last] # "merged"
  BY <1>1, <1>2 DEF Inv, OnlyLastOpened, HubStates
<1> QED
  BY <1>1, <1>2, <1>3, <1>6, <1>7, HubStep

LEMMA WorldStep ==
  ASSUME Inv, World
  PROVE  Inv'
BY TimeStep, OutsideStep, DecidesStep DEF World, Time

LEMMA TroubleStep ==
  ASSUME Inv, Trouble
  PROVE  Inv'
BY TroubledStep, DiesStep, StopsStep DEF Trouble

-----------------------------------------------------------------------------
(* The fix.                                                                *)

LEMMA InitInv == Init => Inv
<1> SUFFICES ASSUME Init PROVE Inv
  OBVIOUS
<1>1. /\ Last = 0 /\ fix = [status |-> "proposed", sig |-> "proposed", active |-> TRUE, retries |-> 0]
      /\ call = [c \in Calls |-> IdleCall] /\ check = [x \in Ticks \cup People |-> IdleCheck]
      /\ verdicts = {} /\ apps = <<>> /\ hub = <<>> /\ base = 1 /\ live = FALSE
  BY DEF Init, Last
<1>2. /\ fix \in FixRows /\ apps \in Seq(AppRows) /\ hub \in Seq(HubStates) /\ Len(hub) = Len(apps)
      /\ base \in 1 .. Bases /\ live \in BOOLEAN
      /\ call \in [Calls -> CallRows(Last)] /\ check \in [Ticks \cup People -> CheckRows]
  <2>1. fix \in FixRows
    BY <1>1, SiteFixAssumption DEF FixRows, FixStatuses
  <2>2. apps \in Seq(AppRows) /\ hub \in Seq(HubStates) /\ Len(hub) = Len(apps)
    <3>1. apps = <<>> /\ hub = <<>>
      BY DEF Init
    <3> QED
      BY <3>1
  <2>3. base \in 1 .. Bases /\ live \in BOOLEAN
    <3>1. base = 1
      BY DEF Init
    <3>2. base \in 1 .. Bases
      BY <3>1, SiteFixAssumption
    <3>3. live \in BOOLEAN
      BY Zenon DEF Init
    <3> QED
      BY <3>2, <3>3
  <2>4. call \in [Calls -> CallRows(Last)] /\ check \in [Ticks \cup People -> CheckRows]
    BY <1>1, IdleType
  <2> QED
    BY <2>1, <2>2, <2>3, <2>4
<1>3. TypeOK
  <2>1. verdicts \subseteq [attempt : 1 .. MaxRetries + 1, result : {"passed", "failed"}]
    BY <1>1
  <2> HIDE DEF Init
  <2> QED
    BY <1>2, <2>1, TypesGive, Zenon
<1>4. RecordsAgree
  <2>1. /\ Last = 0 /\ fix.status = "proposed" /\ fix.sig = "proposed" /\ fix.active = TRUE
    BY <1>1
  <2>2. \A a \in 1 .. Last - 1 : apps[a].status = "failed"
    BY <2>1
  <2>3. fix.sig = SignatureFor(fix.status)
    BY <2>1 DEF SignatureFor
  <2>4. fix.status \notin Verifying \cup {"failed_retryable", "verified", "failed_terminal"}
    BY <2>1 DEF Verifying
  <2> QED
    BY <2>1, <2>2, <2>3, <2>4, <1>3 DEF RecordsAgree
<1>5. VerdictsCount
  BY <1>1, SiteFixAssumption DEF VerdictsCount
<1>6. CallsSound /\ ChecksSound /\ OnlyLastOpened
  BY <1>1, IdleType DEF CallsSound, CallOK, ChecksSound, OnlyLastOpened
<1> QED
  BY <1>4, <1>5, <1>6 DEF Inv

LEMMA NextInv == Inv /\ [Next]_vars => Inv'
<1> SUFFICES ASSUME Inv, [Next]_vars PROVE Inv'
  OBVIOUS
<1>1. CASE Next
  BY <1>1, CallingStep, TickingStep, PersonStep, WorldStep, TroubleStep DEF Next
<1>2. CASE UNCHANGED vars
  <2>1. UNCHANGED <<fix, apps, verdicts, outside, call, check>> /\ Last' = Last
    BY <1>2 DEF vars, outside, Last
  <2>2. (check \in [Ticks \cup People -> CheckRows])' /\ ChecksSound'
    BY <2>1, ChecksStay, SameTypes DEF Inv
  <2> QED
    BY <2>1, <2>2, CheckOnly
<1> QED
  BY <1>1, <1>2

\* The records of a fix keep their types, whatever overlaps.
THEOREM TypeCorrect == Spec => []TypeOK
BY InitInv, NextInv, PTL DEF Spec, Inv, RecordsAgree

\* Fix, signature and applications agree after every step of every request, tick and
\* person (the statements of site_fixes.sql compare them again).
THEOREM RecordsStayTogether == Spec => []RecordsAgree
BY InitInv, NextInv, PTL DEF Spec, Inv

\* However many requests and ticks overlap, each attempt is judged once, and the retries
\* are the attempts that failed.
THEOREM AttemptsJudgedOnce == Spec => []VerdictsCount
BY InitInv, NextInv, PTL DEF Spec, Inv

LEMMA InvOnePullRequest == Inv => OnePullRequest
<1> SUFFICES ASSUME Inv PROVE OnePullRequest
  OBVIOUS
<1> DEFINE S == {a \in DOMAIN hub : hub[a] # "none"}
<1>1. S \subseteq {Last}
  BY TypesOK DEF Inv, RecordsAgree, OnlyLastOpened
<1>2. IsFiniteSet({Last}) /\ Cardinality({Last}) = 1
  BY FS_Singleton
<1>3. Cardinality(S) <= 1
  BY <1>1, <1>2, FS_Subset
<1> QED
  BY <1>3 DEF OnePullRequest

\* A fix never has two pull requests: only the latest application can get one, and it
\* gives way to another only without one (openPullRequest under a renewed claim).
THEOREM OnePullRequestEver == Spec => []OnePullRequest
BY InitInv, NextInv, InvOnePullRequest, PTL DEF Spec

-----------------------------------------------------------------------------
(* What a verified fix has brought about.                                  *)

MeasRows == [status : {"none", "ready", "observing", "terminal"}, prospective : BOOLEAN,
             outcome : Labels \cup {"none"}]

HandoffRows == [status : {"none", "pending", "processing", "failed_retryable",
                          "failed_terminal", "completed"},
                attempts : 0 .. MaxAttempts, token : Workers \cup {Nobody}, lapsed : BOOLEAN,
                waiting : BOOLEAN, alert : Workers \cup {Nobody}, notified : BOOLEAN]

PointRows == [status : Labels \cup {"none", "open", "closed"}, waiting : BOOLEAN]

ClockRows == [due : 0 .. Points, late : BOOLEAN]

WorkerRows == [pc : {"rest", "activate", "retry", "alert", "defer", "end"}, at : 0 .. Points]

\* What the measurement relies on: its last checkpoint is open for as long as it runs,
\* only an open one waits, and only a measurement that was started is ended.
ResultsSound ==
  /\ (meas.outcome # "none") = (meas.status = "terminal")
  /\ handoff.status # "completed" => \A k \in 1 .. Points : points[k].status = "none"
  /\ \A k \in 1 .. Points : points[k].waiting => points[k].status = "open"
  /\ meas.status = "observing" => points[Points].status = "open"
  /\ \A w \in Workers : worker[w].pc = "end" => meas.status \in {"observing", "terminal"}

ResultsInv == HandoffAgrees /\ VerdictHasEvidence /\ ResultsSound

LEMMA ResultsTypes ==
  ASSUME ResultsInv
  PROVE  /\ meas \in MeasRows /\ handoff \in HandoffRows /\ points \in [1 .. Points -> PointRows]
         /\ clock \in ClockRows /\ worker \in [Workers -> WorkerRows]
         /\ Points \in Nat /\ Points >= 2 /\ 1 \in 1 .. Points /\ Points \in 2 .. Points
BY MeasurementAssumption
   DEF ResultsInv, HandoffAgrees, ResultsTypeOK, MeasRows, HandoffRows, PointRows, ClockRows,
       WorkerRows

LEMMA ResultsTypesKept ==
  ASSUME (meas \in MeasRows)', (handoff \in HandoffRows)',
         (points \in [1 .. Points -> PointRows])', (clock \in ClockRows)',
         (worker \in [Workers -> WorkerRows])'
  PROVE  ResultsTypeOK'
BY DEF ResultsTypeOK, MeasRows, HandoffRows, PointRows, ClockRows, WorkerRows

\* The verdict's evidence, said without a set.
EvidenceOK(m, p) ==
  LET decides(k) == p[k].status = "directional" IN
  /\ m.outcome = "directional" => \E k \in 2 .. Points : decides(k)
  /\ \A k \in 2 .. Points : decides(k) => m.outcome = "directional" /\ m.prospective = FALSE
  /\ \A j, k \in 2 .. Points : decides(j) /\ decides(k) => j = k
  /\ m.status = "observing" => \E k \in 1 .. Points : p[k].status = "open"
  /\ \A k \in 1 .. Points : p[k].status = "open" => m.status = "observing"

LEMMA EvidenceIs ==
  ASSUME HandoffAgrees, VerdictHasEvidence
  PROVE  EvidenceOK(meas, points)
<1>1. meas.prospective \in BOOLEAN
  BY DEF HandoffAgrees, ResultsTypeOK
<1> QED
  BY <1>1 DEF VerdictHasEvidence, EvidenceOK

LEMMA EvidenceKept ==
  ASSUME EvidenceOK(meas', points')
  PROVE  VerdictHasEvidence'
BY DEF VerdictHasEvidence, EvidenceOK

\* Where the measurement has not started, or runs.
LEMMA NotStarted ==
  ASSUME ResultsInv, handoff.status # "completed"
  PROVE  /\ meas.status \in {"none", "ready"} /\ meas.outcome = "none"
         /\ (meas.status = "none") = (handoff.status = "none")
         /\ \A k \in 1 .. Points : points[k].status = "none" /\ points[k].waiting = FALSE
<1>1. meas \in MeasRows /\ points \in [1 .. Points -> PointRows]
  BY ResultsTypes
<1>2. meas.status \in {"none", "ready"} /\ (meas.status = "none") = (handoff.status = "none")
  BY <1>1 DEF ResultsInv, HandoffAgrees, MeasRows
<1>3. meas.outcome = "none"
  BY <1>2 DEF ResultsInv, ResultsSound
<1>4. ASSUME NEW k \in 1 .. Points
      PROVE  points[k].status = "none" /\ points[k].waiting = FALSE
  BY <1>1 DEF ResultsInv, ResultsSound, PointRows
<1> QED
  BY <1>2, <1>3, <1>4

LEMMA Running ==
  ASSUME ResultsInv, meas.status = "observing"
  PROVE  /\ handoff.status = "completed" /\ meas.outcome = "none"
         /\ points[Points].status = "open" /\ ~handoff.notified
         /\ \A k \in 1 .. Points : points[k].status # "none"
         /\ \A k \in 2 .. Points : points[k].status # "directional"
<1>1. handoff.status = "completed" /\ meas.outcome = "none" /\ points[Points].status = "open"
  BY DEF ResultsInv, HandoffAgrees, ResultsSound
<1>2. \A k \in 1 .. Points : points[k].status # "none"
  BY <1>1 DEF ResultsInv, HandoffAgrees
<1>3. \A k \in 2 .. Points : points[k].status # "directional"
  BY <1>1 DEF ResultsInv, VerdictHasEvidence
<1>4. ~handoff.notified
  BY <1>1 DEF ResultsInv, HandoffAgrees
<1> QED
  BY <1>1, <1>2, <1>3, <1>4

-----------------------------------------------------------------------------
(* Steps that leave the measurement and its checkpoints alone.             *)

LEMMA HandoffStep ==
  ASSUME ResultsInv, FixVerified => FixVerified', UNCHANGED <<meas, points>>,
         handoff' \in HandoffRows, clock' \in ClockRows, worker' \in [Workers -> WorkerRows],
         (handoff'.status = "none") = (handoff.status = "none"),
         (handoff'.status = "completed") = (handoff.status = "completed"),
         (handoff'.status = "processing") = (handoff'.token # Nobody),
         handoff'.notified => handoff'.status = "failed_terminal",
         \A w \in Workers : worker'[w].pc = "end" =>
            worker[w].pc = "end" \/ meas.status = "observing"
  PROVE  ResultsInv'
<1>1. ResultsTypeOK'
  BY ResultsTypes, ResultsTypesKept
<1>2. handoff'.notified => meas.status = "ready"
  BY NotStarted
<1>3. HandoffAgrees'
  BY <1>1, <1>2 DEF ResultsInv, HandoffAgrees
<1>4. VerdictHasEvidence'
  <2>1. EvidenceOK(meas, points)
    BY EvidenceIs DEF ResultsInv
  <2> QED
    BY <2>1, EvidenceKept
<1>5. ResultsSound'
  BY DEF ResultsInv, ResultsSound
<1> QED
  BY <1>3, <1>4, <1>5 DEF ResultsInv

\* A worker goes elsewhere.
LEMMA TurnsIs ==
  ASSUME worker \in [Workers -> WorkerRows], NEW w \in Workers, NEW n \in WorkerRows,
         worker' = [worker EXCEPT ![w] = n]
  PROVE  /\ worker' \in [Workers -> WorkerRows] /\ worker'[w] = n
         /\ \A v \in Workers : v # w => worker'[v] = worker[v]
OBVIOUS

LEMMA WorkerGoes ==
  ASSUME ResultsInv, NEW w \in Workers,
         \/ Rests(w) \/ Turns(w, "activate") \/ Turns(w, "retry") \/ Turns(w, "alert")
         \/ meas.status = "observing" /\ Turns(w, "end")
         \/ \E k \in 1 .. Points : worker' = [worker EXCEPT ![w] = [pc |-> "defer", at |-> k]]
  PROVE  /\ worker' \in [Workers -> WorkerRows]
         /\ \A v \in Workers : worker'[v].pc = "end" =>
              worker[v].pc = "end" \/ meas.status = "observing"
<1>1. /\ worker \in [Workers -> WorkerRows] /\ 0 \in 0 .. Points /\ 1 .. Points \subseteq 0 .. Points
      /\ \A p \in {"rest", "activate", "retry", "alert", "defer", "end"} :
           \A k \in 0 .. Points : [pc |-> p, at |-> k] \in WorkerRows
  BY ResultsTypes DEF WorkerRows
<1>2. PICK n \in WorkerRows :
        /\ worker' = [worker EXCEPT ![w] = n]
        /\ n.pc = "end" => meas.status = "observing"
  <2>1. CASE Rests(w)
    <3>1. [pc |-> "rest", at |-> 0] \in WorkerRows
      BY <1>1
    <3> QED
      BY <2>1, <3>1 DEF Rests, Resting
  <2>2. CASE Turns(w, "activate")
    <3>1. [pc |-> "activate", at |-> 0] \in WorkerRows
      BY <1>1
    <3> QED
      BY <2>2, <3>1 DEF Turns
  <2>3. CASE Turns(w, "retry")
    <3>1. [pc |-> "retry", at |-> 0] \in WorkerRows
      BY <1>1
    <3> QED
      BY <2>3, <3>1 DEF Turns
  <2>4. CASE Turns(w, "alert")
    <3>1. [pc |-> "alert", at |-> 0] \in WorkerRows
      BY <1>1
    <3> QED
      BY <2>4, <3>1 DEF Turns
  <2>5. CASE meas.status = "observing" /\ Turns(w, "end")
    <3>1. [pc |-> "end", at |-> 0] \in WorkerRows
      BY <1>1
    <3> QED
      BY <2>5, <3>1 DEF Turns
  <2>6. ASSUME NEW k \in 1 .. Points, worker' = [worker EXCEPT ![w] = [pc |-> "defer", at |-> k]]
        PROVE  \E n \in WorkerRows : /\ worker' = [worker EXCEPT ![w] = n]
                                     /\ n.pc = "end" => meas.status = "observing"
    <3>1. [pc |-> "defer", at |-> k] \in WorkerRows
      BY <1>1
    <3> QED
      BY <2>6, <3>1
  <2> QED
    BY <2>1, <2>2, <2>3, <2>4, <2>5, <2>6
<1> QED
  BY <1>1, <1>2, TurnsIs

LEMMA UnlockedIs ==
  ASSUME handoff \in HandoffRows,
         NEW s \in {"pending", "failed_retryable", "failed_terminal", "completed"}
  PROVE  /\ Unlocked(s) \in HandoffRows /\ Unlocked(s).status = s /\ Unlocked(s).token = Nobody
         /\ Unlocked(s).notified = handoff.notified
BY DEF Unlocked, HandoffRows

LEMMA NewHandoffIs ==
  /\ NewHandoff \in HandoffRows /\ NoHandoff \in HandoffRows
  /\ NewHandoff.status = "pending" /\ NewHandoff.token = Nobody /\ NewHandoff.notified = FALSE
  /\ NoHandoff.status = "none" /\ NoHandoff.token = Nobody /\ NoHandoff.notified = FALSE
<1>1. /\ NewHandoff \in HandoffRows
      /\ NewHandoff.status = "pending" /\ NewHandoff.token = Nobody /\ NewHandoff.notified = FALSE
  BY MeasurementAssumption DEF NewHandoff, HandoffRows
<1>2. /\ NoHandoff \in HandoffRows
      /\ NoHandoff.status = "none" /\ NoHandoff.token = Nobody /\ NoHandoff.notified = FALSE
  <2> HIDE DEF NewHandoff
  <2> QED
    BY <1>1 DEF NoHandoff, HandoffRows
<1> QED
  BY <1>1, <1>2

\* The facts about a hand-off that its own steps disturb.
LEMMA HandoffFacts ==
  ASSUME ResultsInv
  PROVE  /\ handoff \in HandoffRows
         /\ (handoff.status = "processing") = (handoff.token # Nobody)
         /\ handoff.notified => handoff.status = "failed_terminal"
BY ResultsTypes DEF ResultsInv, HandoffAgrees

LEMMA ClaimHandoffStep ==
  ASSUME ResultsInv, FixVerified => FixVerified', NEW w \in Workers, ClaimHandoff(w)
  PROVE  ResultsInv'
<1>1. /\ handoff \in HandoffRows /\ handoff.attempts < MaxAttempts /\ clock \in ClockRows
      /\ handoff.status \in {"pending", "failed_retryable", "processing"} /\ ~handoff.notified
      /\ UNCHANGED <<meas, points, clock>> /\ Turns(w, "activate")
  BY HandoffFacts, ResultsTypes DEF ClaimHandoff, HandoffClaimable
<1> DEFINE q == [handoff EXCEPT !.attempts = @ + 1]
<1>2. q \in HandoffRows /\ q.notified = handoff.notified
  BY <1>1, MeasurementAssumption DEF HandoffRows
<1>3. handoff' = [q EXCEPT !.status = "processing", !.token = w, !.lapsed = FALSE]
  BY <1>1, Zenon DEF ClaimHandoff, HandoffRows
<1> HIDE DEF q
<1>4. /\ handoff' \in HandoffRows /\ handoff'.status = "processing" /\ handoff'.token = w
      /\ handoff'.notified = q.notified
  BY <1>2, <1>3 DEF HandoffRows
<1>5. w # Nobody
  BY MeasurementAssumption
<1> QED
  BY <1>1, <1>2, <1>4, <1>5, WorkerGoes, HandoffStep

LEMMA RetryHandoffStep ==
  ASSUME ResultsInv, FixVerified => FixVerified', NEW w \in Workers, RetryHandoff(w)
  PROVE  ResultsInv'
<1>1. UNCHANGED <<meas, points, clock>> /\ Rests(w) /\ handoff \in HandoffRows /\ clock \in ClockRows
  BY ResultsTypes DEF RetryHandoff
<1>2. CASE handoff' = handoff
  BY <1>1, <1>2, HandoffFacts, WorkerGoes, HandoffStep
<1>3. CASE handoff.status = "processing"
           /\ handoff' \in {Unlocked("failed_terminal"), [Unlocked("failed_retryable") EXCEPT !.waiting = TRUE]}
  <2>1. /\ Unlocked("failed_retryable") \in HandoffRows
        /\ Unlocked("failed_retryable").status = "failed_retryable"
        /\ Unlocked("failed_retryable").token = Nobody
        /\ Unlocked("failed_retryable").notified = handoff.notified
    BY <1>1, UnlockedIs
  <2>2. /\ Unlocked("failed_terminal") \in HandoffRows
        /\ Unlocked("failed_terminal").status = "failed_terminal"
        /\ Unlocked("failed_terminal").token = Nobody
    BY <1>1, UnlockedIs
  <2>3. /\ handoff' \in HandoffRows /\ handoff'.token = Nobody
        /\ handoff'.status \in {"failed_terminal", "failed_retryable"}
        /\ handoff'.notified => handoff.notified \/ handoff'.status = "failed_terminal"
    BY <1>3, <2>1, <2>2 DEF HandoffRows
  <2>4. ~handoff.notified
    BY <1>3, HandoffFacts
  <2> QED
    BY <1>1, <1>3, <2>3, <2>4, WorkerGoes, HandoffStep
<1> QED
  BY <1>2, <1>3 DEF RetryHandoff, HandoffHeld

LEMMA ExpireHandoffStep ==
  ASSUME ResultsInv, FixVerified => FixVerified', NEW w \in Workers, ExpireHandoff(w)
  PROVE  ResultsInv'
<1>1. UNCHANGED <<meas, points, clock, worker>> /\ handoff \in HandoffRows
      /\ handoff.status = "processing" /\ handoff' = Unlocked("failed_terminal")
  BY ResultsTypes DEF ExpireHandoff, Expirable
<1>2. handoff' \in HandoffRows /\ handoff'.status = "failed_terminal" /\ handoff'.token = Nobody
  BY <1>1, UnlockedIs
<1> QED
  BY <1>1, <1>2, ResultsTypes, HandoffStep

\* The alert is claimed or given.
LEMMA AlertStep ==
  ASSUME ResultsInv, FixVerified => FixVerified', NEW w \in Workers, ClaimAlert(w) \/ GiveAlert(w)
  PROVE  ResultsInv'
<1>1. UNCHANGED <<meas, points, clock>> /\ handoff \in HandoffRows /\ clock \in ClockRows
      /\ (Rests(w) \/ Turns(w, "alert"))
  BY ResultsTypes DEF ClaimAlert, GiveAlert
<1>2. CASE handoff' = handoff
  BY <1>1, <1>2, HandoffFacts, WorkerGoes, HandoffStep
<1>3. CASE handoff.status = "failed_terminal"
           /\ handoff' \in {[handoff EXCEPT !.alert = w, !.lapsed = FALSE],
                            [handoff EXCEPT !.notified = TRUE, !.alert = Nobody, !.lapsed = FALSE]}
  <2>1. handoff' \in HandoffRows /\ handoff'.status = handoff.status /\ handoff'.token = handoff.token
    BY <1>1, <1>3 DEF HandoffRows
  <2> QED
    BY <1>1, <1>3, <2>1, HandoffFacts, WorkerGoes, HandoffStep
<1> QED
  BY <1>2, <1>3 DEF ClaimAlert, GiveAlert

\* Time.
LEMMA LeaseLapsesStep ==
  ASSUME ResultsInv, FixVerified => FixVerified', LeaseLapses
  PROVE  ResultsInv'
<1>1. UNCHANGED <<meas, points, clock, worker>> /\ handoff' = [handoff EXCEPT !.lapsed = TRUE]
  BY DEF LeaseLapses
<1>2. /\ handoff' \in HandoffRows /\ handoff'.status = handoff.status
      /\ handoff'.token = handoff.token /\ handoff'.notified = handoff.notified
  BY <1>1, HandoffFacts DEF HandoffRows
<1> QED
  BY <1>1, <1>2, HandoffFacts, ResultsTypes, HandoffStep

LEMMA DayComesStep ==
  ASSUME ResultsInv, FixVerified => FixVerified', DayComes
  PROVE  ResultsInv'
<1>1. UNCHANGED <<meas, handoff, points, worker>> /\ clock \in ClockRows /\ Points \in Nat
  BY ResultsTypes DEF DayComes
<1>2. clock' \in ClockRows
  <2>1. CASE clock.due < Points /\ clock' = [clock EXCEPT !.due = @ + 1]
    <3>1. clock.due + 1 \in 0 .. Points
      BY <1>1, <2>1 DEF ClockRows
    <3> QED
      BY <1>1, <2>1, <3>1, Zenon DEF ClockRows
  <2>2. CASE clock' = [clock EXCEPT !.late = TRUE]
    BY <1>1, <2>2 DEF ClockRows
  <2> QED
    BY <2>1, <2>2 DEF DayComes
<1> QED
  BY <1>1, <1>2, HandoffFacts, ResultsTypes, HandoffStep

LEMMA JustWorker ==
  ASSUME ResultsInv, FixVerified => FixVerified', NEW w \in Workers,
         Rests(w) \/ Turns(w, "retry"), UNCHANGED <<meas, handoff, points, clock>>
  PROVE  ResultsInv'
<1>1. /\ worker' \in [Workers -> WorkerRows]
      /\ \A v \in Workers : worker'[v].pc = "end" =>
           worker[v].pc = "end" \/ meas.status = "observing"
  BY WorkerGoes
<1> QED
  BY <1>1, HandoffFacts, ResultsTypes, HandoffStep

-----------------------------------------------------------------------------
(* Steps that start the measurement.                                       *)

\* A measurement that is planned is handed off.
LEMMA HandedOff ==
  ASSUME ResultsInv, FixVerified', handoff.status # "completed",
         meas' \in MeasRows, meas'.status = "ready", meas'.outcome = meas.outcome,
         handoff' = NewHandoff, UNCHANGED <<points, clock, worker>>
  PROVE  ResultsInv'
<1>1. /\ meas.outcome = "none" /\ meas.status \in {"none", "ready"}
      /\ \A k \in 1 .. Points : points[k].status = "none" /\ points[k].waiting = FALSE
  BY NotStarted
<1>2. /\ handoff' \in HandoffRows /\ handoff'.status = "pending" /\ handoff'.token = Nobody
      /\ handoff'.notified = FALSE
  BY NewHandoffIs
<1>3. ResultsTypeOK'
  BY <1>2, ResultsTypes, ResultsTypesKept
<1>4. 1 \in 1 .. Points /\ 2 .. Points \subseteq 1 .. Points
  BY ResultsTypes
<1>5. HandoffAgrees'
  <2>1. points' = points
    OBVIOUS
  <2>2. points'[1].status = "none"
    BY <1>1, <1>4, <2>1
  <2>3. ~(\A k \in 1 .. Points : points'[k].status # "none")
    BY <1>4, <2>2
  <2>4. (meas'.status # "none") = (handoff'.status # "none")
    BY <1>2
  <2>5. (handoff'.status = "completed") = (meas'.status \in {"observing", "terminal"})
    BY <1>2
  <2>6. (handoff'.status = "completed") = (\A k \in 1 .. Points : points'[k].status # "none")
    BY <1>2, <2>3
  <2>7. (handoff'.status = "processing") = (handoff'.token # Nobody)
    BY <1>2
  <2> QED
    BY <1>2, <1>3, <2>4, <2>5, <2>6, <2>7, Zenon DEF HandoffAgrees
<1>6. EvidenceOK(meas', points')
  BY <1>1, <1>4 DEF EvidenceOK
<1>7. ResultsSound'
  <2>1. \A w \in Workers : worker'[w].pc # "end"
    BY <1>1 DEF ResultsInv, ResultsSound
  <2> QED
    BY <1>1, <1>2, <2>1 DEF ResultsSound
<1> QED
  BY <1>5, <1>6, <1>7, EvidenceKept DEF ResultsInv

LEMMA HandsOffStep ==
  ASSUME ResultsInv, ~FixVerified, FixVerified', HandsOff
  PROVE  ResultsInv'
<1>1. CASE /\ meas' = [meas EXCEPT !.status = "ready"] /\ handoff' = NewHandoff
           /\ UNCHANGED <<points, clock, worker>>
  <2>1. handoff.status # "completed" /\ meas \in MeasRows
    BY ResultsTypes DEF ResultsInv, HandoffAgrees
  <2>2. meas' \in MeasRows /\ meas'.status = "ready" /\ meas'.outcome = meas.outcome
    BY <1>1, <2>1 DEF MeasRows
  <2> QED
    BY <1>1, <2>1, <2>2, HandedOff
<1>2. CASE UNCHANGED results
  BY <1>2, HandoffFacts, ResultsTypes, HandoffStep DEF results
<1> QED
  BY <1>1, <1>2 DEF HandsOff, results

LEMMA OptInStep ==
  ASSUME ResultsInv, FixVerified', OptIn
  PROVE  ResultsInv'
<1>1. /\ handoff.status # "completed" /\ meas \in MeasRows /\ handoff' = NewHandoff
      /\ UNCHANGED <<points, clock, worker>>
      /\ meas' = [meas EXCEPT !.status = "ready", !.prospective = TRUE]
  BY ResultsTypes DEF ResultsInv, HandoffAgrees, OptIn
<1>2. meas' \in MeasRows /\ meas'.status = "ready" /\ meas'.outcome = meas.outcome
  BY <1>1 DEF MeasRows
<1> QED
  BY <1>1, <1>2, HandedOff

LEMMA ActivateStep ==
  ASSUME ResultsInv, FixVerified => FixVerified', NEW w \in Workers, Activate(w)
  PROVE  ResultsInv'
<1>1. CASE UNCHANGED <<meas, points, handoff, clock>> /\ Turns(w, "retry")
  BY <1>1, JustWorker
<1>2. CASE /\ HandoffHeld(w) /\ meas' = [meas EXCEPT !.status = "observing"]
           /\ points' = Scheduled /\ handoff' = Unlocked("completed") /\ Rests(w)
           /\ UNCHANGED clock
  <2>1. handoff.status = "processing" /\ handoff.status # "completed" /\ ~handoff.notified
        /\ FixVerified /\ meas.status = "ready" /\ meas.outcome = "none"
        /\ meas \in MeasRows /\ points \in [1 .. Points -> PointRows] /\ clock \in ClockRows
        /\ \A k \in 1 .. Points : points[k].status = "none"
    BY <1>2, NotStarted, HandoffFacts, ResultsTypes DEF HandoffHeld, ResultsInv, HandoffAgrees
  <2>2. /\ handoff' \in HandoffRows /\ handoff'.status = "completed" /\ handoff'.token = Nobody
        /\ ~handoff'.notified
    BY <1>2, <2>1, UnlockedIs, HandoffFacts
  <2>3. meas' \in MeasRows /\ meas'.status = "observing" /\ meas'.outcome = "none"
    BY <1>2, <2>1 DEF MeasRows
  <2>4. \A k \in 1 .. Points : points'[k] = [NoPoint EXCEPT !.status = "open"]
    BY <1>2, <2>1 DEF Scheduled
  <2>5. [NoPoint EXCEPT !.status = "open"] \in PointRows
        /\ [NoPoint EXCEPT !.status = "open"].status = "open"
    BY DEF NoPoint, PointRows
  <2>6. points' \in [1 .. Points -> PointRows] /\ \A k \in 1 .. Points : points'[k].status = "open"
    BY <1>2, <2>1, <2>4, <2>5 DEF Scheduled
  <2>7. worker' \in [Workers -> WorkerRows]
    BY <1>2, WorkerGoes
  <2>8. ResultsTypeOK'
    BY <2>1, <2>2, <2>3, <2>6, <2>7, <1>2, ResultsTypesKept
  <2>9. 1 \in 1 .. Points /\ 2 .. Points \subseteq 1 .. Points /\ Points \in 1 .. Points
    BY ResultsTypes
  <2>10. HandoffAgrees'
    BY <2>1, <2>2, <2>3, <2>6, <2>8 DEF HandoffAgrees
  <2>11. EvidenceOK(meas', points')
    BY <2>3, <2>6, <2>9 DEF EvidenceOK
  <2>12. ResultsSound'
    BY <2>2, <2>3, <2>6, <2>9 DEF ResultsSound
  <2> QED
    BY <2>10, <2>11, <2>12, EvidenceKept DEF ResultsInv
<1> QED
  BY <1>1, <1>2 DEF Activate, Completes

-----------------------------------------------------------------------------
(* Steps of a measurement that runs.                                       *)

\* A step that computes, defers or waits no longer for checkpoints, and does not conclude.
LEMMA PointsStep ==
  ASSUME ResultsInv, FixVerified => FixVerified', UNCHANGED <<meas, handoff, clock>>,
         worker' \in [Workers -> WorkerRows],
         \A v \in Workers : worker'[v].pc = "end" => worker[v].pc = "end" \/ meas.status = "observing",
         points' \in [1 .. Points -> PointRows],
         \A k \in 1 .. Points :
           /\ points'[k].waiting => points'[k].status = "open"
           /\ \/ points'[k].status = points[k].status
              \/ /\ meas.status = "observing" /\ k # Points
                 /\ points[k].status = "open" /\ points'[k].status \in Labels
                 /\ k # 1 => points'[k].status # "directional"
  PROVE  ResultsInv'
<1>1. ResultsTypeOK' /\ Points \in 1 .. Points /\ 1 \in 1 .. Points /\ 2 .. Points \subseteq 1 .. Points
      /\ \A k \in 2 .. Points : k # 1
  BY ResultsTypes, ResultsTypesKept
<1>2. \A k \in 1 .. Points : points'[k].status = "none" <=> points[k].status = "none"
  BY DEF Labels
<1>3. HandoffAgrees'
  BY <1>1, <1>2, Zenon DEF ResultsInv, HandoffAgrees
<1>4. \A k \in 2 .. Points : points'[k].status = "directional" <=> points[k].status = "directional"
  BY <1>1
<1>5. EvidenceOK(meas', points')
  <2>1. EvidenceOK(meas, points)
    BY EvidenceIs DEF ResultsInv
  <2>2. \A k \in 1 .. Points : points'[k].status = "open" => points[k].status = "open"
    BY DEF Labels
  <2>3. meas.status = "observing" => points'[Points].status = "open"
    BY <1>1, Running
  <2> QED
    BY <1>1, <1>4, <2>1, <2>2, <2>3 DEF EvidenceOK
<1>6. ResultsSound'
  BY <1>1, <1>2 DEF ResultsInv, ResultsSound
<1> QED
  BY <1>3, <1>5, <1>6, EvidenceKept DEF ResultsInv

\* The conclusion, of rows in which one checkpoint decides, or none.
LEMMA ConcludesStep ==
  ASSUME ResultsInv, FixVerified => FixVerified', meas.status = "observing",
         NEW rows \in [1 .. Points -> PointRows], NEW out \in Labels, Concludes(rows, out),
         \A k \in 1 .. Points : rows[k].status # "none" /\ (rows[k].waiting => rows[k].status = "open"),
         out = "insufficient" => \A k \in 2 .. Points : rows[k].status # "directional",
         out = "directional" => meas.prospective = FALSE
           /\ \E j \in 2 .. Points : \A k \in 2 .. Points : rows[k].status = "directional" <=> k = j,
         UNCHANGED <<handoff, clock>>, worker' \in [Workers -> WorkerRows]
  PROVE  ResultsInv'
<1>1. /\ meas \in MeasRows /\ handoff.status = "completed" /\ ~handoff.notified /\ FixVerified
      /\ 1 \in 1 .. Points /\ 2 .. Points \subseteq 1 .. Points
      /\ handoff.token = Nobody
  <2>1. handoff.status = "completed" /\ ~handoff.notified
    BY Running
  <2>2. FixVerified
    BY <2>1 DEF ResultsInv, HandoffAgrees
  <2> QED
    BY <2>1, <2>2, ResultsTypes, HandoffFacts
<1>2. /\ meas' \in MeasRows /\ meas'.status = "terminal" /\ meas'.outcome = out
      /\ meas'.prospective = meas.prospective
  BY <1>1 DEF Concludes, MeasRows
<1>3. [NoPoint EXCEPT !.status = "closed"] \in PointRows
      /\ [NoPoint EXCEPT !.status = "closed"].status = "closed"
      /\ [NoPoint EXCEPT !.status = "closed"].waiting = FALSE
  BY DEF NoPoint, PointRows
<1>4. points' \in [1 .. Points -> PointRows]
  BY <1>3 DEF Concludes
<1>5. \A k \in 1 .. Points :
        points'[k] = IF rows[k].status = "open" THEN [NoPoint EXCEPT !.status = "closed"] ELSE rows[k]
  BY DEF Concludes
<1>6. \A k \in 1 .. Points : /\ points'[k].status \notin {"none", "open"} /\ ~points'[k].waiting
                             /\ points'[k].status = "directional" <=> rows[k].status = "directional"
  BY <1>3, <1>5
<1>7. ResultsTypeOK'
  BY <1>2, <1>4, ResultsTypes, ResultsTypesKept
<1>8. HandoffAgrees'
  BY <1>1, <1>2, <1>6, <1>7 DEF HandoffAgrees
<1>9. EvidenceOK(meas', points')
  <2>1. CASE out = "insufficient"
    BY <1>1, <1>2, <1>6, <2>1 DEF EvidenceOK
  <2>2. CASE out = "directional"
    BY <1>1, <1>2, <1>6, <2>2 DEF EvidenceOK
  <2> QED
    BY <2>1, <2>2 DEF Labels
<1>10. ResultsSound'
  BY <1>1, <1>2, <1>6 DEF ResultsSound, Labels
<1> QED
  BY <1>8, <1>9, <1>10, EvidenceKept DEF ResultsInv

LEMMA EndMeasurementStep ==
  ASSUME ResultsInv, FixVerified => FixVerified', NEW w \in Workers, EndMeasurement(w)
  PROVE  ResultsInv'
<1>1. UNCHANGED <<handoff, clock>> /\ Rests(w) /\ worker[w].pc = "end"
  BY DEF EndMeasurement, Works
<1>2. CASE UNCHANGED <<meas, points>>
  BY <1>1, <1>2, JustWorker
<1>3. CASE meas.status # "terminal" /\ Concludes(points, "insufficient")
  <2>1. meas.status = "observing"
    BY <1>1, <1>3 DEF ResultsInv, ResultsSound
  <2>2. worker' \in [Workers -> WorkerRows]
    BY <1>1, WorkerGoes
  <2>3. /\ points \in [1 .. Points -> PointRows] /\ "insufficient" \in Labels
        /\ \A k \in 1 .. Points : points[k].status # "none" /\ (points[k].waiting => points[k].status = "open")
        /\ \A k \in 2 .. Points : points[k].status # "directional"
    BY <2>1, Running, ResultsTypes DEF ResultsInv, ResultsSound, Labels
  <2> QED
    BY <1>1, <1>3, <2>1, <2>2, <2>3, ConcludesStep
<1> QED
  BY <1>2, <1>3 DEF EndMeasurement, Concludable, Unfinished

LEMMA DeferStep ==
  ASSUME ResultsInv, FixVerified => FixVerified', NEW w \in Workers, Defer(w)
  PROVE  ResultsInv'
<1>1. UNCHANGED <<meas, handoff, clock>> /\ Rests(w)
  BY DEF Defer
<1>2. CASE UNCHANGED points
  BY <1>1, <1>2, JustWorker
<1>3. CASE \E k \in 1 .. Points : points[k].status = "open" /\ points' = [points EXCEPT ![k].waiting = TRUE]
  <2>1. PICK k \in 1 .. Points : points[k].status = "open" /\ points' = [points EXCEPT ![k].waiting = TRUE]
    BY <1>3
  <2>2. points' \in [1 .. Points -> PointRows] /\ points'[k].status = "open"
        /\ \A j \in 1 .. Points : j # k => points'[j] = points[j]
    BY <2>1, ResultsTypes DEF PointRows
  <2>3. \A j \in 1 .. Points : points[j].waiting => points[j].status = "open"
    BY DEF ResultsInv, ResultsSound
  <2>4. \A j \in 1 .. Points : points'[j].status = points[j].status
                               /\ (points'[j].waiting => points'[j].status = "open")
    BY <2>1, <2>2, <2>3
  <2> QED
    BY <1>1, <2>2, <2>4, WorkerGoes, PointsStep
<1>4. worker[w].at \in 0 .. Points /\ points \in [1 .. Points -> PointRows] /\ Points \in Nat
  BY ResultsTypes DEF WorkerRows
<1>5. CASE worker[w].at = 0
  BY <1>2, <1>4, <1>5 DEF Defer
<1>6. CASE worker[w].at # 0
  BY <1>2, <1>3, <1>4, <1>6 DEF Defer
<1> QED
  BY <1>5, <1>6

LEMMA DelayEndsStep ==
  ASSUME ResultsInv, FixVerified => FixVerified', DelayEnds
  PROVE  ResultsInv'
<1>1. UNCHANGED <<meas, clock, worker>> /\ worker \in [Workers -> WorkerRows] /\ clock \in ClockRows
  BY ResultsTypes DEF DelayEnds
<1>2. CASE handoff' = [handoff EXCEPT !.waiting = FALSE] /\ UNCHANGED points
  <2>1. /\ handoff' \in HandoffRows /\ handoff'.status = handoff.status
        /\ handoff'.token = handoff.token /\ handoff'.notified = handoff.notified
    BY <1>2, HandoffFacts DEF HandoffRows
  <2> QED
    BY <1>1, <1>2, <2>1, HandoffFacts, HandoffStep
<1>3. ASSUME NEW k \in 1 .. Points, points' = [points EXCEPT ![k].waiting = FALSE], UNCHANGED handoff
      PROVE  ResultsInv'
  <2>1. points' \in [1 .. Points -> PointRows] /\ points'[k].status = points[k].status
        /\ points'[k].waiting = FALSE /\ \A j \in 1 .. Points : j # k => points'[j] = points[j]
    BY <1>3, ResultsTypes DEF PointRows
  <2>2. \A j \in 1 .. Points : points[j].waiting => points[j].status = "open"
    BY DEF ResultsInv, ResultsSound
  <2> QED
    BY <1>1, <1>3, <2>1, <2>2, PointsStep
<1> QED
  BY <1>2, <1>3 DEF DelayEnds

-----------------------------------------------------------------------------
(* The evaluation.                                                         *)

LEMMA DueIs ==
  ASSUME ResultsInv
  PROVE  \A k \in DuePoints : k \in 1 .. Points /\ points[k].status = "open"
<1>1. clock.due \in 0 .. Points
  BY ResultsTypes DEF ClockRows
<1> QED
  BY <1>1, ResultsTypes DEF DuePoints

LEMMA LabelIs ==
  ASSUME ResultsInv, NEW s \in Labels
  PROVE  /\ Label(s) \in Labels
         /\ Label(s) = "directional" => meas.prospective = FALSE
<1>1. meas.prospective \in BOOLEAN
  BY ResultsTypes DEF MeasRows
<1> QED
  BY <1>1 DEF Label, Labels

\* The rows a worker has computed so far, in its transaction.
LEMMA ComputedIs ==
  ASSUME ResultsInv, NEW D \in SUBSET DuePoints, NEW says, \A k \in D : says[k] \in Labels
  PROVE  /\ Computed(D, says) \in [1 .. Points -> PointRows]
         /\ \A k \in D : /\ Computed(D, says)[k].status = Label(says[k])
                         /\ Computed(D, says)[k].waiting = FALSE
         /\ \A k \in 1 .. Points : k \notin D => Computed(D, says)[k] = points[k]
<1>1. \A k \in D : k \in 1 .. Points
  BY DueIs
<1>2. \A s \in Labels : /\ [NoPoint EXCEPT !.status = s] \in PointRows
                        /\ [NoPoint EXCEPT !.status = s].status = s
                        /\ [NoPoint EXCEPT !.status = s].waiting = FALSE
  BY DEF NoPoint, PointRows
<1>3. \A k \in D : Label(says[k]) \in Labels
  BY LabelIs
<1>4. points \in [1 .. Points -> PointRows]
  BY ResultsTypes
<1>5. \A k \in D : Computed(D, says)[k] = [NoPoint EXCEPT !.status = Label(says[k])]
  BY <1>1 DEF Computed
<1>6. \A k \in 1 .. Points : k \notin D => Computed(D, says)[k] = points[k]
  BY DEF Computed
<1>7. \A k \in D : /\ Computed(D, says)[k] \in PointRows
                   /\ Computed(D, says)[k].status = Label(says[k])
                   /\ Computed(D, says)[k].waiting = FALSE
  <2> TAKE k \in D
  <2>1. PICK s \in Labels : s = Label(says[k])
    BY <1>3
  <2>2. Computed(D, says)[k] = [NoPoint EXCEPT !.status = s]
    BY <1>5, <2>1
  <2>3. PICK r \in PointRows : r = [NoPoint EXCEPT !.status = s] /\ r.status = s /\ r.waiting = FALSE
    BY <1>2
  <2>4. Computed(D, says)[k] = r
    BY <2>2, <2>3
  <2> QED
    BY <2>1, <2>3, <2>4
<1>8. Computed(D, says) \in [1 .. Points -> PointRows]
  <2>1. Computed(D, says) = [k \in 1 .. Points |-> Computed(D, says)[k]]
    BY DEF Computed
  <2>2. \A k \in 1 .. Points : Computed(D, says)[k] \in PointRows
    BY <1>4, <1>6, <1>7
  <2> QED
    BY <2>1, <2>2
<1> QED
  BY <1>6, <1>7, <1>8

\* A checkpoint at which the evaluation goes on has evidence, and it does not decide.
LEMMA GoesOn ==
  ASSUME ResultsInv, NEW says \in [DuePoints -> Labels \cup Failures],
         NEW k \in DuePoints, k \notin Halting(says)
  PROVE  /\ says[k] \in Labels
         /\ k # 1 => Label(says[k]) # "directional" /\ k # Points
<1>1. says[k] \notin Failures /\ ~TerminalDecision(k, says[k])
  BY DEF Halting
<1>2. Exhausted(Points)
  BY ResultsTypes DEF Exhausted
<1> QED
  BY <1>1, <1>2 DEF TerminalDecision

\* What is computed keeps what the conclusion needs.
LEMMA ComputedRows ==
  ASSUME ResultsInv, meas.status = "observing",
         NEW D \in SUBSET DuePoints, NEW says, \A k \in D : says[k] \in Labels
  PROVE  /\ \A k \in 1 .. Points :
              /\ Computed(D, says)[k].status # "none"
              /\ Computed(D, says)[k].waiting => Computed(D, says)[k].status = "open"
         /\ \A k \in 2 .. Points : Computed(D, says)[k].status = "directional" =>
              k \in D /\ Label(says[k]) = "directional"
<1>1. \A k \in D : Label(says[k]) \in Labels
  BY LabelIs
<1>2. \A k \in 1 .. Points : points[k].waiting => points[k].status = "open"
  BY DEF ResultsInv, ResultsSound
<1>3. /\ \A k \in 1 .. Points : points[k].status # "none"
      /\ \A k \in 2 .. Points : points[k].status # "directional"
  BY Running
<1>4. /\ \A k \in D : /\ Computed(D, says)[k].status = Label(says[k])
                      /\ Computed(D, says)[k].waiting = FALSE
      /\ \A k \in 1 .. Points : k \notin D => Computed(D, says)[k] = points[k]
  BY ComputedIs
<1>5. 2 .. Points \subseteq 1 .. Points
  BY ResultsTypes
<1> QED
  BY <1>1, <1>2, <1>3, <1>4, <1>5 DEF Labels

LEMMA EvaluateAllStep ==
  ASSUME ResultsInv, FixVerified => FixVerified', meas.status = "observing",
         NEW says \in [DuePoints -> Labels \cup Failures], EvaluateAll(says),
         UNCHANGED <<handoff, clock>>
  PROVE  ResultsInv'
<1>1. /\ worker' = worker /\ worker \in [Workers -> WorkerRows] /\ Points \in 2 .. Points
      /\ 1 # Points /\ 1 \in 1 .. Points /\ 2 .. Points \subseteq 1 .. Points /\ \A k \in 2 .. Points : k # 1
  BY ResultsTypes DEF EvaluateAll
<1>2. \A k \in DuePoints : says[k] \in Labels /\ (k # 1 => Label(says[k]) # "directional" /\ k # Points)
  BY GoesOn DEF EvaluateAll
<1>3. PICK D \in SUBSET DuePoints : D = DuePoints
  OBVIOUS
<1>4. D \in SUBSET DuePoints
  BY <1>3
<1> DEFINE rows == Computed(D, says)
<1>5. /\ \A k \in D : says[k] \in Labels /\ (k # 1 => Label(says[k]) # "directional" /\ k # Points)
      /\ rows \in [1 .. Points -> PointRows]
      /\ \A k \in D : rows[k].status = Label(says[k]) /\ rows[k].waiting = FALSE
      /\ \A k \in 1 .. Points : k \notin D => rows[k] = points[k]
  <2>1. \A k \in D : says[k] \in Labels /\ (k # 1 => Label(says[k]) # "directional" /\ k # Points)
    BY <1>2, <1>3
  <2> QED
    BY <1>4, <2>1, ComputedIs
<1>6. /\ \A k \in 1 .. Points : rows[k].status # "none" /\ (rows[k].waiting => rows[k].status = "open")
      /\ \A k \in 2 .. Points : rows[k].status # "directional"
  BY <1>1, <1>4, <1>5, ComputedRows
<1>7. PICK r \in [1 .. Points -> PointRows] : r = rows
  BY <1>5
<1> HIDE DEF rows
<1>8. CASE Concludes(rows, "insufficient")
  <2>1. Concludes(r, "insufficient") /\ "insufficient" \in Labels
    BY <1>7, <1>8 DEF Labels
  <2> QED
    BY <1>1, <1>6, <1>7, <2>1, ConcludesStep
<1>9. CASE points' = rows /\ UNCHANGED meas
  <2>1. points' = r
    BY <1>7, <1>9
  <2>2. \A k \in D : points[k].status = "open" /\ Label(says[k]) \in Labels /\ k # Points
    BY <1>1, <1>4, <1>5, DueIs, LabelIs
  <2>3. ASSUME NEW k \in 1 .. Points
        PROVE  \/ r[k].status = points[k].status
               \/ /\ k # Points /\ points[k].status = "open" /\ r[k].status \in Labels
                  /\ k # 1 => r[k].status # "directional"
    BY <1>7, <1>5, <2>2
  <2> QED
    BY <1>1, <1>6, <1>7, <1>9, <2>1, <2>3, PointsStep
<1> QED
  BY <1>8, <1>9, <1>3 DEF EvaluateAll, rows

LEMMA EvaluateUpToStep ==
  ASSUME ResultsInv, FixVerified => FixVerified', meas.status = "observing",
         NEW says \in [DuePoints -> Labels \cup Failures], NEW k \in DuePoints,
         EvaluateUpTo(k, says), UNCHANGED <<handoff, clock>>
  PROVE  ResultsInv'
<1> DEFINE D == {j \in DuePoints : j <= k}
<1>1. /\ worker' = worker /\ worker \in [Workers -> WorkerRows] /\ says[k] \in Labels
      /\ 2 .. Points \subseteq 1 .. Points /\ \A j \in 2 .. Points : j # 1
  BY ResultsTypes DEF EvaluateUpTo
<1>2. k \in 1 .. Points /\ D \in SUBSET DuePoints /\ \A j \in DuePoints : j \in 1 .. Points
  BY DueIs
<1>3. k \in Halting(says) /\ \A j \in Halting(says) : k <= j
  BY DEF EvaluateUpTo, FirstHalt
<1>4. k # 1
  BY <1>1, <1>3 DEF Halting, TerminalDecision, Labels, Failures
<1>5. \A j \in D : j # k => j \notin Halting(says)
  BY <1>2, <1>3
<1>6. \A j \in D : says[j] \in Labels /\ (j # 1 /\ j # k => Label(says[j]) # "directional")
  BY <1>1, <1>2, <1>5, GoesOn
<1> DEFINE rows == Computed(D, says)
<1>7. k \in D
  BY <1>2
<1> HIDE DEF D
<1>8. rows \in [1 .. Points -> PointRows] /\ rows[k].status = Label(says[k])
  BY <1>2, <1>6, <1>7, ComputedIs
<1>9. /\ \A j \in 1 .. Points : rows[j].status # "none" /\ (rows[j].waiting => rows[j].status = "open")
      /\ \A j \in 2 .. Points : rows[j].status = "directional" => j \in D /\ Label(says[j]) = "directional"
  BY <1>2, <1>6, ComputedRows
<1>10. \A j \in 2 .. Points : rows[j].status = "directional" => j = k
  BY <1>1, <1>6, <1>9
<1>11. Label(says[k]) \in Labels /\ (Label(says[k]) = "directional" => meas.prospective = FALSE)
  BY <1>1, LabelIs
<1>12. Concludes(rows, Label(says[k]))
  BY DEF EvaluateUpTo, D
<1> HIDE DEF rows
<1>13. PICK r \in [1 .. Points -> PointRows], out \in Labels : r = rows /\ out = Label(says[k])
  BY <1>11, <1>8
<1>14. k \in 2 .. Points
  BY <1>2, <1>4, ResultsTypes
<1>15. out = "directional" =>
         \E j \in 2 .. Points : \A i \in 2 .. Points : r[i].status = "directional" <=> i = j
  BY <1>8, <1>10, <1>13, <1>14
<1>16. out = "insufficient" => \A j \in 2 .. Points : r[j].status # "directional"
  BY <1>8, <1>10, <1>13
<1>17. Concludes(r, out)
  BY <1>12, <1>13
<1> QED
  BY <1>1, <1>9, <1>11, <1>13, <1>15, <1>16, <1>17, ConcludesStep

LEMMA EvaluateStep ==
  ASSUME ResultsInv, FixVerified => FixVerified', NEW w \in Workers, Evaluate(w)
  PROVE  ResultsInv'
<1>1. UNCHANGED <<handoff, clock>> /\ meas.status = "observing"
  BY DEF Evaluate, MeasurementDue
<1>2. PICK says \in [DuePoints -> Labels \cup Failures] :
        \/ EvaluateAll(says)
        \/ \E k \in DuePoints : EvaluateUpTo(k, says) \/ EvaluationFails(w, k, says)
  BY DEF Evaluate
<1>3. ASSUME NEW k \in DuePoints, EvaluationFails(w, k, says)
      PROVE  ResultsInv'
  <2>1. k \in 1 .. Points
    BY DueIs
  <2>2. /\ worker' \in [Workers -> WorkerRows]
        /\ \A v \in Workers : worker'[v].pc = "end" =>
             worker[v].pc = "end" \/ meas.status = "observing"
    BY <1>1, <1>3, <2>1, WorkerGoes DEF EvaluationFails
  <2> QED
    BY <1>1, <1>3, <2>2, HandoffFacts, ResultsTypes, HandoffStep DEF EvaluationFails
<1> QED
  BY <1>1, <1>2, <1>3, EvaluateAllStep, EvaluateUpToStep

-----------------------------------------------------------------------------
(* The fix and its measurement together.                                   *)

\* A fix that has ended stays as it is: every statement that moves one asks for an active
\* signature.
LEMMA EndedStays ==
  ASSUME ~fix.active, Next
  PROVE  UNCHANGED fix
<1>1. \A status, sig : ~FixIn(status, sig)
  BY DEF FixIn
<1>2. \A S : ~FixAt(S)
  BY <1>1 DEF FixAt
<1>3. ASSUME NEW c \in Calls, Calling(c)
      PROVE  UNCHANGED fix
  BY <1>1, <1>2, <1>3 DEF Calling, Resume, Begin, Finalize, StillPreparing, Claim, Look, Renew,
     Renewed, Open, RenewAgain, Mark, Fail, Reset
<1>4. ASSUME NEW t \in Ticks, Ticking(t)
      PROVE  UNCHANGED fix
  BY <1>1, <1>2, <1>4 DEF Ticking, ReconcilePR, Watched, TakeUp, Fetch, Observe, Observable, Pass,
     Verifiable, FailVerification, RetryLater, Retryable, EndHere, Terminable
<1>5. ASSUME Person
      PROVE  UNCHANGED fix
  BY <1>1, <1>2, <1>5 DEF Person, Approve, Reopen, Terminate, ReadForEvidence, GiveEvidence,
     Observable, Verifiable
<1>6. ASSUME World \/ Trouble
      PROVE  UNCHANGED fix
  BY <1>6 DEF World, Time, Lapses, Ages, ComesDue, Expires, Only, MovesBase, Deploys, Decides,
     Trouble, Troubled, Dies, Stops
<1> QED
  BY <1>3, <1>4, <1>5, <1>6 DEF Next

LEMMA VerifiedStays ==
  ASSUME Inv, Next, FixVerified
  PROVE  FixVerified'
<1>1. ~fix.active
  BY DEF Inv, RecordsAgree, FixVerified
<1> QED
  BY <1>1, EndedStays DEF FixVerified

LEMMA ResultsSame ==
  ASSUME ResultsInv, FixVerified => FixVerified', UNCHANGED results
  PROVE  ResultsInv'
BY HandoffFacts, ResultsTypes, HandoffStep DEF results

MeasuredInv == Inv /\ ResultsInv

LEMMA MeasuredInitInv == MeasuredInit => MeasuredInv
<1> SUFFICES ASSUME Init, ResultsInit PROVE MeasuredInv
  BY DEF MeasuredInit
<1>1. Inv
  BY InitInv
<1>2. /\ meas = [status |-> "none", prospective |-> FALSE, outcome |-> "none"] /\ handoff = NoHandoff
      /\ points = [k \in 1 .. Points |-> NoPoint] /\ clock = [due |-> 0, late |-> FALSE]
      /\ worker = [w \in Workers |-> Resting]
  BY DEF ResultsInit
<1>3. Points \in Nat /\ Points >= 2 /\ 1 \in 1 .. Points /\ 2 .. Points \subseteq 1 .. Points
  BY MeasurementAssumption
<1>4. /\ meas \in MeasRows /\ meas.status = "none" /\ meas.outcome = "none"
  BY <1>2 DEF MeasRows
<1>5. /\ handoff \in HandoffRows /\ handoff.status = "none" /\ handoff.token = Nobody
      /\ handoff.notified = FALSE
  BY <1>2, NewHandoffIs
<1>6. NoPoint \in PointRows /\ NoPoint.status = "none" /\ NoPoint.waiting = FALSE
  BY DEF NoPoint, PointRows
<1>7. points \in [1 .. Points -> PointRows]
      /\ \A k \in 1 .. Points : points[k].status = "none" /\ ~points[k].waiting
  BY <1>2, <1>6
<1>8. clock \in ClockRows
  BY <1>2, <1>3 DEF ClockRows
<1>9. Resting \in WorkerRows /\ Resting.pc = "rest"
  BY <1>3 DEF Resting, WorkerRows
<1>10. worker \in [Workers -> WorkerRows] /\ \A w \in Workers : worker[w].pc # "end"
  BY <1>2, <1>9
<1>11. ResultsTypeOK
  BY <1>4, <1>5, <1>7, <1>8, <1>10
     DEF ResultsTypeOK, MeasRows, HandoffRows, PointRows, ClockRows, WorkerRows
<1>12. HandoffAgrees
  <2>1. ~(\A k \in 1 .. Points : points[k].status # "none")
    BY <1>3, <1>7
  <2>2. (meas.status # "none") = (handoff.status # "none")
    BY <1>4, <1>5
  <2>3. (handoff.status = "completed") = (meas.status \in {"observing", "terminal"})
    BY <1>4, <1>5
  <2>4. (handoff.status = "completed") = (\A k \in 1 .. Points : points[k].status # "none")
    BY <1>5, <2>1
  <2>5. (handoff.status = "processing") = (handoff.token # Nobody)
    BY <1>5
  <2> QED
    BY <1>5, <1>11, <2>2, <2>3, <2>4, <2>5, Zenon DEF HandoffAgrees
<1>13. VerdictHasEvidence
  <2>1. {k \in 2 .. Points : points[k].status = "directional"} = {}
    BY <1>3, <1>7
  <2>2. ~(\E k \in 1 .. Points : points[k].status = "open")
    BY <1>7
  <2> QED
    BY <1>4, <2>1, <2>2 DEF VerdictHasEvidence
<1>14. ResultsSound
  BY <1>4, <1>7, <1>10 DEF ResultsSound
<1> QED
  BY <1>1, <1>12, <1>13, <1>14 DEF MeasuredInv, ResultsInv

LEMMA MeasuringStep ==
  ASSUME ResultsInv, Measuring
  PROVE  ResultsInv'
<1>1. FixVerified /\ FixVerified'
  BY DEF Measuring, FixVerified, vars
<1>2. ASSUME NEW w \in Workers, Working(w)
      PROVE  ResultsInv'
  BY <1>1, <1>2, ClaimHandoffStep, ActivateStep, RetryHandoffStep, ExpireHandoffStep, AlertStep,
     EvaluateStep, DeferStep, EndMeasurementStep DEF Working
<1>3. ASSUME NEW w \in Workers, ActivationFails(w) \/ WorkerDies(w)
      PROVE  ResultsInv'
  BY <1>1, <1>3, JustWorker DEF ActivationFails, WorkerDies
<1> QED
  BY <1>1, <1>2, <1>3, OptInStep, LeaseLapsesStep, DelayEndsStep, DayComesStep DEF Measuring

LEMMA MeasuredNextInv == MeasuredInv /\ [MeasuredNext]_<<vars, results>> => MeasuredInv'
<1> SUFFICES ASSUME MeasuredInv, [MeasuredNext]_<<vars, results>> PROVE MeasuredInv'
  OBVIOUS
<1>1. Inv /\ ResultsInv
  BY DEF MeasuredInv
<1>2. CASE Next /\ WithHandoff
  <2>1. Inv'
    BY <1>1, <1>2, NextInv
  <2>2. FixVerified => FixVerified'
    BY <1>1, <1>2, VerifiedStays
  <2>3. ResultsInv'
    BY <1>1, <1>2, <2>2, HandsOffStep, ResultsSame DEF WithHandoff
  <2> QED
    BY <2>1, <2>3 DEF MeasuredInv
<1>3. CASE Measuring
  <2>1. Inv'
    BY <1>1, <1>3, NextInv DEF Measuring
  <2> QED
    BY <1>1, <1>3, <2>1, MeasuringStep DEF MeasuredInv
<1>4. CASE UNCHANGED <<vars, results>>
  <2>1. Inv'
    BY <1>1, <1>4, NextInv
  <2>2. FixVerified => FixVerified'
    BY <1>4 DEF FixVerified, vars
  <2> QED
    BY <1>1, <1>4, <2>1, <2>2, ResultsSame DEF MeasuredInv
<1> QED
  BY <1>2, <1>3, <1>4 DEF MeasuredNext

\* Fix, hand-off and measurement never contradict each other, however long a worker takes
\* and whoever else claims meanwhile (CompleteSiteFixMeasurementHandoff asks for the token).
THEOREM HandoffStaysTogether == MeasuredSpec => []HandoffAgrees
BY MeasuredInitInv, MeasuredNextInv, PTL DEF MeasuredSpec, MeasuredInv, ResultsInv

\* One checkpoint after the early signal decides, or none, for any number of checkpoints
\* (siteFixTerminalDecision).
THEOREM VerdictsRestOnEvidence == MeasuredSpec => []VerdictHasEvidence
BY MeasuredInitInv, MeasuredNextInv, PTL DEF MeasuredSpec, MeasuredInv, ResultsInv

\* The records of the fix agree as well while its measurement runs.
THEOREM FixUndisturbed == MeasuredSpec => []RecordsAgree
BY MeasuredInitInv, MeasuredNextInv, PTL DEF MeasuredSpec, MeasuredInv, Inv

-----------------------------------------------------------------------------
(* What was measured stays.                                                *)

Kept ==
  /\ meas.status = "terminal" => UNCHANGED meas
  /\ \A k \in 1 .. Points : points[k].status \in Labels \cup {"closed"} => points'[k] = points[k]

LEMMA ConcludesKeeps ==
  ASSUME meas.status # "terminal", NEW rows, NEW out, Concludes(rows, out),
         \A k \in 1 .. Points : points[k].status \in Labels \cup {"closed"} => rows[k] = points[k]
  PROVE  Kept
<1>1. ASSUME NEW k \in 1 .. Points, points[k].status \in Labels \cup {"closed"}
      PROVE  points'[k] = points[k]
  <2>1. rows[k] = points[k] /\ points[k].status # "open"
    BY <1>1 DEF Labels
  <2> QED
    BY <2>1 DEF Concludes
<1> QED
  BY <1>1 DEF Kept

LEMMA ComputedKeeps ==
  ASSUME ResultsInv, NEW D \in SUBSET DuePoints, NEW says
  PROVE  \A k \in 1 .. Points :
           points[k].status \in Labels \cup {"closed"} => Computed(D, says)[k] = points[k]
<1> SUFFICES ASSUME NEW k \in 1 .. Points, points[k].status \in Labels \cup {"closed"}
             PROVE  Computed(D, says)[k] = points[k]
  OBVIOUS
<1>1. k \notin D
  BY DueIs DEF Labels
<1> QED
  BY <1>1 DEF Computed

LEMMA EvaluateKeeps ==
  ASSUME ResultsInv, NEW w \in Workers, Evaluate(w)
  PROVE  Kept
<1>1. meas.status = "observing" /\ meas.status # "terminal"
  BY DEF Evaluate, MeasurementDue
<1>2. PICK says \in [DuePoints -> Labels \cup Failures] :
        \/ EvaluateAll(says)
        \/ \E k \in DuePoints : EvaluateUpTo(k, says) \/ EvaluationFails(w, k, says)
  BY DEF Evaluate
<1>3. CASE EvaluateAll(says)
  <2>1. DuePoints \in SUBSET DuePoints
    OBVIOUS
  <2>2. \A k \in 1 .. Points :
          points[k].status \in Labels \cup {"closed"} => Computed(DuePoints, says)[k] = points[k]
    BY <2>1, ComputedKeeps
  <2>3. CASE Concludes(Computed(DuePoints, says), "insufficient")
    BY <1>1, <2>2, <2>3, ConcludesKeeps
  <2>4. CASE points' = Computed(DuePoints, says) /\ UNCHANGED meas
    BY <2>2, <2>4 DEF Kept
  <2> QED
    BY <1>3, <2>3, <2>4 DEF EvaluateAll
<1>4. ASSUME NEW k \in DuePoints, EvaluateUpTo(k, says)
      PROVE  Kept
  <2> DEFINE D == {j \in DuePoints : j <= k}
  <2>1. D \in SUBSET DuePoints
    OBVIOUS
  <2>2. Concludes(Computed(D, says), Label(says[k]))
    BY <1>4 DEF EvaluateUpTo
  <2> HIDE DEF D
  <2>3. \A j \in 1 .. Points :
          points[j].status \in Labels \cup {"closed"} => Computed(D, says)[j] = points[j]
    BY <2>1, ComputedKeeps
  <2> QED
    BY <1>1, <2>2, <2>3, ConcludesKeeps
<1>5. ASSUME NEW k \in DuePoints, EvaluationFails(w, k, says)
      PROVE  Kept
  BY <1>5 DEF EvaluationFails, Kept
<1> QED
  BY <1>2, <1>3, <1>4, <1>5

LEMMA MeasuringKeeps ==
  ASSUME ResultsInv, Measuring
  PROVE  Kept
<1>1. \A k \in 1 .. Points : points[k].waiting => points[k].status \notin Labels \cup {"closed"}
  BY DEF ResultsInv, ResultsSound, Labels
<1>2. points \in [1 .. Points -> PointRows]
  BY ResultsTypes
<1>3. CASE UNCHANGED <<meas, points>>
  BY <1>3 DEF Kept
<1>4. CASE OptIn
  BY <1>4 DEF OptIn, Kept
<1>5. CASE DelayEnds
  <2>1. ASSUME NEW k \in 1 .. Points, points[k].waiting, points' = [points EXCEPT ![k].waiting = FALSE]
        PROVE  \A j \in 1 .. Points : points[j].status \in Labels \cup {"closed"} => points'[j] = points[j]
    BY <1>1, <1>2, <2>1
  <2> QED
    BY <1>5, <2>1 DEF DelayEnds, Kept
<1>6. ASSUME NEW w \in Workers, Activate(w)
      PROVE  Kept
  <2>1. CASE Unfinished /\ points' = Scheduled
    <3>1. ASSUME NEW k \in 1 .. Points, points[k].status \in Labels \cup {"closed"}
          PROVE  points'[k] = points[k]
      BY <2>1, <3>1 DEF Scheduled, Labels
    <3> QED
      BY <2>1, <3>1 DEF Kept, Unfinished
  <2> QED
    BY <1>3, <1>6, <2>1 DEF Activate
<1>7. ASSUME NEW w \in Workers, Evaluate(w)
      PROVE  Kept
  BY <1>7, EvaluateKeeps
<1>8. ASSUME NEW w \in Workers, Defer(w)
      PROVE  Kept
  <2>1. ASSUME NEW k, points[k].status = "open", points' = [points EXCEPT ![k].waiting = TRUE]
        PROVE  \A j \in 1 .. Points : points[j].status \in Labels \cup {"closed"} => points'[j] = points[j]
    BY <1>2, <2>1 DEF Labels
  <2> QED
    BY <1>3, <1>8, <2>1 DEF Defer, Kept
<1>9. ASSUME NEW w \in Workers, EndMeasurement(w)
      PROVE  Kept
  BY <1>3, <1>9, ConcludesKeeps DEF EndMeasurement, Concludable, Unfinished
<1>10. ASSUME NEW w \in Workers,
              \/ ClaimHandoff(w) \/ RetryHandoff(w) \/ ExpireHandoff(w) \/ ClaimAlert(w)
              \/ GiveAlert(w) \/ ActivationFails(w) \/ WorkerDies(w)
       PROVE  Kept
  BY <1>3, <1>10 DEF ClaimHandoff, RetryHandoff, ExpireHandoff, ClaimAlert, GiveAlert,
     ActivationFails, WorkerDies
<1>11. CASE LeaseLapses \/ DayComes
  BY <1>3, <1>11 DEF LeaseLapses, DayComes
<1> QED
  BY <1>4, <1>5, <1>6, <1>7, <1>8, <1>9, <1>10, <1>11 DEF Measuring, Working

LEMMA StepKeeps == MeasuredInv /\ [MeasuredNext]_<<vars, results>> => Kept
<1> SUFFICES ASSUME MeasuredInv, [MeasuredNext]_<<vars, results>> PROVE Kept
  OBVIOUS
<1>1. CASE Next /\ WithHandoff
  <2>1. CASE HandsOff /\ ~FixVerified
    <3>1. meas.status # "terminal" /\ points' = points
      BY <2>1 DEF MeasuredInv, ResultsInv, HandoffAgrees, HandsOff
    <3> QED
      BY <3>1 DEF Kept
  <2>2. CASE UNCHANGED results
    BY <2>2 DEF results, Kept
  <2> QED
    BY <1>1, <2>1, <2>2 DEF WithHandoff
<1>2. CASE Measuring
  BY <1>2, MeasuringKeeps DEF MeasuredInv
<1>3. CASE UNCHANGED <<vars, results>>
  BY <1>3 DEF results, Kept
<1> QED
  BY <1>1, <1>2, <1>3 DEF MeasuredNext

\* What was measured is never measured again, although a worker whose evaluation failed goes
\* on without the row's lock (TerminalizeSiteFixMeasurement asks for the status).
THEOREM MeasuredOnce == MeasuredSpec => ResultsAreFinal
<1>1. MeasuredInv /\ [MeasuredNext]_<<vars, results>> =>
        [/\ meas.status = "terminal" => UNCHANGED meas
         /\ \A k \in 1 .. Points :
              points[k].status \in Labels \cup {"closed"} => UNCHANGED points[k]]_results
  BY StepKeeps DEF Kept
<1> QED
  BY <1>1, MeasuredInitInv, MeasuredNextInv, PTL DEF MeasuredSpec, ResultsAreFinal
=============================================================================
