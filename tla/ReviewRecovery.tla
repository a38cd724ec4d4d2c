-------------------------- MODULE ReviewRecovery --------------------------
(***************************************************************************)
(* The review queue: QA verdicts, the recovery pass that works off blocked *)
(* drafts without a human, its automatic approvals, and what operators do  *)
(* in the review page.  Composed with TopicGeneration, whose topics and    *)
(* drafts it shares: a regeneration clears the drafts of a topic and       *)
(* reopens it, under the eyes of the generation passes.                    *)
(*                                                                         *)
(* A call here works on one draft: the pass lists rows and works them one  *)
(* after the other from those copies, and passes overlap, so any number of *)
(* copies may be at work.  The project has an active profile, its budget   *)
(* is not spent, and the platform contracts accept every draft.            *)
(***************************************************************************)
EXTENDS TopicGeneration

CONSTANTS Reviewers,      \* calls of the recovery pass and of the review page
          MaxTries,       \* maxReviewRecoveryAttempts
          MaxRequalify,   \* maxRequalifyBeforeRegen
          MaxRegens,      \* maxTopicRegenerations
          MaxRepairs,     \* draftRepairBudget, maxDraftRepairAttempts
          Outcomes,       \* bound: the verdicts QA gives, of those below
          ReviewAuto      \* whether cleared drafts are approved without a human

ASSUME ReviewAssumption ==
  /\ IsFiniteSet(Reviewers)
  /\ MaxTries \in Nat /\ MaxRequalify \in Nat /\ MaxRegens \in Nat \ {0} /\ MaxRepairs \in Nat
  /\ ReviewAuto \in BOOLEAN
  /\ Outcomes \subseteq {"clean", "editable", "unread", "stuck", "choice"}

VARIABLES qa,       \* qa[d]: the QA and repair columns of the row of d
          regens,   \* regens[t]: topics.recovery_attempts
          rev       \* rev[r]: what r has read and what it does next

rvars == <<vars, qa, regens, rev>>

\* What QA says of a draft: clean; an issue the editor can fix; no answer, which
\* normalisation files under fixable; a block the editor cannot lift; a choice
\* of a human; and the trace of a repair that failed.
Verdicts == {"clean", "editable", "unread", "stuck", "choice", "broken"}
CanFix(q) == q.block /\ q.verdict \in {"editable", "unread"}
HasClaimMap(q) == q.verdict \in {"editable", "stuck", "choice"}
NeedsHuman(q) == q.block /\ q.verdict = "choice"

\* Seeded fault: the budget holds for the bypass too.
BypassesBudget(q) == q.human /\ CanFix(q) /\ q.repairs < MaxRepairs

\* A fixable draft that was handed to a human is repaired once more, budget or not.
Bypasses(q) == q.human /\ CanFix(q)

NoQA == [block |-> FALSE, verdict |-> "clean", human |-> FALSE, repairs |-> 0, tries |-> 0]

\* The columns a new draft gets.  The writer has repaired it as long as it could.
NewQA == {q \in [block : BOOLEAN, verdict : Outcomes, human : BOOLEAN,
                 repairs : 0 .. MaxRepairs, tries : {0}] :
            /\ q.block = (q.verdict # "clean")
            /\ q.human = (q.verdict = "choice")
            /\ q.verdict = "editable" => q.repairs = MaxRepairs
            /\ q.verdict = "unread" => q.repairs > 0}

Free == [pc |-> "idle", then |-> "end", draft |-> None, topic |-> None,
         status |-> "none", qa |-> NoQA]

RInit ==
  /\ Init
  /\ qa = [d \in Drafts |-> NoQA]
  /\ regens = [t \in Topics |-> 0]
  /\ rev = [r \in Reviewers |-> Free]

Exists(d) == draft[d] # NoRow

\* A uuid is never given twice: a new draft gets a name that no row has and no
\* call refers to.  One such name is as good as another.
FreshId == CHOOSE d \in Drafts : ~Exists(d) /\ \A r \in Reviewers : rev[r].draft # d

-----------------------------------------------------------------------------
(* Generation, seen from here: the drafts it inserts come with a verdict.  *)

Judges ==
  /\ \A d \in Drafts : ~Exists(d) /\ draft'[d] # NoRow => d = FreshId
  /\ \E q \in NewQA :
       qa' = [d \in Drafts |-> IF draft'[d] = NoRow THEN NoQA
                               ELSE IF Exists(d) THEN qa[d] ELSE q]

-----------------------------------------------------------------------------
(* The recovery pass: one draft of its list, from the copy of the list.    *)

Starts(r, c) ==
  /\ rev[r] = Free
  /\ rev' = [rev EXCEPT ![r] = c]
  /\ UNCHANGED <<vars, qa, regens>>

Opens(d, pc, then) ==
  [Free EXCEPT !.pc = pc, !.then = then, !.draft = d, !.topic = draft[d].topic]

\* A call that decides by the copy it has read.
Copies(d, pc, then) ==
  [Opens(d, pc, then) EXCEPT !.status = draft[d].status, !.qa = qa[d]]

\* A call that is to approve by what it has read: of the verdict, the block.
Approves(c, status, q) ==
  [c EXCEPT !.pc = "approve", !.status = status, !.qa = [NoQA EXCEPT !.block = q.block]]

\* ListRecoverableArticlesForProject.
List(r, d) ==
  /\ draft[d].status = "pending_review" /\ qa[d].block
  /\ Starts(r, Copies(d, "judge", "settle"))

\* Seeded fault: the verdict is left to the review page.
ApprovableByStatus(d) == draft[d].status = "pending_review"

Approvable(d) == draft[d].status = "pending_review" /\ ~qa[d].block

\* ListApprovableForProject, worked off without another look at the rows.
ListApprovable(r, d) ==
  /\ ReviewAuto
  /\ Approvable(d)
  /\ Starts(r, Approves(Opens(d, "approve", "settle"), draft[d].status, qa[d]))

RevAt(r, pc) == rev[r].pc = pc

Becomes(r, c) == rev' = [rev EXCEPT ![r] = c]
Ends(r) == Becomes(r, Free)

\* One statement on the row of the call; none if the row is gone.
Updates(r, q) ==
  qa' = IF Exists(rev[r].draft) THEN [qa EXCEPT ![rev[r].draft] = q] ELSE qa

Escalate(r) ==
  /\ Updates(r, [qa[rev[r].draft] EXCEPT !.human = TRUE])
  /\ Ends(r)
  /\ UNCHANGED <<vars, regens>>

\* Handed to a human before the attempt is counted: by the verdict, or because
\* the budget is spent.
GivesUp(q) == NeedsHuman(q) \/ (q.tries >= MaxTries /\ ~Bypasses(q))

\* The next rung of the ladder, by the row the counting statement returned.
Rung(q) ==
  CASE CanFix(q) /\ (q.repairs < MaxRepairs \/ Bypasses(q)) -> "repair"
    [] HasClaimMap(q) \/ q.tries <= MaxRequalify -> "requalify"
    [] OTHER -> "regen"

Judge(r) ==
  LET d == rev[r].draft
      q == [qa[d] EXCEPT !.tries = @ + 1]
  IN  /\ RevAt(r, "judge")
      /\ IF GivesUp(rev[r].qa)
         THEN IF NeedsHuman(rev[r].qa) /\ rev[r].qa.human
              THEN Ends(r) /\ UNCHANGED <<vars, qa, regens>>
              ELSE Escalate(r)
         ELSE /\ Updates(r, q)
              /\ IF Exists(d) THEN Becomes(r, [rev[r] EXCEPT !.pc = Rung(q), !.status = "none", !.qa = NoQA]) ELSE Ends(r)
              /\ UNCHANGED <<vars, regens>>

\* What a call does with the row its step returned: the pass approves what has
\* become clean, an applied fix is approved unless it still blocks.
Settled(c, status, q) ==
  LET row == Approves(c, status, q) IN
  CASE /\ c.then = "settle"
       /\ ReviewAuto /\ status = "pending_review" /\ ~q.block /\ ~q.human -> row
    [] c.then = "approve" /\ ~q.block -> row
    [] OTHER -> Free

Settles(r, q) == Becomes(r, Settled(rev[r], draft[rev[r].draft].status, q))

-----------------------------------------------------------------------------
(* RepairArticle: read and claimed, edited by the model, written back.     *)

StartRepair(r) ==
  LET d == rev[r].draft
      editor == qa[d].human /\ CanFix(qa[d])
      may == editor \/ (qa[d].repairs < MaxRepairs /\ ~qa[d].human)
      started == [qa[d] EXCEPT !.repairs = @ + 1, !.human = FALSE]
      refused == [qa[d] EXCEPT !.human = TRUE]
  IN  /\ RevAt(r, "repair")
      /\ Updates(r, IF may THEN started ELSE refused)
      /\ IF ~Exists(d) THEN Ends(r)
         ELSE IF may THEN Becomes(r, [rev[r] EXCEPT !.pc = "edit"])
         ELSE Settles(r, refused)
      /\ UNCHANGED <<vars, regens>>

\* A model's edit counts as the QA approval; no QA looks at it.
Repaired(r) ==
  LET q == [qa[rev[r].draft] EXCEPT !.block = FALSE, !.verdict = "clean", !.human = FALSE] IN
  /\ RevAt(r, "edit")
  /\ Updates(r, q)
  /\ IF Exists(rev[r].draft) THEN Settles(r, q) ELSE Ends(r)
  /\ UNCHANGED <<vars, regens>>

\* The feedback is overwritten and the block left as it is.  After an applied fix
\* the feedback says that the editor may try again.
RepairFails(r) ==
  LET q == [qa[rev[r].draft] EXCEPT !.human = TRUE,
              !.verdict = IF rev[r].then = "approve" THEN "unread" ELSE "broken"]
  IN  /\ RevAt(r, "edit")
      /\ Updates(r, q)
      /\ IF Exists(rev[r].draft) THEN Settles(r, q) ELSE Ends(r)
      /\ UNCHANGED <<vars, regens>>

-----------------------------------------------------------------------------
(* Requalify: the row is read, QA takes its time, and verdict and status   *)
(* are written, the status as it was read.                                 *)

ReadForQA(r) ==
  LET d == rev[r].draft IN
  /\ RevAt(r, "requalify")
  /\ IF Exists(d) THEN Becomes(r, [rev[r] EXCEPT !.pc = "check", !.status = draft[d].status])
     ELSE Ends(r)
  /\ UNCHANGED <<vars, qa, regens>>

Requalified(r, v) ==
  LET d == rev[r].draft
      q == [qa[d] EXCEPT !.block = (v # "clean"), !.verdict = v]
  IN  /\ RevAt(r, "check")
      /\ Updates(r, q)
      /\ IF Exists(d)
         THEN /\ draft' = [draft EXCEPT ![d].status = rev[r].status]
              /\ Becomes(r, Settled(rev[r], rev[r].status, q))
         ELSE Ends(r) /\ UNCHANGED draft
      /\ UNCHANGED <<topic, call, disturbed, regens>>

-----------------------------------------------------------------------------
(* Regeneration.  Nothing resets the topic when the writer fails.          *)

\* Seeded fault: one more than the budget.
RegensSpentLate(t) == regens[t] > MaxRegens

RegensSpent(t) == regens[t] >= MaxRegens

Regenerate(r) ==
  LET t == rev[r].topic IN
  /\ RevAt(r, "regen")
  /\ IF RegensSpent(t) THEN Escalate(r)
     ELSE /\ Becomes(r, [rev[r] EXCEPT !.pc = "clear", !.status = topic[t].status])
          /\ UNCHANGED <<vars, qa, regens>>

\* The drafts are cleared and the attempt is counted before the state machine is
\* asked, about the copy of the topic.
ClearForRegen(r) ==
  LET t == rev[r].topic IN
  /\ RevAt(r, "clear")
  /\ draft' = Cleared(t)
  /\ qa' = [d \in Drafts |-> IF draft'[d] = NoRow THEN NoQA ELSE qa[d]]
  /\ regens' = [regens EXCEPT ![t] = @ + 1]
  /\ IF Allows(rev[r].status, "reject_draft")
     THEN Becomes(r, [rev[r] EXCEPT !.pc = "reopen", !.draft = None, !.qa = NoQA])
     ELSE Ends(r)
  /\ UNCHANGED <<topic, call, disturbed>>

Moves(r, from, status, to) ==
  /\ RevAt(r, from)
  /\ SetStatus(rev[r].topic, status)
  /\ Becomes(r, [rev[r] EXCEPT !.pc = to])
  /\ UNCHANGED <<draft, call, disturbed, qa, regens>>

ReopenTopic(r) == Moves(r, "reopen", To.reject_draft, "restart")
RestartTopic(r) == Moves(r, "restart", To.start_generation, "write")

Rewrite(r) ==
  /\ RevAt(r, "write")
  /\ Of(rev[r].topic) = {}
  /\ \E d \in Fresh :
       /\ draft' = [draft EXCEPT ![d] = [topic |-> rev[r].topic, status |-> "pending_review"]]
       /\ Judges
       /\ Becomes(r, [rev[r] EXCEPT !.pc = "mark", !.draft = d, !.qa = qa'[d]])
  /\ UNCHANGED <<topic, call, disturbed, regens>>

\* The unique index refuses the draft, and the topic stays as it is.
RewriteCollides(r) ==
  /\ RevAt(r, "write")
  /\ Of(rev[r].topic) # {}
  /\ Ends(r)
  /\ UNCHANGED <<vars, qa, regens>>

MarkRewritten(r) ==
  /\ RevAt(r, "mark")
  /\ SetStatus(rev[r].topic, To.mark_drafted)
  /\ Becomes(r, Settled(rev[r], "pending_review", rev[r].qa))
  /\ UNCHANGED <<draft, call, disturbed, qa, regens>>

-----------------------------------------------------------------------------
(* Approving: no statement asks what has become of the row since.          *)

WriteApproval(r) ==
  LET d == rev[r].draft IN
  /\ RevAt(r, "approve")
  /\ draft' = IF Exists(d) THEN [draft EXCEPT ![d].status = "approved"] ELSE draft
  /\ Ends(r)
  /\ UNCHANGED <<topic, call, disturbed, qa, regens>>

\* The review page.  The gate looks at a copy, and the contract is validated
\* before the approval is written; editing saves the text and then requalifies;
\* Recheck, Fix and Apply Fix make the same calls as the pass.
Operates(r, d) ==
  /\ Exists(d)
  /\ \/ ~qa[d].block /\ Starts(r, Approves(Opens(d, "approve", "end"), draft[d].status, qa[d]))
     \/ Starts(r, Opens(d, "requalify", "end"))
     \/ Starts(r, Opens(d, "repair", "end"))
     \/ Starts(r, Opens(d, "edit", "approve"))

-----------------------------------------------------------------------------
QAVerdict(r) == \E v \in Outcomes : Requalified(r, v)

Recovers(r) ==
  \/ Judge(r) \/ StartRepair(r) \/ Repaired(r) \/ ReadForQA(r) \/ QAVerdict(r)
  \/ Regenerate(r) \/ ClearForRegen(r) \/ ReopenTopic(r) \/ RestartTopic(r)
  \/ Rewrite(r) \/ RewriteCollides(r) \/ MarkRewritten(r) \/ WriteApproval(r)

Lists(r) == \E d \in Drafts : List(r, d) \/ ListApprovable(r, d)

\* The writer fails, a statement fails, or the call dies: the tick gives up the
\* draft with nothing put back.
RevDies(r) ==
  /\ rev[r] # Free
  /\ Ends(r)
  /\ UNCHANGED <<vars, qa, regens>>

RevFault(r) == RepairFails(r) \/ RevDies(r)

\* The rest of the system, with a verdict for each new draft.
Beside(A) == A /\ Judges /\ UNCHANGED <<regens, rev>>

RNext ==
  \/ \E r \in Reviewers : Lists(r) \/ Recovers(r) \/ RevFault(r) \/ \E d \in Drafts : Operates(r, d)
  \/ \E w \in Workers : Beside(Passes(w) \/ Works(w) \/ Requests(w) \/ Fault(w))
  \/ \E t \in Topics : Beside(SlotComes(t))
  \/ \E d \in Drafts : Beside(Publish(d))

RSpec == RInit /\ [][RNext]_rvars

-----------------------------------------------------------------------------
RevStates == {"idle", "judge", "repair", "edit", "requalify", "check", "regen", "clear",
              "reopen", "restart", "write", "mark", "approve"}

QARows == [block : BOOLEAN, verdict : Verdicts, human : BOOLEAN, repairs : Nat, tries : Nat]

RTypeOK ==
  /\ TypeOK
  /\ qa \in [Drafts -> QARows]
  /\ regens \in [Topics -> Nat]
  /\ rev \in [Reviewers -> [pc : RevStates,
                            then : {"end", "settle", "approve"},
                            draft : Drafts \cup {None}, topic : Topics \cup {None},
                            status : {"none", "pending_review", "approved", "rejected", "published"} \cup Statuses, qa : QARows]]

\* A topic CiteLoop cannot draft reaches a human in the end: however the passes
\* overlap, each can add one regeneration to the budget and no more.
RegenerationsBounded ==
  /\ RTypeOK
  /\ \A t \in Topics : regens[t] < MaxRegens + Cardinality(Reviewers)

\* No draft is approved that nobody saw unblocked, nor by a pass that did not see
\* it in review; what had become of it since is another matter.
ApprovedAsSeen ==
  [][\A d \in Drafts : draft[d].status # "approved" /\ draft'[d].status = "approved" =>
       \E r \in Reviewers :
         /\ rev[r].draft = d
         /\ \/ /\ rev[r].pc = "approve" /\ ~rev[r].qa.block
               /\ rev[r].then = "settle" => rev[r].status = "pending_review"
            \/ rev[r].pc = "check" /\ rev[r].status = "approved"]_rvars
=============================================================================
