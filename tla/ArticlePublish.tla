--------------------------- MODULE ArticlePublish ---------------------------
(***************************************************************************)
(* Publishing the canonical articles of one project                        *)
(* (scheduler.go publishForProject, reconcilePublishForProject,            *)
(* unlockVariants; publisher/blog.go; queries/articles.sql).               *)
(*                                                                         *)
(* A publish tick prepares the due articles in one transaction, commits    *)
(* each to the repository of the blog, records the attempt, and marks the  *)
(* article published once its URL answers.  Then it reconciles, in a       *)
(* transaction held open over the network, every article left half way,    *)
(* and unlocks the syndication variants of published ones.  Cron and two   *)
(* API handlers start ticks without waiting for one another.  They act on  *)
(* copies of the rows they selected, and their updates ask for no status.  *)
(***************************************************************************)
EXTENDS Naturals, Sequences

CONSTANTS Articles,   \* canonical articles; each has one syndication variant
          Paths,      \* slugs, and with them content paths and public URLs
          Workers,    \* concurrent publish ticks
          Delays,     \* backoff after the n-th attempt, in units of 5 minutes
          NoPath,     \* resolved_slug and publish_path are null
          NoArticle,  \* no file at this path of the blog repository
          Never,      \* next_publish_retry_at is null
          NoOne       \* the advisory lock of the project is free

ASSUME PublishAssumption ==
  /\ Delays \in Seq(Nat)
  /\ NoPath \notin Paths /\ NoArticle \notin Articles
  /\ Never \notin Nat /\ NoOne \notin Workers

VARIABLES
  art,      \* art[a]: the row of a: status, attempts, retry (time left until
            \* next_publish_retry_at), due (scheduled_at is past), path, and
            \* whether publish_result, canonical_url, canonical_url_verified_at are set
  slug,     \* slug[a]: the slug its SEO metadata asks for
  variant,  \* variant[a]: status of its variant
  file,     \* file[p]: the article whose text the repository has at p
  live,     \* paths whose public URL answers 2xx
  call,     \* call[w]: the tick of w: pc, tick (or only a reconcile), todo and
            \* cur (copies of rows still to do, and the one in hand), seen
            \* (what the repository had at its path when w looked)
  lock,     \* who holds the advisory lock over several steps: a reconcile
  staged    \* rows as its open transaction left them, not yet committed

rowVars == <<art, slug, variant>>
webVars == <<file, live>>
txVars  == <<lock, staged>>
vars    == <<art, slug, variant, file, live, call, lock, staged>>

Idle == [pc |-> "idle", tick |-> TRUE, todo |-> {}, cur |-> {}, seen |-> NoArticle]

NoRows == [a \in {} |-> {}]

Init ==
  /\ art = [a \in Articles |->
              [status |-> "pending_review", attempts |-> 0, retry |-> Never, due |-> FALSE,
               path |-> NoPath, result |-> FALSE, url |-> FALSE, verified |-> FALSE]]
  /\ slug \in [Articles -> Paths]
  /\ variant = [a \in Articles |-> "approved"]
  /\ file = [p \in Paths |-> NoArticle]
  /\ live = {}
  /\ call = [w \in Workers |-> Idle]
  /\ lock = NoOne
  /\ staged = NoRows

-----------------------------------------------------------------------------
(* What the queries make of a row r, given the copy c the tick works from. *)

\* A row selected into memory keeps these columns of its time.
Copy(a, r) == [article |-> a, status |-> r.status, attempts |-> r.attempts,
               retry |-> r.retry, path |-> r.path]

\* publish_attempts beyond the table of delays differ in nothing: bounded there.
Attempted(n) == IF n > Len(Delays) THEN n ELSE n + 1

\* nextPublishRetryAt.
Delay(n) == IF n \in 1 .. Len(Delays) THEN Delays[n] ELSE Never

\* Seeded fault: the slug is resolved anew on every attempt.
ResolveAgain(a) == slug[a]

\* BlogPublisher.Resolve: the path of the first attempt is kept for good.
Resolve(a) == IF art[a].path = NoPath THEN slug[a] ELSE art[a].path

Prepared(a) == [art[a] EXCEPT !.path = Resolve(a), !.attempts = Attempted(@),
                              !.retry = Never]

\* Seeded fault: a committed article counts as published.
RecordedPublished(r, c, wait) ==
  [r EXCEPT !.status = "published", !.result = TRUE, !.url = TRUE, !.verified = TRUE,
            !.path = c.path, !.retry = Never]

\* RecordPublishAttemptResult.
Recorded(r, c, wait) ==
  [r EXCEPT !.status = "pending_url_verification", !.result = TRUE,
            !.path = c.path, !.retry = wait]

MadePublished(r, c) ==
  [r EXCEPT !.status = "published", !.result = TRUE, !.url = TRUE, !.verified = TRUE,
            !.path = c.path, !.retry = Never]

\* MarkPublishFailed.
MadeFailed(r, c) ==
  [r EXCEPT !.status = "publish_failed", !.retry = Delay(c.attempts), !.verified = FALSE]

\* An update outside the reconcile transaction waits for the rows that holds.
Updates(a, r) ==
  /\ a \notin DOMAIN staged
  /\ art' = [art EXCEPT ![a] = r]
  /\ UNCHANGED <<slug, variant>>

-----------------------------------------------------------------------------
(* publishForProject.                                                      *)

\* SelectDueCanonical.
IsDue(a) ==
  /\ art[a].due
  /\ \/ art[a].status = "approved"
     \/ art[a].status = "publish_failed" /\ art[a].retry = 0

\* prepareDueCanonicals: one transaction under the advisory lock.  It does not
\* change the status, so another tick may prepare the same articles again.
Prepare(w) ==
  LET due == {a \in Articles : IsDue(a)} IN
  /\ call[w].pc = "idle" /\ lock = NoOne
  /\ art' = [a \in Articles |-> IF a \in due THEN Prepared(a) ELSE art[a]]
  /\ call' = [call EXCEPT ![w] =
                [Idle EXCEPT !.pc = IF due = {} THEN "reconciling" ELSE "connecting",
                             !.todo = {Copy(a, Prepared(a)) : a \in due}]]
  /\ UNCHANGED <<slug, variant, webVars, txVars>>

\* blogPublisherForProject: the connection and its credential are read anew.
Connect(w) ==
  /\ call[w].pc = "connecting"
  /\ call' = [call EXCEPT ![w].pc = "publishing"]
  /\ UNCHANGED <<rowVars, webVars, txVars>>

\* The loop takes its next article, or is over.  existingSHA looks the path up.
StartWrite(w) ==
  /\ call[w].pc = "publishing"
  /\ \/ \E c \in call[w].todo :
          call' = [call EXCEPT ![w].pc = "writing", ![w].todo = @ \ {c},
                               ![w].cur = {c}, ![w].seen = file[c.path]]
     \/ call[w].todo = {} /\ call' = [call EXCEPT ![w].pc = "reconciling"]
  /\ UNCHANGED <<rowVars, webVars, txVars>>

\* w is done with its copy and returns to the loop at pc.
Turns(w, pc) == call' = [call EXCEPT ![w].pc = pc, ![w].cur = {}, ![w].seen = NoArticle]

Goes(w, pc) == call' = [call EXCEPT ![w].pc = pc]

\* The PUT creates the file, or replaces the one whose sha w has seen.
Commits(c) == file' = [file EXCEPT ![c.path] = c.article] /\ UNCHANGED live

\* commitFile: a file that changed since the lookup is a conflict.
EndWrite(w) ==
  /\ call[w].pc = "writing"
  /\ \E c \in call[w].cur :
       \/ file[c.path] = call[w].seen /\ Commits(c) /\ Goes(w, "recording")
       \/ file[c.path] # call[w].seen /\ UNCHANGED webVars /\ Goes(w, "failing")
  /\ UNCHANGED <<rowVars, txVars>>

\* The first verification is due in a minute, before the next tick.
Record(w) ==
  /\ call[w].pc = "recording"
  /\ \E c \in call[w].cur : Updates(c.article, Recorded(art[c.article], c, 1))
  /\ Goes(w, "verifying")
  /\ UNCHANGED <<webVars, txVars>>

\* After a failed deploy hook the attempt is recorded before it is failed.
RecordHookFailure(w) ==
  /\ call[w].pc = "hookFailed"
  /\ \E c \in call[w].cur :
       Updates(c.article, Recorded(art[c.article], c, Delay(c.attempts)))
  /\ Goes(w, "failing")
  /\ UNCHANGED <<webVars, txVars>>

\* resolvePublishedURL: no answer yet leaves the article to the reconcile.
Verify(w) ==
  /\ call[w].pc = "verifying"
  /\ \E c \in call[w].cur : IF c.path \in live THEN Goes(w, "marking")
                                               ELSE Turns(w, "publishing")
  /\ UNCHANGED <<rowVars, webVars, txVars>>

MarkPublished(w) ==
  /\ call[w].pc = "marking"
  /\ \E c \in call[w].cur : Updates(c.article, MadePublished(art[c.article], c))
  /\ Turns(w, "publishing")
  /\ UNCHANGED <<webVars, txVars>>

MarkPublishFailed(w) ==
  /\ call[w].pc = "failing"
  /\ \E c \in call[w].cur : Updates(c.article, MadeFailed(art[c.article], c))
  /\ Turns(w, "publishing")
  /\ UNCHANGED <<webVars, txVars>>

\* A step of the tick that errs: no publisher connection, a refused or
\* unanswered PUT, a failed hook, a failed request or query.
PublishError(w) ==
  /\ \/ call[w].pc = "connecting" /\ UNCHANGED webVars
        /\ call' = [call EXCEPT ![w].pc = "reconciling", ![w].todo = {}]
     \/ call[w].pc = "writing" /\ Goes(w, "failing")
        /\ \/ UNCHANGED webVars
           \/ \E c \in call[w].cur : file[c.path] = call[w].seen /\ Commits(c)
     \/ call[w].pc = "recording" /\ UNCHANGED webVars
        /\ (Goes(w, "hookFailed") \/ Goes(w, "failing"))
     \/ call[w].pc \in {"hookFailed", "marking"} /\ UNCHANGED webVars /\ Goes(w, "failing")
     \/ call[w].pc \in {"verifying", "failing"} /\ UNCHANGED webVars /\ Turns(w, "publishing")
  /\ UNCHANGED <<rowVars, txVars>>

-----------------------------------------------------------------------------
(* reconcilePublishForProject.                                             *)

\* ReconcilePublishProject, for an operator: the second half of a tick alone.
ReconcileNow(w) ==
  /\ call[w].pc = "idle"
  /\ call' = [call EXCEPT ![w] = [Idle EXCEPT !.pc = "reconciling", !.tick = FALSE]]
  /\ UNCHANGED <<rowVars, webVars, txVars>>

\* Seeded fault: articles waiting for their URL are not looked at again.
ReconcilableAfterFailure(a) ==
  LET r == art[a] IN
  \/ r.status \in {"approved", "publish_failed"} /\ r.result
  \/ r.status = "published" /\ ~(r.url /\ r.verified /\ r.result)

\* SelectPublishReconcileCandidates.
Reconcilable(a) ==
  LET r == art[a] IN
  \/ r.status \in {"approved", "publish_failed"} /\ r.result
  \/ r.status = "pending_url_verification"
  \/ r.status = "published" /\ ~(r.url /\ r.verified /\ r.result)

\* The advisory lock is taken, and kept until the transaction ends.
BeginReconcile(w) ==
  /\ call[w].pc = "reconciling" /\ lock = NoOne
  /\ lock' = w
  /\ call' = [call EXCEPT ![w].pc = "checking",
                          ![w].todo = {Copy(a, art[a]) : a \in {b \in Articles : Reconcilable(b)}}]
  /\ UNCHANGED <<rowVars, webVars, staged>>

Stage(c, r) ==
  staged' = [a \in DOMAIN staged \cup {c.article} |-> IF a = c.article THEN r ELSE staged[a]]

Checked(w, c) == call' = [call EXCEPT ![w].todo = @ \ {c}]

\* Seeded fault: only an article without a deadline is past it.
DeadlineMissing(c) == c.status = "pending_url_verification" /\ c.retry = Never

\* pendingURLVerificationDeadlineReached.
DeadlineReached(c) == c.status = "pending_url_verification" /\ c.retry = 0

\* One candidate: published if its URL answers; failed if not, unless it is
\* pending and its deadline is still ahead.
Check(w) ==
  /\ call[w].pc = "checking"
  /\ \E c \in call[w].todo :
       /\ Checked(w, c)
       /\ \/ c.path \in live /\ Stage(c, MadePublished(art[c.article], c))
          \/ /\ c.path \notin live
             /\ c.status # "pending_url_verification" \/ DeadlineReached(c)
             /\ Stage(c, MadeFailed(art[c.article], c))
          \/ /\ c.path \notin live
             /\ c.status = "pending_url_verification" /\ ~DeadlineReached(c)
             /\ UNCHANGED staged
  /\ UNCHANGED <<rowVars, webVars, lock>>

\* The lookup of the file errs, which fails the article whatever its deadline.
CheckError(w) ==
  /\ call[w].pc = "checking"
  /\ \E c \in call[w].todo : Checked(w, c) /\ Stage(c, MadeFailed(art[c.article], c))
  /\ UNCHANGED <<rowVars, webVars, lock>>

AfterReconcile(w) ==
  call' = [call EXCEPT ![w] = IF @.tick THEN [Idle EXCEPT !.pc = "unlocking"] ELSE Idle]

Commit(w) ==
  /\ call[w].pc = "checking" /\ call[w].todo = {}
  /\ art' = [a \in Articles |-> IF a \in DOMAIN staged THEN staged[a] ELSE art[a]]
  /\ lock' = NoOne /\ staged' = NoRows
  /\ AfterReconcile(w)
  /\ UNCHANGED <<slug, variant, webVars>>

\* A query of the transaction errs: its updates are lost, and so is the lock.
Rollback(w) ==
  /\ call[w].pc = "checking"
  /\ lock' = NoOne /\ staged' = NoRows
  /\ AfterReconcile(w)
  /\ UNCHANGED <<rowVars, webVars>>

-----------------------------------------------------------------------------
(* unlockVariants.                                                         *)

\* SelectUnlockableVariants.
Unlockable(a) ==
  /\ variant[a] = "approved"
  /\ art[a].status = "published" /\ art[a].url /\ art[a].verified

SelectVariants(w) ==
  /\ call[w].pc = "unlocking"
  /\ call' = [call EXCEPT ![w].pc = "rewriting",
                          ![w].todo = {Copy(a, art[a]) : a \in {b \in Articles : Unlockable(b)}}]
  /\ UNCHANGED <<rowVars, webVars, txVars>>

\* UnlockVariant, whatever became of the variant since it was selected; or the
\* list is done.
Unlock(w) ==
  /\ call[w].pc = "rewriting"
  /\ \/ \E c \in call[w].todo :
          /\ variant' = IF art[c.article].url
                        THEN [variant EXCEPT ![c.article] = "ready_to_distribute"] ELSE variant
          /\ Checked(w, c)
     \/ call[w].todo = {} /\ call' = [call EXCEPT ![w] = Idle] /\ UNCHANGED variant
  /\ UNCHANGED <<art, slug, webVars, txVars>>

-----------------------------------------------------------------------------
(* Operators, the process and the world outside.                           *)

\* approveArticleScoped: no status is asked for, published ones included.
Approve(a) ==
  /\ \E now \in BOOLEAN : Updates(a, [art[a] EXCEPT !.status = "approved", !.due = now])
  /\ UNCHANGED <<webVars, call, txVars>>

\* rejectArticleScoped: the same.
Reject(a) ==
  /\ Updates(a, [art[a] EXCEPT !.status = "rejected"])
  /\ UNCHANGED <<webVars, call, txVars>>

\* RetryPublishArticle.
Retry(a) ==
  /\ art[a].status = "publish_failed"
  /\ Updates(a, [art[a] EXCEPT !.retry = 0])
  /\ UNCHANGED <<webVars, call, txVars>>

\* editArticleScoped: the SEO metadata of an article in any status.
EditSlug(a) ==
  /\ a \notin DOMAIN staged
  /\ \E p \in Paths \ {slug[a]} : slug' = [slug EXCEPT ![a] = p]
  /\ UNCHANGED <<art, variant, webVars, call, txVars>>

\* markDistributedScoped, of the variant.
Distribute(a) ==
  /\ variant' = [variant EXCEPT ![a] = "distributed"]
  /\ UNCHANGED <<art, slug, webVars, call, txVars>>

\* The clock reaches scheduled_at, or "publish now" moves it.
SlotReached(a) ==
  /\ art[a].status # "pending_review" /\ ~art[a].due
  /\ Updates(a, [art[a] EXCEPT !.due = TRUE])
  /\ UNCHANGED <<webVars, call, txVars>>

\* The site is built from the repository.
Deploy(p) ==
  /\ file[p] # NoArticle /\ p \notin live
  /\ live' = live \cup {p}
  /\ UNCHANGED <<rowVars, file, call, txVars>>

\* The process dies; a PUT already sent may still take effect.
Crash(w) ==
  /\ call[w].pc # "idle"
  /\ \/ UNCHANGED webVars
     \/ \E c \in call[w].cur :
          call[w].pc = "writing" /\ file[c.path] = call[w].seen /\ Commits(c)
  /\ call' = [call EXCEPT ![w] = Idle]
  /\ IF lock = w THEN lock' = NoOne /\ staged' = NoRows ELSE UNCHANGED txVars
  /\ UNCHANGED rowVars

Less(t) == IF t = Never \/ t = 0 THEN t ELSE t - 1

Sooner(r) == [r EXCEPT !.retry = Less(@)]

\* Five minutes pass, for rows and copies alike.
Pass ==
  /\ art' = [a \in Articles |-> Sooner(art[a])]
  /\ staged' = [a \in DOMAIN staged |-> Sooner(staged[a])]
  /\ call' = [w \in Workers |-> [call[w] EXCEPT !.todo = {Sooner(c) : c \in @},
                                                !.cur = {Sooner(c) : c \in @}]]
  /\ UNCHANGED <<slug, variant, webVars, lock>>

Tick(w) ==
  \/ Prepare(w) \/ Connect(w) \/ StartWrite(w) \/ EndWrite(w)
  \/ Record(w) \/ RecordHookFailure(w) \/ Verify(w)
  \/ MarkPublished(w) \/ MarkPublishFailed(w)
  \/ BeginReconcile(w) \/ Check(w) \/ Commit(w)
  \/ SelectVariants(w) \/ Unlock(w)

Fault(w) == PublishError(w) \/ CheckError(w) \/ Rollback(w) \/ Crash(w)

Operator ==
  \/ \E a \in Articles : Approve(a) \/ Reject(a) \/ Retry(a) \/ EditSlug(a) \/ Distribute(a)
  \/ \E w \in Workers : ReconcileNow(w)

World == Pass \/ (\E a \in Articles : SlotReached(a)) \/ (\E p \in Paths : Deploy(p))

Next == (\E w \in Workers : Tick(w) \/ Fault(w)) \/ Operator \/ World

Spec == Init /\ [][Next]_vars

-----------------------------------------------------------------------------
(* Properties.                                                             *)

Times    == Nat \cup {Never}
Statuses == {"pending_review", "approved", "publish_failed",
             "pending_url_verification", "published", "rejected"}
Rows     == [status : Statuses, attempts : 0 .. Len(Delays) + 1, retry : Times,
             due : BOOLEAN, path : Paths \cup {NoPath},
             result : BOOLEAN, url : BOOLEAN, verified : BOOLEAN]
Copies   == [article : Articles, status : Statuses, attempts : 0 .. Len(Delays) + 1,
             retry : Times, path : Paths]
Calls    == [pc : {"idle", "connecting", "publishing", "writing", "recording",
                   "hookFailed", "verifying", "marking", "failing", "reconciling",
                   "checking", "unlocking", "rewriting"},
             tick : BOOLEAN, todo : SUBSET Copies, cur : SUBSET Copies,
             seen : Articles \cup {NoArticle}]

\* Every variable has its type; in particular every copy a tick works from has
\* a path, and no query writes a status that no other query reads.
TypeOK ==
  /\ art \in [Articles -> Rows]
  /\ slug \in [Articles -> Paths]
  /\ variant \in [Articles -> {"approved", "ready_to_distribute", "distributed"}]
  /\ file \in [Paths -> Articles \cup {NoArticle}]
  /\ live \subseteq Paths
  /\ call \in [Workers -> Calls]
  /\ lock \in Workers \cup {NoOne}
  /\ DOMAIN staged \subseteq Articles
  /\ \A a \in DOMAIN staged : staged[a] \in Rows

\* An article shown as published has its text in the repository and answers at
\* its URL, whichever tick marked it, from however old a copy.
PublishedIsLive ==
  \A a \in Articles : art[a].status = "published" =>
    art[a].path \in live /\ file[art[a].path] # NoArticle

\* Retries, overlapping ticks, crashes and edits of the slug never leave a
\* second file of the same article behind: all are written to one path.
OneFile ==
  \A a \in Articles, p \in Paths : file[p] = a => art[a].path = p

\* A variant is handed out for distribution only after the canonical's URL
\* answered, so that it never points at a page that does not exist.
VariantNeverAhead ==
  \A a \in Articles : variant[a] = "ready_to_distribute" => art[a].path \in live
=============================================================================
