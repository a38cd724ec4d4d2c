-------------------------- MODULE TopicGeneration --------------------------
(***************************************************************************)
(* Topics and the generation of their drafts: the two scheduler passes,    *)
(* the Generate button with its goroutine, and what operators do to topics *)
(* and drafts meanwhile.  A model call takes minutes, and so everything    *)
(* below may happen while one runs.                                        *)
(*                                                                         *)
(* A topic has one canonical draft at most (a unique index, which counts   *)
(* rejected rows too).  Variants, texts and titles are left out.  A draft  *)
(* that is approved, scheduled or waits for its URL is "approved" here.    *)
(***************************************************************************)
EXTENDS TopicStates, Integers, FiniteSets

CONSTANTS Topics,
          Drafts,       \* the identities draft rows may get
          Workers,      \* runs of the passes, goroutines and requests
          Desired,      \* drafts the passes keep in stock
          AutoAdvance,  \* whether the project lets the buffer pass run
          None

ASSUME TopicsAssumption == None \notin Topics /\ Desired \in Nat /\ AutoAdvance \in BOOLEAN

VARIABLES topic,     \* topic[t]: its row, status and slot
          draft,     \* draft[d]: its row, the topic it is of and its status
          call,      \* call[w]: what w has read and what it does next
          disturbed  \* history: topics a request has overwritten under someone

vars == <<topic, draft, call, disturbed>>

Slots == {"none", "later", "due"}
TopicRows == [status : Statuses, slot : Slots]
Blank == [status |-> "backlog", slot |-> "none"]

NoRow == [topic |-> None, status |-> "none"]
DraftRows == [topic : Topics,
              status : {"pending_review", "approved", "rejected", "published"}]

Idle == [pc |-> "idle", kind |-> "none", topic |-> None, todo |-> {},
         copy |-> [t \in Topics |-> Blank], put |-> Blank]

Init ==
  /\ topic \in [Topics -> {Blank} \cup [status : {"scheduled"}, slot : {"later", "due"}]]
  /\ draft = [d \in Drafts |-> NoRow]
  /\ call = [w \in Workers |-> Idle]
  /\ disturbed = {}

-----------------------------------------------------------------------------
(* What the queries select.                                                *)

Of(t) == {d \in Drafts : draft[d].topic = t}

\* Seeded fault: only drafts that were approved count.
LiveApproved(t) == \E d \in Of(t) : draft[d].status \in {"approved", "published"}

\* Seeded fault: rejected rows count too.
LiveAny(t) == Of(t) # {}

\* CountNonRejectedArticlesForTopic > 0.
Live(t) == \E d \in Of(t) : draft[d].status # "rejected"

\* CountStockedCanonical: drafts on their way, and topics about to have one.
Stocked == {t \in Topics : \/ topic[t].status = "generating"
                           \/ \E d \in Of(t) : draft[d].status \in {"pending_review", "approved"}}

Candidates == {t \in Topics : topic[t].status \in {"backlog", "scheduled"}}

\* Seeded fault: a slot that has come is enough.
DueBySlot == {t \in Topics : topic[t].slot = "due"}

DueTopics == {t \in Topics : topic[t].status = "scheduled" /\ topic[t].slot = "due"}

\* A fresh uuid: no row has it.
Fresh == {d \in Drafts : draft[d] = NoRow}

\* What a request writes that leaves the slot alone.
StatusOnly(s) == [status |-> s, slot |-> "keep"]

SetStatus(t, s) == topic' = [topic EXCEPT ![t].status = s]

-----------------------------------------------------------------------------
(* Reserving.  One transaction under the project's generation lock, its    *)
(* candidates locked: one step.                                            *)

Reserve(w, S) ==
  LET mine == {t \in S : ~Live(t)}
      row == [t \in Topics |-> IF t \in mine THEN [topic[t] EXCEPT !.status = "generating"]
                               ELSE [topic[t] EXCEPT !.status = "drafted"]]
  IN  /\ call[w] = Idle
      /\ topic' = [t \in Topics |-> IF t \in S THEN row[t] ELSE topic[t]]
      /\ call' = [call EXCEPT ![w] =
           IF mine = {} THEN Idle
           ELSE [Idle EXCEPT !.pc = "next", !.kind = "tick", !.todo = mine,
                             !.copy = [t \in Topics |-> IF t \in mine THEN row[t] ELSE Blank]]]
      /\ UNCHANGED <<draft, disturbed>>

\* The buffer pass fills the deficit.  Which candidates go first is a matter of
\* priorities: any may here.
GeneratePass(w) ==
  /\ AutoAdvance
  /\ \E S \in SUBSET Candidates :
       /\ S # {}
       /\ Cardinality(S) <= Desired - Cardinality(Stocked)
       /\ S = Candidates \/ Cardinality(S) = Desired - Cardinality(Stocked)
       /\ Reserve(w, S)

\* The slot pass takes every topic whose slot has come, whatever is in stock.
ScheduledPass(w) == DueTopics # {} /\ Reserve(w, DueTopics)

\* The Generate button.  Its checks read the topic first, and then the guarded
\* update asks again; an archived or generating topic is turned down.
Manual(w, t) ==
  /\ call[w] = Idle
  /\ ~Live(t)
  /\ Allows(topic[t].status, "start_generation")
  /\ SetStatus(t, "generating")
  /\ call' = [call EXCEPT ![w] = [Idle EXCEPT !.pc = "check", !.kind = "manual", !.topic = t]]
  /\ UNCHANGED <<draft, disturbed>>

-----------------------------------------------------------------------------
(* Generating, one topic at a time.                                        *)

\* Seeded fault: the first topic ends the batch.
DoneAll(w) == call' = [call EXCEPT ![w] = Idle]

\* w is through with its topic: the next one it has reserved, or the end.
Done(w) ==
  call' = [call EXCEPT ![w] =
    IF @.todo = {} THEN Idle ELSE [@ EXCEPT !.pc = "next", !.topic = None]]

Goes(w, pc) == call' = [call EXCEPT ![w].pc = pc]

At(w, pc) == call[w].pc = pc

Take(w) ==
  /\ At(w, "next")
  /\ \E t \in call[w].todo :
       call' = [call EXCEPT ![w] =
         [call[w] EXCEPT !.pc = "clear", !.topic = t, !.todo = call[w].todo \ {t}]]
  /\ UNCHANGED <<topic, draft, disturbed>>

\* DeleteRecoverableArticlesForTopic, by status and not by draft.
Cleared(t) ==
  [d \in Drafts |-> IF d \in Of(t) /\ draft[d].status \in {"pending_review", "rejected"}
                    THEN NoRow ELSE draft[d]]

Clear(w) ==
  /\ At(w, "clear")
  /\ draft' = Cleared(call[w].topic)
  /\ Goes(w, "write")
  /\ UNCHANGED <<topic, disturbed>>

\* The goroutine of the Generate button reads its topic again; a draft that is
\* there already is enough.  It clears nothing.
Check(w) ==
  LET t == call[w].topic
      c == [call[w] EXCEPT !.copy[t] = topic[t]]
  IN  /\ At(w, "check")
      /\ call' = [call EXCEPT ![w] =
           CASE ~Live(t) -> [c EXCEPT !.pc = "write"]
             [] Live(t) /\ topic[t].status \in Reconcilable ->
                  [c EXCEPT !.pc = "put", !.put = StatusOnly("drafted")]
             [] OTHER -> Idle]
      /\ UNCHANGED <<topic, draft, disturbed>>

\* Where an error leads: a pass resets its topic, the goroutine counts first.
Failed(w) == Goes(w, IF call[w].kind = "tick" THEN "reset" ELSE "recount")

\* The writer and its QA have answered, and the draft is inserted.
Create(w) ==
  /\ At(w, "write")
  /\ Of(call[w].topic) = {}
  /\ \E d \in Fresh :
       draft' = [draft EXCEPT ![d] = [topic |-> call[w].topic, status |-> "pending_review"]]
  /\ Goes(w, "mark")
  /\ UNCHANGED <<topic, disturbed>>

\* The unique index refuses a second canonical of the topic.
Collide(w) ==
  /\ At(w, "write")
  /\ Of(call[w].topic) # {}
  /\ Failed(w)
  /\ UNCHANGED <<topic, draft, disturbed>>

\* The variants are written too.  The state machine is asked about the copy, and
\* the status written whatever the row says.
Mark(w) ==
  LET t == call[w].topic IN
  /\ At(w, "mark")
  /\ IF Allows(call[w].copy[t].status, "mark_drafted")
     THEN SetStatus(t, To.mark_drafted) /\ Done(w)
     ELSE UNCHANGED topic /\ Failed(w)
  /\ UNCHANGED <<draft, disturbed>>

Recount(w) ==
  /\ At(w, "recount")
  /\ IF Live(call[w].topic) THEN Done(w) ELSE Goes(w, "reset")
  /\ UNCHANGED <<topic, draft, disturbed>>

Reset(w) ==
  LET t == call[w].topic IN
  /\ At(w, "reset")
  /\ IF call[w].copy[t].status = "generating"
     THEN SetStatus(t, AfterFailure(call[w].copy[t].slot # "none"))
     ELSE UNCHANGED topic
  /\ Done(w)
  /\ UNCHANGED <<draft, disturbed>>

Generating(w) ==
  \/ Take(w) \/ Clear(w) \/ Check(w) \/ Create(w) \/ Collide(w)
  \/ Mark(w) \/ Recount(w) \/ Reset(w)

-----------------------------------------------------------------------------
(* Requests.  Each reads the topic, asks the state machine, and writes     *)
(* what it then decided by a statement that asks for nothing.              *)

Reads(w, t, put) ==
  /\ call[w] = Idle
  /\ call' = [call EXCEPT ![w] =
       [Idle EXCEPT !.pc = "put", !.kind = "request", !.topic = t, !.copy[t] = topic[t], !.put = put]]
  /\ UNCHANGED <<topic, draft, disturbed>>

Schedule(w, t) ==
  /\ Allows(topic[t].status, "schedule")
  /\ \E s \in {"later", "due"} : Reads(w, t, [status |-> To.schedule, slot |-> s])

ClearSchedule(w, t) ==
  /\ Allows(topic[t].status, "clear_schedule")
  /\ Reads(w, t, [status |-> To.clear_schedule, slot |-> "none"])

Archive(w, t) ==
  /\ Allows(topic[t].status, "archive")
  /\ Reads(w, t, [status |-> To.archive, slot |-> "none"])

\* Editing a title writes the whole row back, status and slot as they were read.
Edit(w, t) == Reads(w, t, topic[t])

\* The Generate button on a topic that has its draft.
Reconcile(w, t) ==
  /\ Live(t)
  /\ topic[t].status \in Reconcilable
  /\ Reads(w, t, StatusOnly("drafted"))

\* The write hits a row it was not decided for, or one a generation works on.
Disturbs(c) ==
  \/ topic[c.topic] # c.copy[c.topic]
  \/ topic[c.topic].status = "generating"
  \/ c.put.status = "drafted" /\ ~Live(c.topic)

Put(w) ==
  LET c == call[w] IN
  /\ At(w, "put")
  /\ topic' = [topic EXCEPT ![c.topic] =
       IF c.put.slot = "keep" THEN [@ EXCEPT !.status = c.put.status] ELSE c.put]
  /\ disturbed' = IF Disturbs(c) THEN disturbed \cup {c.topic} ELSE disturbed
  /\ call' = [call EXCEPT ![w] = Idle]
  /\ UNCHANGED draft

\* A rejection updates the draft first ...
Reject(w, d) ==
  /\ call[w] = Idle
  /\ draft[d] # NoRow
  /\ draft' = [draft EXCEPT ![d].status = "rejected"]
  /\ call' = [call EXCEPT ![w] =
       [Idle EXCEPT !.pc = "reopen", !.kind = "request", !.topic = draft[d].topic]]
  /\ UNCHANGED <<topic, disturbed>>

\* ... and then reads the topic, to give it back to the backlog.
Reopen(w) ==
  LET t == call[w].topic IN
  /\ At(w, "reopen")
  /\ call' = [call EXCEPT ![w] =
       IF Allows(topic[t].status, "reject_draft")
       THEN [@ EXCEPT !.pc = "put", !.copy[t] = topic[t],
                      !.put = StatusOnly(To.reject_draft)]
       ELSE Idle]
  /\ UNCHANGED <<topic, draft, disturbed>>

\* Approving asks for no status (the review gate is ReviewRecovery's matter).
Approve(d) ==
  /\ draft[d] # NoRow
  /\ draft' = [draft EXCEPT ![d].status = "approved"]
  /\ UNCHANGED <<topic, call, disturbed>>

Requests(w) ==
  \/ \E t \in Topics : \/ Schedule(w, t) \/ ClearSchedule(w, t) \/ Archive(w, t)
                       \/ Edit(w, t) \/ Reconcile(w, t) \/ Manual(w, t)
  \/ \E d \in Drafts : Reject(w, d)

Answers(w) == Reopen(w) \/ Put(w)

-----------------------------------------------------------------------------
(* Time, the publisher, and what goes wrong.                               *)

SlotComes(t) ==
  /\ topic[t].slot = "later"
  /\ topic' = [topic EXCEPT ![t].slot = "due"]
  /\ UNCHANGED <<draft, call, disturbed>>

\* ArticlePublish takes an approved draft further.
Publish(d) ==
  /\ draft[d].status = "approved"
  /\ draft' = [draft EXCEPT ![d].status = "published"]
  /\ UNCHANGED <<topic, call, disturbed>>

\* The model, the store or a statement fails: before the draft is written, when
\* its topic is to be marked, or when it is to be reset.
Errs(w) ==
  /\ \/ call[w].pc \in {"clear", "write", "mark"} /\ Failed(w)
     \/ call[w].pc \in {"recount", "reset"} /\ Done(w)
  /\ UNCHANGED <<topic, draft, disturbed>>

\* The process stops, or the context of the call ends: a goroutine's after 30
\* minutes, a request's when the client leaves.  No statement succeeds any more,
\* the reset included.  A rejection that has not reached its topic counts.
Dies(w) ==
  /\ call[w] # Idle
  /\ call' = [call EXCEPT ![w] = Idle]
  /\ disturbed' = IF call[w].kind = "request" THEN disturbed \cup {call[w].topic} ELSE disturbed
  /\ UNCHANGED <<topic, draft>>

Fault(w) == Errs(w) \/ Dies(w)

Passes(w) == GeneratePass(w) \/ ScheduledPass(w)

Works(w) == Generating(w) \/ Answers(w)

Reviews == \E d \in Drafts : Approve(d) \/ Publish(d)

Next ==
  \/ \E w \in Workers : Passes(w) \/ Works(w) \/ Requests(w) \/ Fault(w)
  \/ \E t \in Topics : SlotComes(t)
  \/ Reviews

Spec == Init /\ [][Next]_vars

-----------------------------------------------------------------------------
CallStates == {"idle", "next", "clear", "check", "write", "mark", "recount", "reset",
               "put", "reopen"}

PutRows == [status : Statuses, slot : Slots \cup {"keep"}]

Calls == [pc : CallStates, kind : {"none", "tick", "manual", "request"},
          topic : Topics \cup {None}, todo : SUBSET Topics,
          copy : [Topics -> TopicRows], put : PutRows]

TypeOK ==
  /\ topic \in [Topics -> TopicRows]
  /\ draft \in [Drafts -> DraftRows \cup {NoRow}]
  /\ call \in [Workers -> Calls]
  /\ disturbed \subseteq Topics

\* w has reserved t and is not through with it.
Holds(w, t) ==
  \/ t \in call[w].todo
  \/ t = call[w].topic /\ call[w].pc \in {"clear", "check", "write", "mark", "recount", "reset"}

\* Overlapping passes, the Generate button and crashes never make two
\* generations of one topic, nor one of a topic that is open to others.  Only a
\* request that writes under a generation does.
OneGeneration ==
  \A t \in Topics \ disturbed : \A v, w \in Workers :
    Holds(v, t) => topic[t].status = "generating" /\ (Holds(w, t) => v = w)

\* The topic has lost its draft and is about to hear of it.
BeingRejected(t) ==
  \E w \in Workers : call[w].kind = "request" /\ call[w].topic = t /\ call[w].pc \in {"reopen", "put"}

\* A topic called drafted, which no pass looks at again, has a draft that was
\* not rejected.
DraftedHasDraft ==
  \A t \in Topics \ disturbed : topic[t].status = "drafted" =>
    \/ \E d \in Drafts : draft[d].topic = t /\ draft[d].status # "rejected"
    \/ BeingRejected(t)

\* The rows a generation clears away before it writes are never a draft that
\* someone may still approve or publish.
ClearSparesDrafts ==
  [][\A d \in Drafts : draft[d].status # "rejected" /\ draft[d].topic \in Topics \ disturbed
                         => draft'[d].topic = draft[d].topic]_vars
=============================================================================
