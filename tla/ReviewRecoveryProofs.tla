------------------------ MODULE ReviewRecoveryProofs ------------------------
(***************************************************************************)
(* Proofs about ReviewRecovery, for any topics, drafts and calls.          *)
(*                                                                         *)
(* Nothing locks the rows, so what a call may rely on is what it carries:  *)
(* a draft and its topic, and the verdict it saw when it was sent to       *)
(* approve.  Regenerations are bounded because a call that has seen budget *)
(* left counts one and looks again: the counter and the calls on their way *)
(* to raise it never exceed, together, the budget by more than the calls.  *)
(***************************************************************************)
EXTENDS ReviewRecovery, TopicGenerationProofs, FiniteSetTheorems

ReviewStatuses == {"pending_review", "approved", "rejected", "published"}

RevCalls == [pc : RevStates, then : {"end", "settle", "approve"},
             draft : Drafts \cup {None}, topic : Topics \cup {None},
             status : {"none"} \cup ReviewStatuses \cup Statuses, qa : QARows]

\* Positions at which a call has a draft to work on.
WithDraft == {"judge", "repair", "edit", "requalify", "check", "regen", "clear", "mark", "approve"}

\* What a call carries is of use at its position: it is to approve only what it
\* saw unblocked, and in review when it is a pass.
SoundRev(c) ==
  /\ c.pc # "idle" => c.topic \in Topics
  /\ c.pc \in WithDraft => c.draft \in Drafts
  /\ c.pc = "check" => c.status \in ReviewStatuses
  /\ c.pc = "approve" => ~c.qa.block /\ (c.then = "settle" => c.status = "pending_review")

RevsSound == \A r \in Reviewers : SoundRev(rev[r])

\* The calls about to count a regeneration of t.
AboutToClear(t) == {r \in Reviewers : rev[r].pc = "clear" /\ rev[r].topic = t}

RegensWithin ==
  \A t \in Topics :
    regens[t] + Cardinality(AboutToClear(t)) <= MaxRegens + Cardinality(Reviewers) - 1

RInv == RTypeOK /\ CallsSound /\ RevsSound /\ RegensWithin

-----------------------------------------------------------------------------
(* Generation beside the reviews.  Its own invariant does not survive them *)
(* (a review reopens a topic under a generation), its types do.            *)

GenOK == TypeOK /\ CallsSound

\* The call of w becomes c, and the rows stay rows.
LEMMA GenStep ==
  ASSUME GenOK, NEW w \in Workers, NEW c \in Calls, Sound(c), NowCalls(w, c),
         topic' \in [Topics -> TopicRows], draft' \in [Drafts -> DraftRows \cup {NoRow}],
         disturbed' \subseteq Topics
  PROVE  GenOK'
<1>1. /\ call' \in [Workers -> Calls] /\ call'[w] = c
      /\ \A v \in Workers \ {w} : call'[v] = call[v]
  BY BecomesCall DEF GenOK
<1> QED
  BY <1>1 DEF GenOK, TypeOK, CallsSound

LEMMA RowsKept ==
  ASSUME GenOK
  PROVE  /\ topic' = topic => topic' \in [Topics -> TopicRows]
         /\ draft' = draft => draft' \in [Drafts -> DraftRows \cup {NoRow}]
         /\ disturbed' = disturbed => disturbed' \subseteq Topics
BY DEF GenOK, TypeOK

\* A row of which the status alone changes.
LEMMA DraftStatusType ==
  ASSUME GenOK, NEW d \in Drafts, NEW s \in ReviewStatuses, Exists(d),
         draft' = [draft EXCEPT ![d].status = s]
  PROVE  /\ draft' \in [Drafts -> DraftRows \cup {NoRow}]
         /\ draft'[d].status = s
         /\ \A e \in Drafts \ {d} : draft'[e] = draft[e]
<1>1. draft[d] \in DraftRows /\ draft \in [Drafts -> DraftRows \cup {NoRow}]
  BY DEF GenOK, TypeOK, Exists
<1>2. [draft[d] EXCEPT !.status = s] \in DraftRows /\ [draft[d] EXCEPT !.status = s].status = s
  BY <1>1 DEF DraftRows, ReviewStatuses
<1>3. draft' = [draft EXCEPT ![d] = [draft[d] EXCEPT !.status = s]]
  OBVIOUS
<1> QED
  BY <1>1, <1>2, <1>3

\* Rows are cleared, of one topic.
LEMMA ClearedType ==
  ASSUME GenOK, NEW t
  PROVE  Cleared(t) \in [Drafts -> DraftRows \cup {NoRow}]
BY DEF GenOK, TypeOK, Cleared

\* A draft is inserted.
LEMMA InsertType ==
  ASSUME GenOK, NEW d \in Drafts, NEW t \in Topics,
         draft' = [draft EXCEPT ![d] = [topic |-> t, status |-> "pending_review"]]
  PROVE  /\ draft' \in [Drafts -> DraftRows \cup {NoRow}]
         /\ draft'[d].status = "pending_review"
         /\ \A e \in Drafts \ {d} : draft'[e] = draft[e]
BY DEF GenOK, TypeOK, DraftRows

LEMMA GenDone ==
  ASSUME GenOK, NEW w \in Workers, Done(w), call[w].pc \in Working,
         topic' \in [Topics -> TopicRows], draft' = draft, disturbed' = disturbed
  PROVE  GenOK'
<1>1. PICK c \in Calls : NowCalls(w, c) /\ Sound(c)
  BY DoneCall DEF GenOK
<1> QED
  BY <1>1, GenStep, RowsKept

LEMMA GenGoes ==
  ASSUME GenOK, NEW w \in Workers, NEW p \in Working, Goes(w, p), call[w].pc \in Working,
         call[w].todo = {} \/ p # "check",
         topic' = topic, draft' \in [Drafts -> DraftRows \cup {NoRow}], disturbed' = disturbed
  PROVE  GenOK'
<1>1. PICK c \in Calls :
        /\ NowCalls(w, c)
        /\ c.pc = p /\ c.topic = call[w].topic /\ c.todo = call[w].todo /\ c.kind = call[w].kind
  BY GoesCall DEF GenOK, Working, CallStates
<1>2. Sound(c)
  BY <1>1 DEF GenOK, CallsSound, Sound, Working
<1> QED
  BY <1>1, <1>2, GenStep, RowsKept

LEMMA GenFailed ==
  ASSUME GenOK, NEW w \in Workers, Failed(w), call[w].pc \in Working,
         topic' = topic, draft' = draft, disturbed' = disturbed
  PROVE  GenOK'
<1>1. Goes(w, "reset") \/ Goes(w, "recount")
  BY DEF Failed
<1> QED
  BY <1>1, GenGoes, RowsKept DEF Working

LEMMA GenTake ==
  ASSUME GenOK, NEW w \in Workers, Take(w)
  PROVE  GenOK'
<1>1. PICK t \in call[w].todo :
        NowCalls(w, [call[w] EXCEPT !.pc = "clear", !.topic = t, !.todo = call[w].todo \ {t}])
  BY DEF Take, NowCalls
<1> DEFINE c == [call[w] EXCEPT !.pc = "clear", !.topic = t, !.todo = call[w].todo \ {t}]
<1>2. call[w] \in Calls /\ t \in Topics /\ call[w].pc = "next" /\ call[w].kind # "request"
  BY <1>1 DEF GenOK, TypeOK, CallsSound, Sound, Calls, Take, At
<1>3. /\ c \in Calls /\ c.pc = "clear" /\ c.topic = t /\ c.todo = call[w].todo \ {t}
      /\ c.kind = call[w].kind
  BY <1>2 DEF Calls, CallStates
<1>4. topic' = topic /\ draft' = draft /\ disturbed' = disturbed
  BY DEF Take
<1> HIDE DEF c
<1>5. Sound(c)
  BY <1>2, <1>3 DEF Sound
<1>6. NowCalls(w, c)
  BY <1>1 DEF c
<1> QED
  BY <1>3, <1>4, <1>5, <1>6, GenStep, RowsKept

LEMMA GenCheck ==
  ASSUME GenOK, NEW w \in Workers, Check(w)
  PROVE  GenOK'
<1> DEFINE t == call[w].topic
           c == [call[w] EXCEPT !.copy[t] = topic[t]]
           a == [c EXCEPT !.pc = "write"]
           b == [c EXCEPT !.pc = "put", !.put = StatusOnly("drafted")]
<1>1. /\ call[w] \in Calls /\ t \in Topics /\ topic[t] \in TopicRows
      /\ call[w].pc = "check" /\ Sound(call[w])
  BY DEF GenOK, TypeOK, CallsSound, Sound, Check, At
<1>2. c \in Calls /\ c.topic = t /\ c.todo = call[w].todo /\ c.kind = call[w].kind
  BY <1>1 DEF Calls
<1>3. StatusOnly("drafted") \in PutRows
  BY DEF StatusOnly, PutRows, Statuses, Slots
<1>4. /\ a \in Calls /\ a.pc = "write" /\ a.topic = t /\ a.todo = call[w].todo
      /\ a.kind = call[w].kind
  <2> HIDE DEF c
  <2> QED BY <1>2, PcType DEF CallStates
<1>5. /\ b \in Calls /\ b.pc = "put" /\ b.topic = t /\ b.todo = call[w].todo
  <2> HIDE DEF c
  <2> QED BY <1>2, <1>3 DEF Calls, CallStates
<1>6. topic' = topic /\ draft' = draft /\ disturbed' = disturbed
  BY DEF Check
<1>7. NowCalls(w, a) \/ NowCalls(w, b) \/ NowCalls(w, Idle)
  BY DEF Check, NowCalls
<1> HIDE DEF t, c, a, b
<1>8. Sound(a) /\ Sound(b)
  BY <1>1, <1>4, <1>5 DEF Sound
<1> QED
  BY <1>4, <1>5, <1>6, <1>7, <1>8, IdleType, GenStep, RowsKept

LEMMA GenCreate ==
  ASSUME GenOK, NEW w \in Workers, Create(w)
  PROVE  GenOK'
<1>1. call[w].topic \in Topics /\ call[w].pc = "write"
  BY DEF GenOK, CallsSound, Sound, Create, At
<1>2. draft' \in [Drafts -> DraftRows \cup {NoRow}]
  BY <1>1, InsertType DEF Create, Fresh
<1> QED
  BY <1>1, <1>2, GenGoes DEF Create, Working

LEMMA GenMark ==
  ASSUME GenOK, NEW w \in Workers, Mark(w)
  PROVE  GenOK'
<1>1. /\ call[w].pc \in Working /\ draft' = draft /\ disturbed' = disturbed
      /\ \/ SetStatus(call[w].topic, To.mark_drafted) /\ Done(w)
         \/ topic' = topic /\ Failed(w)
  BY DEF Mark, At, Working
<1>2. SetStatus(call[w].topic, To.mark_drafted) => topic' \in [Topics -> TopicRows]
  BY StatusType, TopicType DEF GenOK
<1> QED
  BY <1>1, <1>2, GenDone, GenFailed

LEMMA GenReset ==
  ASSUME GenOK, NEW w \in Workers, Reset(w)
  PROVE  GenOK'
<1> DEFINE s == AfterFailure(call[w].copy[call[w].topic].slot # "none")
<1>1. /\ call[w].pc \in Working /\ draft' = draft /\ disturbed' = disturbed /\ Done(w)
      /\ SetStatus(call[w].topic, s) \/ topic' = topic
  BY DEF Reset, At, Working
<1>2. s \in Statuses
  BY StatusType
<1> HIDE DEF s
<1>3. topic' \in [Topics -> TopicRows]
  BY <1>1, <1>2, TopicType, RowsKept DEF GenOK
<1> QED
  BY <1>1, <1>3, GenDone

LEMMA GenGenerating ==
  ASSUME GenOK, NEW w \in Workers, Generating(w)
  PROVE  GenOK'
<1>1. CASE Clear(w)
  <2>1. draft' \in [Drafts -> DraftRows \cup {NoRow}]
    BY <1>1, ClearedType DEF Clear
  <2> QED BY <1>1, <2>1, GenGoes DEF Clear, At, Working
<1>2. CASE Collide(w)
  BY <1>2, GenFailed DEF Collide, At, Working
<1>3. CASE Recount(w)
  <2>1. /\ call[w].pc \in Working /\ topic' = topic /\ draft' = draft /\ disturbed' = disturbed
        /\ Done(w) \/ Goes(w, "reset")
    BY <1>3 DEF Recount, At, Working
  <2> QED BY <2>1, GenDone, GenGoes, RowsKept DEF Working
<1> QED
  BY <1>1, <1>2, <1>3, GenTake, GenCheck, GenCreate, GenMark, GenReset DEF Generating

LEMMA GenReads ==
  ASSUME GenOK, NEW w \in Workers, NEW t \in Topics, NEW p \in PutRows, Reads(w, t, p)
  PROVE  GenOK'
<1> DEFINE c == [Idle EXCEPT !.pc = "put", !.kind = "request", !.topic = t, !.copy[t] = topic[t],
                             !.put = p]
<1>1. NowCalls(w, c) /\ topic' = topic /\ draft' = draft /\ disturbed' = disturbed
  BY DEF Reads, NowCalls
<1>2. topic[t] \in TopicRows
  BY DEF GenOK, TypeOK
<1>3. /\ c \in Calls /\ c.pc = "put" /\ c.topic = t /\ c.todo = Idle.todo /\ c.kind = "request"
  BY <1>2, IdleType DEF Calls, CallStates
<1>4. Idle.todo = {}
  BY DEF Idle
<1> HIDE DEF c
<1>5. Sound(c)
  BY <1>3, <1>4 DEF Sound
<1> QED
  BY <1>1, <1>3, <1>5, GenStep, RowsKept

LEMMA GenManual ==
  ASSUME GenOK, NEW w \in Workers, NEW t \in Topics, Manual(w, t)
  PROVE  GenOK'
<1> DEFINE c == [Idle EXCEPT !.pc = "check", !.kind = "manual", !.topic = t]
<1>1. /\ NowCalls(w, c) /\ SetStatus(t, "generating") /\ draft' = draft /\ disturbed' = disturbed
  BY DEF Manual, NowCalls
<1>2. Idle.todo = {}
  BY DEF Idle
<1>3. c \in Calls /\ c.pc = "check" /\ c.topic = t /\ c.todo = {} /\ c.kind = "manual"
  BY <1>2, IdleType DEF Calls, CallStates
<1> HIDE DEF c
<1>4. Sound(c)
  BY <1>3 DEF Sound
<1>5. topic' \in [Topics -> TopicRows]
  BY <1>1, StatusType, TopicType DEF GenOK
<1> QED
  BY <1>1, <1>3, <1>4, <1>5, GenStep, RowsKept

LEMMA GenReject ==
  ASSUME GenOK, NEW w \in Workers, NEW d \in Drafts, Reject(w, d)
  PROVE  GenOK'
<1> DEFINE t == draft[d].topic
           c == [Idle EXCEPT !.pc = "reopen", !.kind = "request", !.topic = t]
<1>1. /\ NowCalls(w, c) /\ topic' = topic /\ disturbed' = disturbed
      /\ Exists(d) /\ draft' = [draft EXCEPT ![d].status = "rejected"]
  BY DEF Reject, NowCalls, Exists
<1>2. t \in Topics
  BY <1>1 DEF GenOK, TypeOK, DraftRows, Exists
<1>3. draft' \in [Drafts -> DraftRows \cup {NoRow}]
  BY <1>1, DraftStatusType DEF ReviewStatuses
<1>4. Idle.todo = {}
  BY DEF Idle
<1> HIDE DEF t
<1>5. c \in Calls /\ c.pc = "reopen" /\ c.topic = t /\ c.todo = {} /\ c.kind = "request"
  BY <1>2, <1>4, IdleType DEF Calls, CallStates
<1> HIDE DEF c
<1>6. Sound(c)
  BY <1>2, <1>5 DEF Sound
<1> QED
  BY <1>1, <1>3, <1>5, <1>6, GenStep, RowsKept

LEMMA GenRequests ==
  ASSUME GenOK, NEW w \in Workers, Requests(w)
  PROVE  GenOK'
<1>1. CASE \E d \in Drafts : Reject(w, d)
  BY <1>1, GenReject
<1>2. CASE \E t \in Topics : Manual(w, t)
  BY <1>2, GenManual
<1>3. ASSUME NEW t \in Topics,
             Schedule(w, t) \/ ClearSchedule(w, t) \/ Archive(w, t) \/ Edit(w, t) \/ Reconcile(w, t)
      PROVE  \E p \in PutRows : Reads(w, t, p)
  <2>1. topic[t] \in PutRows
    BY DEF GenOK, TypeOK, TopicRows, PutRows
  <2>2. StatusOnly("drafted") \in PutRows
    BY DEF StatusOnly, PutRows, Statuses, Slots
  <2>3. CASE Schedule(w, t)
    BY <2>3, StatusType DEF Schedule, PutRows, Slots
  <2>4. CASE ClearSchedule(w, t) \/ Archive(w, t)
    BY <2>4, StatusType DEF ClearSchedule, Archive, PutRows, Slots
  <2> QED BY <1>3, <2>1, <2>2, <2>3, <2>4 DEF Edit, Reconcile
<1> QED
  BY <1>1, <1>2, <1>3, GenReads DEF Requests

LEMMA GenAnswers ==
  ASSUME GenOK, NEW w \in Workers, Answers(w)
  PROVE  GenOK'
<1> DEFINE t == call[w].topic
<1>1. /\ call[w] \in Calls /\ t \in Topics /\ topic[t] \in TopicRows
      /\ call[w].pc \in {"put", "reopen"} /\ Sound(call[w]) /\ call[w].todo = {}
  BY DEF GenOK, TypeOK, CallsSound, Sound, Answers, Reopen, Put, At
<1>2. CASE Reopen(w)
  <2> DEFINE c == [call[w] EXCEPT !.pc = "put", !.copy[t] = topic[t],
                                  !.put = StatusOnly(To.reject_draft)]
  <2>1. /\ topic' = topic /\ draft' = draft /\ disturbed' = disturbed
        /\ NowCalls(w, c) \/ NowCalls(w, Idle)
    BY <1>2 DEF Reopen, NowCalls
  <2>2. StatusOnly(To.reject_draft) \in PutRows
    BY StatusType DEF StatusOnly, PutRows, Slots
  <2>3. c \in Calls /\ c.pc = "put" /\ c.topic = t /\ c.todo = {} /\ c.kind = call[w].kind
    BY <1>1, <2>2 DEF Calls, CallStates
  <2> HIDE DEF c
  <2>4. Sound(c)
    BY <1>1, <2>3 DEF Sound
  <2> QED BY <2>1, <2>3, <2>4, IdleType, GenStep, RowsKept
<1>3. CASE Put(w)
  <2> DEFINE c == call[w]
             r == IF c.put.slot = "keep" THEN [topic[t] EXCEPT !.status = c.put.status] ELSE c.put
  <2>1. r \in TopicRows
    BY <1>1 DEF Calls, PutRows, TopicRows
  <2>2. /\ topic' = [topic EXCEPT ![t] = r]
        /\ disturbed' = IF Disturbs(c) THEN disturbed \cup {t} ELSE disturbed
        /\ NowCalls(w, Idle) /\ draft' = draft
    BY <1>3 DEF Put, NowCalls
  <2> HIDE DEF r
  <2>3. topic' \in [Topics -> TopicRows] /\ disturbed' \subseteq Topics
    BY <1>1, <2>1, <2>2 DEF GenOK, TypeOK
  <2> QED BY <2>2, <2>3, IdleType, GenStep, RowsKept
<1> QED
  BY <1>2, <1>3 DEF Answers

LEMMA GenFault ==
  ASSUME GenOK, NEW w \in Workers, Fault(w)
  PROVE  GenOK'
<1>1. CASE Errs(w)
  <2>1. /\ topic' = topic /\ draft' = draft /\ disturbed' = disturbed
        /\ call[w].pc \in Working /\ (Failed(w) \/ Done(w))
    BY <1>1 DEF Errs, Working
  <2> QED BY <2>1, GenFailed, GenDone, RowsKept
<1>2. CASE Dies(w)
  <2>1. /\ NowCalls(w, Idle) /\ topic' = topic /\ draft' = draft
        /\ disturbed' = IF call[w].kind = "request" THEN disturbed \cup {call[w].topic} ELSE disturbed
    BY <1>2 DEF Dies, NowCalls
  <2>2. disturbed' \subseteq Topics
    BY <2>1 DEF GenOK, TypeOK, CallsSound, Sound
  <2> QED BY <2>1, <2>2, IdleType, GenStep, RowsKept
<1> QED
  BY <1>1, <1>2 DEF Fault

LEMMA GenReserve ==
  ASSUME GenOK, NEW w \in Workers, NEW S \in SUBSET Topics, Reserve(w, S)
  PROVE  GenOK'
<1> DEFINE mine == {t \in S : ~Live(t)}
           row == [t \in Topics |-> IF t \in mine THEN [topic[t] EXCEPT !.status = "generating"]
                                    ELSE [topic[t] EXCEPT !.status = "drafted"]]
           n == [Idle EXCEPT !.pc = "next", !.kind = "tick", !.todo = mine,
                             !.copy = [t \in Topics |-> IF t \in mine THEN row[t] ELSE Blank]]
<1>1. /\ NowCalls(w, IF mine = {} THEN Idle ELSE n)
      /\ topic' = [t \in Topics |-> IF t \in S THEN row[t] ELSE topic[t]]
      /\ draft' = draft /\ disturbed' = disturbed
  BY DEF Reserve, NowCalls
<1>2. mine \subseteq S
  OBVIOUS
<1>3. row \in [Topics -> TopicRows]
  BY StatusType DEF GenOK, TypeOK, TopicRows
<1>4. Blank \in TopicRows
  BY DEF Blank, TopicRows, Statuses, Slots
<1> HIDE DEF row, mine
<1>5. n \in Calls /\ n.pc = "next" /\ n.topic = None /\ n.todo = mine /\ n.kind = "tick"
  BY <1>2, <1>3, <1>4, IdleType DEF Idle, Calls, CallStates
<1> HIDE DEF n
<1>6. Sound(n)
  BY <1>2, <1>5, TopicsAssumption DEF Sound
<1>7. topic' \in [Topics -> TopicRows]
  BY <1>1, <1>3 DEF GenOK, TypeOK
<1> QED
  BY <1>1, <1>5, <1>6, <1>7, IdleType, GenStep, RowsKept

LEMMA GenPasses ==
  ASSUME GenOK, NEW w \in Workers, Passes(w)
  PROVE  GenOK'
<1>1. Candidates \in SUBSET Topics /\ DueTopics \in SUBSET Topics
  BY DEF Candidates, DueTopics
<1>2. \E S \in SUBSET Topics : Reserve(w, S)
  BY <1>1 DEF Passes, GeneratePass, ScheduledPass
<1> QED
  BY <1>2, GenReserve

\* Steps of nobody's call.
LEMMA GenRest ==
  ASSUME GenOK, (\E t \in Topics : SlotComes(t)) \/ (\E d \in Drafts : Publish(d))
  PROVE  GenOK'
<1>1. CASE \E t \in Topics : SlotComes(t)
  BY <1>1 DEF SlotComes, GenOK, TypeOK, CallsSound, TopicRows, Slots
<1>2. ASSUME NEW d \in Drafts, Publish(d)
      PROVE  GenOK'
  <2>1. Exists(d)
    BY <1>2 DEF Publish, Exists, NoRow
  <2>2. draft' \in [Drafts -> DraftRows \cup {NoRow}]
    BY <1>2, <2>1, DraftStatusType DEF Publish, ReviewStatuses
  <2> QED BY <1>2, <2>2 DEF Publish, GenOK, TypeOK, CallsSound
<1> QED
  BY <1>1, <1>2

-----------------------------------------------------------------------------
(* The rows of QA.                                                         *)

LEMMA NoQAType == NoQA \in QARows /\ ~NoQA.block
BY DEF NoQA, QARows, Verdicts

LEMMA NewQAType == NewQA \subseteq QARows
<1> DEFINE S == [block : BOOLEAN, verdict : Outcomes, human : BOOLEAN,
                 repairs : 0 .. MaxRepairs, tries : {0}]
<1>1. Outcomes \subseteq Verdicts /\ 0 .. MaxRepairs \subseteq Nat
  BY ReviewAssumption DEF Verdicts
<1>2. S \subseteq QARows
  BY <1>1 DEF QARows
<1>3. NewQA \subseteq S
  BY Zenon DEF NewQA
<1> HIDE DEF S
<1> QED
  BY <1>2, <1>3

\* What the handlers write over a row.
LEMMA QATypes ==
  ASSUME NEW q \in QARows, NEW v \in Verdicts, NEW b \in BOOLEAN
  PROVE  /\ [q EXCEPT !.human = TRUE] \in QARows
         /\ [q EXCEPT !.tries = @ + 1] \in QARows
         /\ [q EXCEPT !.repairs = @ + 1, !.human = FALSE] \in QARows
         /\ [q EXCEPT !.block = FALSE, !.verdict = "clean", !.human = FALSE] \in QARows
         /\ [q EXCEPT !.human = TRUE, !.verdict = v] \in QARows
         /\ [q EXCEPT !.block = b, !.verdict = v] \in QARows
<1> DEFINE p == [q EXCEPT !.repairs = @ + 1]
<1>1. p \in QARows /\ [q EXCEPT !.tries = @ + 1] \in QARows
  BY DEF QARows
<1>2. [q EXCEPT !.repairs = @ + 1, !.human = FALSE] = [p EXCEPT !.human = FALSE]
  BY DEF QARows
<1> HIDE DEF p
<1>3. [p EXCEPT !.human = FALSE] \in QARows
  BY <1>1 DEF QARows
<1>4. [q EXCEPT !.human = TRUE] \in QARows /\ [q EXCEPT !.human = TRUE, !.verdict = v] \in QARows
  BY DEF QARows
<1>5. /\ [q EXCEPT !.block = FALSE, !.verdict = "clean", !.human = FALSE] \in QARows
      /\ [q EXCEPT !.block = b, !.verdict = v] \in QARows
  BY DEF QARows, Verdicts
<1> QED
  BY <1>1, <1>2, <1>3, <1>4, <1>5

LEMMA UpdatesType ==
  ASSUME RTypeOK, NEW r \in Reviewers, rev[r].draft \in Drafts, NEW q \in QARows, Updates(r, q)
  PROVE  qa' \in [Drafts -> QARows]
BY DEF RTypeOK, Updates

LEMMA JudgesType ==
  ASSUME RTypeOK, Judges
  PROVE  qa' \in [Drafts -> QARows]
<1>1. PICK q \in NewQA : qa' = [d \in Drafts |-> IF draft'[d] = NoRow THEN NoQA
                                                 ELSE IF Exists(d) THEN qa[d] ELSE q]
  BY DEF Judges
<1>2. q \in QARows
  BY NewQAType
<1> QED
  BY <1>1, <1>2, NoQAType DEF RTypeOK

-----------------------------------------------------------------------------
(* The calls.                                                              *)

LEMMA FreeType == Free \in RevCalls /\ SoundRev(Free) /\ Free.pc = "idle"
BY NoQAType DEF Free, RevCalls, RevStates, SoundRev, WithDraft

LEMMA CallType ==
  ASSUME RInv, NEW r \in Reviewers
  PROVE  /\ rev[r] \in RevCalls /\ SoundRev(rev[r])
         /\ rev[r].pc \in WithDraft => rev[r].draft \in Drafts /\ qa[rev[r].draft] \in QARows
         /\ rev[r].pc # "idle" => rev[r].topic \in Topics
<1>1. rev[r] \in RevCalls /\ SoundRev(rev[r])
  BY DEF RInv, RTypeOK, RevsSound, RevCalls, ReviewStatuses
<1> QED
  BY <1>1 DEF RInv, RTypeOK, SoundRev

\* A call is opened on a row that exists, and so of a topic.
LEMMA OpensType ==
  ASSUME GenOK, NEW d \in Drafts, Exists(d), NEW pc \in WithDraft \ {"check", "approve", "clear"},
         NEW then \in {"end", "settle", "approve"}
  PROVE  /\ draft[d] \in DraftRows /\ draft[d].status \in ReviewStatuses
         /\ Opens(d, pc, then) \in RevCalls /\ SoundRev(Opens(d, pc, then))
         /\ Opens(d, pc, then).pc = pc
<1>1. draft[d] \in DraftRows /\ draft[d].topic \in Topics /\ draft[d].status \in ReviewStatuses
  BY DEF GenOK, TypeOK, Exists, DraftRows, ReviewStatuses
<1> DEFINE c == Opens(d, pc, then)
<1>2. /\ c \in RevCalls /\ c.pc = pc /\ c.draft = d /\ c.topic = draft[d].topic
  BY <1>1, FreeType DEF Opens, RevCalls, RevStates, WithDraft
<1> HIDE DEF c
<1>3. SoundRev(c)
  BY <1>1, <1>2 DEF SoundRev
<1> QED
  BY <1>1, <1>2, <1>3 DEF c

\* A call is sent to approve with the status and the verdict it has seen.
LEMMA ApprovesType ==
  ASSUME NEW c \in RevCalls, c.draft \in Drafts, c.topic \in Topics,
         NEW status \in ReviewStatuses, NEW q \in QARows, ~q.block,
         c.then = "settle" => status = "pending_review"
  PROVE  /\ Approves(c, status, q) \in RevCalls /\ SoundRev(Approves(c, status, q))
         /\ Approves(c, status, q).pc = "approve"
<1> DEFINE n == [NoQA EXCEPT !.block = q.block]
           a == Approves(c, status, q)
<1>1. n \in QARows /\ ~n.block
  BY NoQAType DEF QARows
<1>2. a = [c EXCEPT !.pc = "approve", !.status = status, !.qa = n]
  BY DEF Approves
<1> HIDE DEF n, a
<1>3. /\ a \in RevCalls /\ a.pc = "approve" /\ a.status = status /\ a.qa = n
      /\ a.draft = c.draft /\ a.topic = c.topic /\ a.then = c.then
  BY <1>1, <1>2 DEF RevCalls, RevStates
<1>4. SoundRev(a)
  BY <1>1, <1>3 DEF SoundRev
<1> QED
  BY <1>3, <1>4 DEF a

LEMMA SettledType ==
  ASSUME NEW c \in RevCalls, c.draft \in Drafts, c.topic \in Topics,
         NEW status \in ReviewStatuses, NEW q \in QARows
  PROVE  /\ Settled(c, status, q) \in RevCalls /\ SoundRev(Settled(c, status, q))
         /\ Settled(c, status, q).pc # "clear"
<1>1. CASE c.then = "settle" /\ ReviewAuto /\ status = "pending_review" /\ ~q.block /\ ~q.human
  <2>1. Settled(c, status, q) = Approves(c, status, q)
    BY <1>1 DEF Settled
  <2> QED BY <1>1, <2>1, ApprovesType
<1>2. CASE c.then = "approve" /\ ~q.block
  <2>1. Settled(c, status, q) = Approves(c, status, q)
    BY <1>2 DEF Settled
  <2> QED BY <1>2, <2>1, ApprovesType
<1>3. CASE /\ ~(c.then = "settle" /\ ReviewAuto /\ status = "pending_review" /\ ~q.block /\ ~q.human)
           /\ ~(c.then = "approve" /\ ~q.block)
  <2>1. Settled(c, status, q) = Free
    BY <1>3 DEF Settled
  <2> QED BY <2>1, FreeType
<1> QED
  BY <1>1, <1>2, <1>3

-----------------------------------------------------------------------------
(* The budget.                                                             *)

LEMMA AboutFinite ==
  ASSUME NEW t
  PROVE  /\ IsFiniteSet(AboutToClear(t)) /\ Cardinality(AboutToClear(t)) \in Nat
         /\ Cardinality(Reviewers) \in Nat /\ Cardinality(AboutToClear(t)) <= Cardinality(Reviewers)
<1>1. AboutToClear(t) \in SUBSET Reviewers /\ IsFiniteSet(Reviewers)
  BY ReviewAssumption DEF AboutToClear
<1> QED
  BY <1>1, FS_Subset, FS_CardinalityType

\* The same after a step.
LEMMA AboutFiniteAfter ==
  ASSUME NEW t
  PROVE  /\ IsFiniteSet(AboutToClear(t)') /\ Cardinality(AboutToClear(t)') \in Nat
         /\ Cardinality(AboutToClear(t)') <= Cardinality(Reviewers)
<1>1. AboutToClear(t)' \in SUBSET Reviewers /\ IsFiniteSet(Reviewers)
  BY ReviewAssumption DEF AboutToClear
<1> QED
  BY <1>1, FS_Subset, FS_CardinalityType

\* Nobody new is about to count.
LEMMA FewerClear ==
  ASSUME RInv, NEW t \in Topics, AboutToClear(t)' \subseteq AboutToClear(t), regens'[t] = regens[t]
  PROVE  regens'[t] + Cardinality(AboutToClear(t)') <= MaxRegens + Cardinality(Reviewers) - 1
<1>1. Cardinality(AboutToClear(t)') <= Cardinality(AboutToClear(t))
  <2>1. AboutToClear(t)' \in SUBSET AboutToClear(t)
    OBVIOUS
  <2> QED BY <2>1, AboutFinite, FS_Subset
<1>2. /\ regens[t] \in Nat /\ MaxRegens \in Nat
      /\ regens[t] + Cardinality(AboutToClear(t)) <= MaxRegens + Cardinality(Reviewers) - 1
  BY ReviewAssumption DEF RInv, RTypeOK, RegensWithin
<1> QED
  BY <1>1, <1>2, AboutFinite, AboutFiniteAfter

LEMMA RevBecomes ==
  ASSUME RInv, NEW r \in Reviewers, NEW c \in RevCalls, Becomes(r, c)
  PROVE  /\ rev' \in [Reviewers -> RevCalls] /\ rev'[r] = c
         /\ \A s \in Reviewers \ {r} : rev'[s] = rev[s]
<1>1. rev \in [Reviewers -> RevCalls]
  BY DEF RInv, RTypeOK, RevCalls, ReviewStatuses
<1> QED
  BY <1>1 DEF Becomes

\* The call of r becomes c; the budget is looked at when it is to clear.
LEMMA RevStep ==
  ASSUME RInv, NEW r \in Reviewers, NEW c \in RevCalls, SoundRev(c), Becomes(r, c),
         GenOK', qa' \in [Drafts -> QARows], regens' \in [Topics -> Nat], RegensWithin'
  PROVE  RInv'
<1>1. /\ rev' \in [Reviewers -> RevCalls] /\ rev'[r] = c
      /\ \A s \in Reviewers \ {r} : rev'[s] = rev[s]
  BY RevBecomes
<1>2. RTypeOK'
  BY <1>1 DEF RTypeOK, GenOK, RevCalls, ReviewStatuses
<1>3. RevsSound'
  BY <1>1 DEF RInv, RevsSound
<1> QED
  BY <1>2, <1>3 DEF RInv, GenOK

\* A step that neither counts a regeneration nor is about to.
LEMMA CallStep ==
  ASSUME RInv, NEW r \in Reviewers, NEW c \in RevCalls, SoundRev(c), c.pc # "clear", Becomes(r, c),
         GenOK', qa' \in [Drafts -> QARows], regens' = regens
  PROVE  RInv'
<1>1. /\ rev' \in [Reviewers -> RevCalls] /\ rev'[r] = c
      /\ \A s \in Reviewers \ {r} : rev'[s] = rev[s]
  BY RevBecomes
<1>2. \A t \in Topics : AboutToClear(t)' \subseteq AboutToClear(t)
  BY <1>1 DEF AboutToClear
<1>3. RegensWithin'
  BY <1>2, FewerClear DEF RegensWithin
<1>4. regens' \in [Topics -> Nat]
  BY DEF RInv, RTypeOK
<1> QED
  BY <1>3, <1>4, RevStep

LEMMA EndStep ==
  ASSUME RInv, NEW r \in Reviewers, Ends(r), GenOK', qa' \in [Drafts -> QARows], regens' = regens
  PROVE  RInv'
BY FreeType, CallStep DEF Ends

LEMMA GenKept ==
  ASSUME RInv, topic' = topic, call' = call, disturbed' = disturbed,
         draft' \in [Drafts -> DraftRows \cup {NoRow}]
  PROVE  GenOK'
BY DEF RInv, RTypeOK, GenOK, TypeOK, CallsSound

LEMMA AllKept ==
  ASSUME RInv
  PROVE  /\ UNCHANGED vars => GenOK'
         /\ qa' = qa => qa' \in [Drafts -> QARows]
         /\ GenOK
<1>1. draft' = draft => draft' \in [Drafts -> DraftRows \cup {NoRow}]
  BY DEF RInv, RTypeOK, TypeOK
<1> QED
  BY <1>1, GenKept DEF vars, RInv, RTypeOK, GenOK

-----------------------------------------------------------------------------
(* The steps of a call.                                                    *)

LEMMA ListsStep ==
  ASSUME RInv, NEW r \in Reviewers, Lists(r)
  PROVE  RInv'
<1>1. PICK d \in Drafts : List(r, d) \/ ListApprovable(r, d)
  BY DEF Lists
<1>2. draft[d].status = "pending_review" /\ UNCHANGED <<vars, qa, regens>>
  BY <1>1 DEF List, ListApprovable, Approvable, Starts
<1>3. Exists(d)
  BY <1>2 DEF Exists, NoRow
<1>4. GenOK /\ GenOK' /\ qa' \in [Drafts -> QARows] /\ qa[d] \in QARows
  BY <1>2, AllKept DEF RInv, RTypeOK
<1>5. CASE List(r, d)
  <2> DEFINE o == Opens(d, "judge", "settle")
             c == Copies(d, "judge", "settle")
  <2>1. o \in RevCalls /\ SoundRev(o) /\ o.pc = "judge" /\ draft[d].status \in ReviewStatuses
    BY <1>3, <1>4, OpensType DEF WithDraft
  <2>2. c = [o EXCEPT !.status = draft[d].status, !.qa = qa[d]]
    BY DEF Copies
  <2> HIDE DEF o, c
  <2>3. c \in RevCalls /\ c.pc = "judge" /\ c.draft = o.draft /\ c.topic = o.topic
    BY <1>4, <2>1, <2>2 DEF RevCalls
  <2>4. SoundRev(c)
    BY <2>1, <2>3 DEF SoundRev, WithDraft
  <2>5. Becomes(r, c)
    BY <1>5 DEF List, Starts, Becomes, c
  <2> QED BY <1>2, <1>4, <2>3, <2>4, <2>5, CallStep
<1>6. CASE ListApprovable(r, d)
  <2> DEFINE o == Opens(d, "approve", "settle")
             c == Approves(o, draft[d].status, qa[d])
  <2>1. draft[d].topic \in Topics
    BY <1>3, <1>4 DEF GenOK, TypeOK, Exists, DraftRows
  <2>2. o \in RevCalls /\ o.draft = d /\ o.topic = draft[d].topic /\ o.then = "settle"
    BY <2>1, FreeType DEF Opens, RevCalls, RevStates
  <2>3. ~qa[d].block /\ Becomes(r, c)
    BY <1>6 DEF ListApprovable, Approvable, Starts, Becomes
  <2> HIDE DEF o
  <2>4. c \in RevCalls /\ SoundRev(c) /\ c.pc = "approve"
    BY <1>2, <1>4, <2>1, <2>2, <2>3, ApprovesType DEF ReviewStatuses
  <2> QED BY <1>2, <1>4, <2>3, <2>4, CallStep
<1> QED
  BY <1>1, <1>5, <1>6

LEMMA OperatesStep ==
  ASSUME RInv, NEW r \in Reviewers, NEW d \in Drafts, Operates(r, d)
  PROVE  RInv'
<1>1. Exists(d) /\ UNCHANGED <<vars, qa, regens>>
  BY DEF Operates, Starts
<1>2. GenOK /\ GenOK' /\ qa' \in [Drafts -> QARows] /\ qa[d] \in QARows
  BY <1>1, AllKept DEF RInv, RTypeOK
<1> DEFINE o == Opens(d, "approve", "end")
           c == Approves(o, draft[d].status, qa[d])
<1>3. \/ ~qa[d].block /\ Becomes(r, c)
      \/ Becomes(r, Opens(d, "requalify", "end"))
      \/ Becomes(r, Opens(d, "repair", "end"))
      \/ Becomes(r, Opens(d, "edit", "approve"))
  BY DEF Operates, Starts, Becomes
<1>4. draft[d].topic \in Topics /\ draft[d].status \in ReviewStatuses
  BY <1>1, <1>2 DEF GenOK, TypeOK, Exists, DraftRows, ReviewStatuses
<1>5. o \in RevCalls /\ o.draft = d /\ o.topic = draft[d].topic /\ o.then = "end"
  BY <1>4, FreeType DEF Opens, RevCalls, RevStates
<1> HIDE DEF o
<1>6. ~qa[d].block => c \in RevCalls /\ SoundRev(c) /\ c.pc = "approve"
  BY <1>2, <1>4, <1>5, ApprovesType
<1> HIDE DEF c
<1>7. CASE ~qa[d].block /\ Becomes(r, c)
  BY <1>1, <1>2, <1>6, <1>7, CallStep
<1>8. ASSUME NEW pc \in {"requalify", "repair", "edit"}, NEW then \in {"end", "approve"},
             Becomes(r, Opens(d, pc, then))
      PROVE  RInv'
  <2>1. pc \in WithDraft \ {"check", "approve", "clear"} /\ then \in {"end", "settle", "approve"}
    BY DEF WithDraft
  <2>2. /\ Opens(d, pc, then) \in RevCalls /\ SoundRev(Opens(d, pc, then))
        /\ Opens(d, pc, then).pc = pc
    BY <1>1, <1>2, <2>1, OpensType
  <2> QED BY <1>1, <1>2, <1>8, <2>2, CallStep
<1> QED
  BY <1>3, <1>7, <1>8

LEMMA EscalateStep ==
  ASSUME RInv, NEW r \in Reviewers, rev[r].pc \in WithDraft, Escalate(r)
  PROVE  RInv'
<1>1. rev[r].draft \in Drafts /\ qa[rev[r].draft] \in QARows
  BY CallType
<1>2. qa' \in [Drafts -> QARows]
  <2>1. [qa[rev[r].draft] EXCEPT !.human = TRUE] \in QARows
    BY <1>1, QATypes DEF Verdicts
  <2> QED BY <1>1, <2>1, UpdatesType DEF Escalate, RInv
<1> QED
  BY <1>2, AllKept, EndStep DEF Escalate

LEMMA JudgeStep ==
  ASSUME RInv, NEW r \in Reviewers, Judge(r)
  PROVE  RInv'
<1> DEFINE d == rev[r].draft
           q == [qa[d] EXCEPT !.tries = @ + 1]
           p == Rung(q)
           c == [rev[r] EXCEPT !.pc = p, !.status = "none", !.qa = NoQA]
<1>1. rev[r].pc \in WithDraft /\ rev[r].pc = "judge"
  BY DEF Judge, RevAt, WithDraft
<1>2. /\ rev[r] \in RevCalls /\ d \in Drafts /\ qa[d] \in QARows /\ rev[r].topic \in Topics
  BY <1>1, CallType DEF WithDraft
<1>3. q \in QARows
  BY <1>2, QATypes DEF Verdicts
<1>4. CASE UNCHANGED <<vars, qa, regens>> /\ Ends(r)
  BY <1>4, AllKept, EndStep
<1>5. CASE Escalate(r)
  BY <1>1, <1>5, EscalateStep
<1>6. CASE /\ Updates(r, q) /\ UNCHANGED <<vars, regens>>
           /\ Becomes(r, c) \/ Ends(r)
  <2>1. qa' \in [Drafts -> QARows]
    <3> HIDE DEF q
    <3> QED BY <1>2, <1>3, <1>6, UpdatesType DEF RInv
  <2>2. p \in {"repair", "requalify", "regen"}
    BY DEF Rung
  <2> HIDE DEF p
  <2>3. /\ c \in RevCalls /\ c.pc = p /\ c.draft = d /\ c.topic = rev[r].topic
    BY <1>2, <2>2, NoQAType DEF RevCalls, RevStates
  <2> HIDE DEF c
  <2>4. SoundRev(c)
    BY <1>2, <2>2, <2>3 DEF SoundRev
  <2>5. GenOK'
    BY <1>6, AllKept
  <2>6. CASE Ends(r)
    BY <1>6, <2>1, <2>5, <2>6, EndStep
  <2>7. CASE Becomes(r, c)
    BY <1>6, <2>1, <2>2, <2>3, <2>4, <2>5, <2>7, CallStep
  <2> QED BY <1>6, <2>6, <2>7
<1> QED
  BY <1>4, <1>5, <1>6 DEF Judge

\* The call goes on with its draft, at a position that asks for no more.
LEMMA RevGoes ==
  ASSUME RInv, NEW r \in Reviewers, rev[r].pc \in WithDraft,
         NEW p \in {"edit", "requalify"}, Becomes(r, [rev[r] EXCEPT !.pc = p]),
         GenOK', qa' \in [Drafts -> QARows], regens' = regens
  PROVE  RInv'
<1> DEFINE c == [rev[r] EXCEPT !.pc = p]
<1>1. rev[r] \in RevCalls /\ rev[r].draft \in Drafts /\ rev[r].topic \in Topics
  BY CallType DEF WithDraft
<1>2. c \in RevCalls /\ c.pc = p /\ c.draft = rev[r].draft /\ c.topic = rev[r].topic
  BY <1>1 DEF RevCalls, RevStates
<1> HIDE DEF c
<1>3. SoundRev(c)
  BY <1>1, <1>2 DEF SoundRev
<1>4. Becomes(r, c)
  BY DEF c
<1> QED
  BY <1>2, <1>3, <1>4, CallStep

\* The call is over, or goes on to approve what it has made of the row.
LEMMA SettlesStep ==
  ASSUME RInv, NEW r \in Reviewers, rev[r].pc \in WithDraft, NEW q \in QARows, Updates(r, q),
         IF Exists(rev[r].draft) THEN Settles(r, q) ELSE Ends(r), UNCHANGED <<vars, regens>>
  PROVE  RInv'
<1>1. /\ rev[r] \in RevCalls /\ rev[r].draft \in Drafts /\ rev[r].topic \in Topics
  BY CallType DEF WithDraft
<1>2. qa' \in [Drafts -> QARows] /\ GenOK /\ GenOK'
  BY <1>1, UpdatesType, AllKept DEF RInv
<1>3. CASE Ends(r)
  BY <1>2, <1>3, EndStep
<1>4. CASE Exists(rev[r].draft) /\ Settles(r, q)
  <2> DEFINE s == draft[rev[r].draft].status
             c == Settled(rev[r], s, q)
  <2>1. s \in ReviewStatuses
    BY <1>1, <1>2, <1>4 DEF GenOK, TypeOK, Exists, DraftRows, ReviewStatuses
  <2>2. Becomes(r, c)
    BY <1>4 DEF Settles
  <2> HIDE DEF s
  <2>3. c \in RevCalls /\ SoundRev(c) /\ c.pc # "clear"
    BY <1>1, <2>1, SettledType
  <2> QED BY <1>2, <2>2, <2>3, CallStep
<1> QED
  BY <1>3, <1>4

LEMMA StartRepairStep ==
  ASSUME RInv, NEW r \in Reviewers, StartRepair(r)
  PROVE  RInv'
<1> DEFINE d == rev[r].draft
           started == [qa[d] EXCEPT !.repairs = @ + 1, !.human = FALSE]
           refused == [qa[d] EXCEPT !.human = TRUE]
<1>1. rev[r].pc \in WithDraft /\ UNCHANGED <<vars, regens>>
  BY DEF StartRepair, RevAt, WithDraft
<1>2. d \in Drafts /\ qa[d] \in QARows
  BY <1>1, CallType
<1>3. started \in QARows /\ refused \in QARows
  BY <1>2, QATypes DEF Verdicts
<1>4. \/ /\ Updates(r, started)
         /\ Ends(r) \/ Becomes(r, [rev[r] EXCEPT !.pc = "edit"])
      \/ /\ Updates(r, refused)
         /\ IF Exists(rev[r].draft) THEN Settles(r, refused) ELSE Ends(r)
  BY DEF StartRepair
<1> HIDE DEF started, refused
<1>5. CASE /\ Updates(r, started)
           /\ Ends(r) \/ Becomes(r, [rev[r] EXCEPT !.pc = "edit"])
  <2>1. qa' \in [Drafts -> QARows] /\ GenOK'
    BY <1>1, <1>2, <1>3, <1>5, UpdatesType, AllKept DEF RInv
  <2> QED BY <1>1, <1>5, <2>1, EndStep, RevGoes
<1>6. CASE /\ Updates(r, refused)
           /\ IF Exists(rev[r].draft) THEN Settles(r, refused) ELSE Ends(r)
  BY <1>1, <1>3, <1>6, SettlesStep
<1> QED
  BY <1>4, <1>5, <1>6

LEMMA EditedStep ==
  ASSUME RInv, NEW r \in Reviewers, Repaired(r) \/ RepairFails(r)
  PROVE  RInv'
<1> DEFINE d == rev[r].draft
           v == IF rev[r].then = "approve" THEN "unread" ELSE "broken"
           clean == [qa[d] EXCEPT !.block = FALSE, !.verdict = "clean", !.human = FALSE]
           failed == [qa[d] EXCEPT !.human = TRUE, !.verdict = v]
<1>1. rev[r].pc \in WithDraft /\ UNCHANGED <<vars, regens>>
  BY DEF Repaired, RepairFails, RevAt, WithDraft
<1>2. d \in Drafts /\ qa[d] \in QARows /\ v \in Verdicts
  BY <1>1, CallType DEF Verdicts
<1>3. clean \in QARows /\ failed \in QARows
  BY <1>2, QATypes
<1>4. \/ /\ Updates(r, clean)
         /\ IF Exists(rev[r].draft) THEN Settles(r, clean) ELSE Ends(r)
      \/ /\ Updates(r, failed)
         /\ IF Exists(rev[r].draft) THEN Settles(r, failed) ELSE Ends(r)
  BY DEF Repaired, RepairFails
<1> HIDE DEF clean, failed
<1> QED
  BY <1>1, <1>3, <1>4, SettlesStep

LEMMA ReadForQAStep ==
  ASSUME RInv, NEW r \in Reviewers, ReadForQA(r)
  PROVE  RInv'
<1> DEFINE d == rev[r].draft
           s == draft[d].status
           c == [rev[r] EXCEPT !.pc = "check", !.status = s]
<1>1. rev[r].pc \in WithDraft /\ UNCHANGED <<vars, qa, regens>>
  BY DEF ReadForQA, RevAt, WithDraft
<1>2. /\ rev[r] \in RevCalls /\ d \in Drafts /\ rev[r].topic \in Topics
      /\ GenOK /\ GenOK' /\ qa' \in [Drafts -> QARows]
  BY <1>1, CallType, AllKept DEF WithDraft
<1>3. CASE Ends(r)
  BY <1>1, <1>2, <1>3, EndStep
<1>4. CASE Exists(d) /\ Becomes(r, c)
  <2>1. s \in ReviewStatuses
    BY <1>2, <1>4 DEF GenOK, TypeOK, Exists, DraftRows, ReviewStatuses
  <2> HIDE DEF s
  <2>2. /\ c \in RevCalls /\ c.pc = "check" /\ c.draft = d /\ c.topic = rev[r].topic
        /\ c.status = s
    BY <1>2, <2>1 DEF RevCalls, RevStates
  <2> HIDE DEF c
  <2>3. SoundRev(c)
    BY <1>2, <2>1, <2>2 DEF SoundRev
  <2> QED BY <1>1, <1>2, <1>4, <2>2, <2>3, CallStep
<1> QED
  BY <1>3, <1>4 DEF ReadForQA

LEMMA RequalifiedStep ==
  ASSUME RInv, NEW r \in Reviewers, NEW v \in Outcomes, Requalified(r, v)
  PROVE  RInv'
<1> DEFINE d == rev[r].draft
           b == (v # "clean")
           q == [qa[d] EXCEPT !.block = b, !.verdict = v]
           s == rev[r].status
           c == Settled(rev[r], s, q)
<1>1. rev[r].pc \in WithDraft /\ rev[r].pc = "check"
  BY DEF Requalified, RevAt, WithDraft
<1>2. /\ rev[r] \in RevCalls /\ d \in Drafts /\ qa[d] \in QARows /\ rev[r].topic \in Topics
      /\ s \in ReviewStatuses /\ GenOK
  BY <1>1, CallType, AllKept DEF SoundRev, WithDraft
<1>3. v \in Verdicts /\ b \in BOOLEAN
  BY ReviewAssumption DEF Verdicts
<1>4. q \in QARows
  <2> HIDE DEF b
  <2> QED BY <1>2, <1>3, QATypes
<1>5. /\ Updates(r, q)
      /\ \/ Exists(d) /\ draft' = [draft EXCEPT ![d].status = s] /\ Becomes(r, c)
         \/ Ends(r) /\ draft' = draft
      /\ topic' = topic /\ call' = call /\ disturbed' = disturbed /\ regens' = regens
  BY DEF Requalified
<1> HIDE DEF q, s
<1>6. qa' \in [Drafts -> QARows]
  BY <1>2, <1>4, <1>5, UpdatesType DEF RInv
<1>7. draft' \in [Drafts -> DraftRows \cup {NoRow}]
  BY <1>2, <1>5, DraftStatusType, RowsKept
<1>8. GenOK'
  BY <1>5, <1>7, GenKept
<1>9. c \in RevCalls /\ SoundRev(c) /\ c.pc # "clear"
  BY <1>2, <1>4, SettledType
<1> HIDE DEF c
<1> QED
  BY <1>5, <1>6, <1>8, <1>9, EndStep, CallStep

\* A call that sees budget left is one of the calls about to count.
LEMMA RegenerateStep ==
  ASSUME RInv, NEW r \in Reviewers, Regenerate(r)
  PROVE  RInv'
<1> DEFINE t == rev[r].topic
           s == topic[t].status
           c == [rev[r] EXCEPT !.pc = "clear", !.status = s]
<1>1. rev[r].pc \in WithDraft
  BY DEF Regenerate, RevAt, WithDraft
<1>2. /\ rev[r] \in RevCalls /\ rev[r].draft \in Drafts /\ t \in Topics
  BY <1>1, CallType DEF WithDraft
<1>3. CASE Escalate(r)
  BY <1>1, <1>3, EscalateStep
<1>4. CASE ~RegensSpent(t) /\ Becomes(r, c) /\ UNCHANGED <<vars, qa, regens>>
  <2>1. GenOK' /\ qa' \in [Drafts -> QARows] /\ regens' \in [Topics -> Nat]
    BY <1>4, AllKept DEF RInv, RTypeOK
  <2>2. s \in Statuses
    BY <1>2 DEF RInv, RTypeOK, TypeOK, TopicRows
  <2> HIDE DEF s
  <2>3. c \in RevCalls /\ c.pc = "clear" /\ c.draft = rev[r].draft /\ c.topic = t
    BY <1>2, <2>2 DEF RevCalls, RevStates
  <2> HIDE DEF c
  <2>4. SoundRev(c)
    BY <1>2, <2>3 DEF SoundRev
  <2>5. /\ rev'[r] = c /\ \A u \in Reviewers \ {r} : rev'[u] = rev[u]
    BY <1>4, <2>3, RevBecomes
  <2>6. ASSUME NEW u \in Topics
        PROVE  regens'[u] + Cardinality(AboutToClear(u)') <= MaxRegens + Cardinality(Reviewers) - 1
    <3>1. CASE u = t
      <4>1. regens'[u] \in Nat /\ MaxRegens \in Nat /\ regens'[u] <= MaxRegens - 1
        BY <1>4, <2>1, <3>1, ReviewAssumption DEF RegensSpent
      <4>2. Cardinality(Reviewers) \in Nat
        BY AboutFinite
      <4> QED BY <4>1, <4>2, AboutFiniteAfter
    <3>2. CASE u # t
      <4>1. AboutToClear(u)' \subseteq AboutToClear(u)
        BY <2>3, <2>5, <3>2 DEF AboutToClear
      <4> QED BY <1>4, <4>1, FewerClear
    <3> QED BY <3>1, <3>2
  <2>7. RegensWithin'
    BY <2>6 DEF RegensWithin
  <2> QED BY <1>4, <2>1, <2>3, <2>4, <2>7, RevStep
<1> QED
  BY <1>3, <1>4 DEF Regenerate

\* One regeneration more, and one call less that is about to count.
LEMMA ClearForRegenStep ==
  ASSUME RInv, NEW r \in Reviewers, ClearForRegen(r)
  PROVE  RInv'
<1> DEFINE t == rev[r].topic
           n == [rev[r] EXCEPT !.pc = "reopen", !.draft = None, !.qa = NoQA]
<1>1. rev[r].pc \in WithDraft /\ rev[r].pc = "clear"
  BY DEF ClearForRegen, RevAt, WithDraft
<1>2. rev[r] \in RevCalls /\ t \in Topics /\ GenOK
  BY <1>1, CallType, AllKept
<1>3. /\ draft' = Cleared(t) /\ regens' = [regens EXCEPT ![t] = @ + 1]
      /\ qa' = [d \in Drafts |-> IF draft'[d] = NoRow THEN NoQA ELSE qa[d]]
      /\ topic' = topic /\ call' = call /\ disturbed' = disturbed
      /\ Becomes(r, n) \/ Becomes(r, Free)
  BY DEF ClearForRegen, Ends
<1>4. GenOK'
  BY <1>2, <1>3, ClearedType, GenKept
<1>5. qa' \in [Drafts -> QARows]
  BY <1>3, NoQAType DEF RInv, RTypeOK
<1>6. regens' \in [Topics -> Nat] /\ regens[t] \in Nat /\ regens'[t] = regens[t] + 1
  BY <1>2, <1>3 DEF RInv, RTypeOK
<1>7. n \in RevCalls /\ n.pc = "reopen" /\ n.topic = t
  BY <1>2, NoQAType DEF RevCalls, RevStates
<1> HIDE DEF n
<1>8. SoundRev(n)
  BY <1>2, <1>7 DEF SoundRev, WithDraft
<1>9. PICK c \in RevCalls : SoundRev(c) /\ c.pc # "clear" /\ Becomes(r, c)
  BY <1>3, <1>7, <1>8, FreeType
<1>10. rev'[r] = c /\ \A u \in Reviewers \ {r} : rev'[u] = rev[u]
  BY <1>9, RevBecomes
<1>11. ASSUME NEW u \in Topics
       PROVE  regens'[u] + Cardinality(AboutToClear(u)') <= MaxRegens + Cardinality(Reviewers) - 1
  <2>1. CASE u = t
    <3>1. AboutToClear(u)' = AboutToClear(u) \ {r} /\ r \in AboutToClear(u)
      BY <1>1, <1>9, <1>10, <2>1 DEF AboutToClear
    <3>2. Cardinality(AboutToClear(u)') = Cardinality(AboutToClear(u)) - 1
      BY <3>1, AboutFinite, FS_RemoveElement
    <3>3. regens[u] + Cardinality(AboutToClear(u)) <= MaxRegens + Cardinality(Reviewers) - 1
      BY DEF RInv, RegensWithin
    <3> QED BY <1>6, <2>1, <3>2, <3>3, ReviewAssumption, AboutFinite
  <2>2. CASE u # t
    <3>1. AboutToClear(u)' \subseteq AboutToClear(u) /\ regens'[u] = regens[u]
      BY <1>2, <1>3, <1>9, <1>10, <2>2 DEF AboutToClear, RInv, RTypeOK
    <3> QED BY <3>1, FewerClear
  <2> QED BY <2>1, <2>2
<1>12. RegensWithin'
  BY <1>11 DEF RegensWithin
<1> QED
  BY <1>4, <1>5, <1>6, <1>9, <1>12, RevStep

\* A statement on the topic, and the call goes on to write.
LEMMA MovesStep ==
  ASSUME RInv, NEW r \in Reviewers, ReopenTopic(r) \/ RestartTopic(r)
  PROVE  RInv'
<1>1. PICK p \in {"restart", "write"}, s \in Statuses :
        /\ SetStatus(rev[r].topic, s) /\ Becomes(r, [rev[r] EXCEPT !.pc = p])
        /\ rev[r].pc \in {"reopen", "restart"}
        /\ UNCHANGED <<draft, call, disturbed, qa, regens>>
  BY StatusType DEF ReopenTopic, RestartTopic, Moves, RevAt, To
<1> DEFINE c == [rev[r] EXCEPT !.pc = p]
<1>2. rev[r] \in RevCalls /\ rev[r].topic \in Topics
  BY <1>1, CallType
<1>3. c \in RevCalls /\ c.pc = p /\ c.topic = rev[r].topic
  BY <1>2 DEF RevCalls, RevStates
<1> HIDE DEF c
<1>4. SoundRev(c)
  BY <1>2, <1>3 DEF SoundRev, WithDraft
<1>5. topic' \in [Topics -> TopicRows]
  BY <1>1, TopicType DEF RInv, RTypeOK
<1>6. GenOK' /\ qa' \in [Drafts -> QARows]
  BY <1>1, <1>5 DEF RInv, RTypeOK, GenOK, TypeOK, CallsSound
<1>7. Becomes(r, c)
  BY <1>1 DEF c
<1> QED
  BY <1>1, <1>3, <1>4, <1>6, <1>7, CallStep

LEMMA RewriteStep ==
  ASSUME RInv, NEW r \in Reviewers, Rewrite(r)
  PROVE  RInv'
<1>1. PICK d \in Fresh :
        /\ draft' = [draft EXCEPT ![d] = [topic |-> rev[r].topic, status |-> "pending_review"]]
        /\ Judges
        /\ Becomes(r, [rev[r] EXCEPT !.pc = "mark", !.draft = d, !.qa = qa'[d]])
  BY DEF Rewrite
<1> DEFINE q == qa'[d]
           c == [rev[r] EXCEPT !.pc = "mark", !.draft = d, !.qa = q]
<1>2. rev[r].pc = "write" /\ d \in Drafts
  BY DEF Rewrite, RevAt, Fresh
<1>3. rev[r] \in RevCalls /\ rev[r].topic \in Topics /\ GenOK
  BY <1>2, CallType, AllKept
<1>4. draft' \in [Drafts -> DraftRows \cup {NoRow}]
  BY <1>1, <1>2, <1>3, InsertType
<1>5. GenOK'
  BY <1>4, GenKept DEF Rewrite
<1>6. qa' \in [Drafts -> QARows] /\ q \in QARows
  BY <1>1, <1>2, JudgesType DEF RInv
<1> HIDE DEF q
<1>7. c \in RevCalls /\ c.pc = "mark" /\ c.draft = d /\ c.topic = rev[r].topic
  BY <1>2, <1>3, <1>6 DEF RevCalls, RevStates
<1> HIDE DEF c
<1>8. SoundRev(c)
  BY <1>2, <1>3, <1>7 DEF SoundRev
<1>9. Becomes(r, c) /\ regens' = regens
  BY <1>1 DEF c, q, Rewrite
<1> QED
  BY <1>5, <1>6, <1>7, <1>8, <1>9, CallStep

LEMMA MarkRewrittenStep ==
  ASSUME RInv, NEW r \in Reviewers, MarkRewritten(r)
  PROVE  RInv'
<1> DEFINE c == Settled(rev[r], "pending_review", rev[r].qa)
<1>1. /\ rev[r].pc \in WithDraft /\ SetStatus(rev[r].topic, To.mark_drafted) /\ Becomes(r, c)
      /\ UNCHANGED <<draft, call, disturbed, qa, regens>>
  BY DEF MarkRewritten, RevAt, WithDraft
<1>2. /\ rev[r] \in RevCalls /\ rev[r].draft \in Drafts /\ rev[r].topic \in Topics
      /\ rev[r].qa \in QARows
  BY <1>1, CallType DEF WithDraft, RevCalls
<1>3. c \in RevCalls /\ SoundRev(c) /\ c.pc # "clear"
  BY <1>2, SettledType DEF ReviewStatuses
<1> HIDE DEF c
<1>4. topic' \in [Topics -> TopicRows]
  BY <1>1, StatusType, TopicType DEF RInv, RTypeOK
<1>5. GenOK' /\ qa' \in [Drafts -> QARows]
  BY <1>1, <1>4 DEF RInv, RTypeOK, GenOK, TypeOK, CallsSound
<1> QED
  BY <1>1, <1>3, <1>5, CallStep

LEMMA WriteApprovalStep ==
  ASSUME RInv, NEW r \in Reviewers, WriteApproval(r)
  PROVE  RInv'
<1> DEFINE d == rev[r].draft
<1>1. /\ rev[r].pc \in WithDraft /\ Ends(r)
      /\ \/ Exists(d) /\ draft' = [draft EXCEPT ![d].status = "approved"]
         \/ draft' = draft
      /\ UNCHANGED <<topic, call, disturbed, qa, regens>>
  BY DEF WriteApproval, RevAt, WithDraft
<1>2. d \in Drafts /\ GenOK
  BY <1>1, CallType, AllKept
<1> HIDE DEF d
<1>3. draft' \in [Drafts -> DraftRows \cup {NoRow}]
  BY <1>1, <1>2, DraftStatusType, RowsKept DEF ReviewStatuses
<1>4. GenOK' /\ qa' \in [Drafts -> QARows]
  BY <1>1, <1>3, GenKept, AllKept
<1> QED
  BY <1>1, <1>4, EndStep

LEMMA RevDropsStep ==
  ASSUME RInv, NEW r \in Reviewers, RevDies(r) \/ RewriteCollides(r)
  PROVE  RInv'
BY AllKept, EndStep DEF RevDies, RewriteCollides

LEMMA RecoversStep ==
  ASSUME RInv, NEW r \in Reviewers, Recovers(r)
  PROVE  RInv'
BY JudgeStep, StartRepairStep, EditedStep, ReadForQAStep, RequalifiedStep, RegenerateStep,
   ClearForRegenStep, MovesStep, RewriteStep, RevDropsStep, MarkRewrittenStep, WriteApprovalStep
   DEF Recovers, QAVerdict

-----------------------------------------------------------------------------
(* The specification.                                                      *)

\* What the rest of the system does.
Rest ==
  \/ \E w \in Workers : Passes(w) \/ Works(w) \/ Requests(w) \/ Fault(w)
  \/ \E t \in Topics : SlotComes(t)
  \/ \E d \in Drafts : Publish(d)

LEMMA RestGen ==
  ASSUME GenOK, Rest
  PROVE  GenOK'
BY GenPasses, GenGenerating, GenAnswers, GenRequests, GenFault, GenRest DEF Rest, Works

LEMMA RestStep ==
  ASSUME RInv, Rest, Judges, UNCHANGED <<regens, rev>>
  PROVE  RInv'
<1>1. GenOK'
  BY RestGen, AllKept
<1>2. qa' \in [Drafts -> QARows]
  BY JudgesType DEF RInv
<1>3. RTypeOK'
  BY <1>1, <1>2 DEF RInv, RTypeOK, GenOK
<1>4. RevsSound' /\ RegensWithin'
  BY DEF RInv, RevsSound, RegensWithin, AboutToClear
<1> QED
  BY <1>1, <1>3, <1>4 DEF RInv, GenOK

\* A step is a call's or the rest's.
LEMMA RNextCases ==
  ASSUME RNext
  PROVE  \/ \E r \in Reviewers : \/ Lists(r) \/ Recovers(r) \/ RepairFails(r) \/ RevDies(r)
                                 \/ \E d \in Drafts : Operates(r, d)
         \/ Rest /\ Judges /\ UNCHANGED <<regens, rev>>
BY DEF RNext, RevFault, Beside, Rest

LEMMA RNextInv ==
  ASSUME RInv, [RNext]_rvars
  PROVE  RInv'
<1>1. CASE RNext
  BY <1>1, RNextCases, ListsStep, RecoversStep, EditedStep, RevDropsStep, OperatesStep, RestStep
<1>2. CASE UNCHANGED rvars
  <2>1. GenOK' /\ qa' = qa /\ regens' = regens /\ rev' = rev
    BY <1>2, AllKept DEF rvars
  <2>2. RTypeOK' /\ RevsSound' /\ RegensWithin'
    BY <2>1 DEF RInv, RTypeOK, GenOK, RevsSound, RegensWithin, AboutToClear
  <2> QED BY <2>1, <2>2 DEF RInv, GenOK
<1> QED
  BY <1>1, <1>2

LEMMA RInitInv == RInit => RInv
<1> SUFFICES ASSUME RInit PROVE RInv
  OBVIOUS
<1>1. GenOK
  BY InitInv DEF RInit, Inv, GenOK
<1>2. rev = [r \in Reviewers |-> Free] /\ \A r \in Reviewers : rev[r] = Free
  BY DEF RInit
<1>3. qa \in [Drafts -> QARows] /\ regens \in [Topics -> Nat] /\ \A t \in Topics : regens[t] = 0
  BY NoQAType DEF RInit
<1>4. rev \in [Reviewers -> RevCalls] /\ RevsSound
  BY <1>2, FreeType DEF RevsSound
<1>5. RTypeOK
  BY <1>1, <1>3, <1>4 DEF RTypeOK, GenOK, RevCalls, ReviewStatuses
<1>6. ASSUME NEW t \in Topics
      PROVE  regens[t] + Cardinality(AboutToClear(t)) <= MaxRegens + Cardinality(Reviewers) - 1
  <2>1. AboutToClear(t) = {}
    BY <1>2, FreeType DEF AboutToClear
  <2>2. Cardinality(AboutToClear(t)) = 0
    BY <2>1, FS_EmptySet
  <2> QED BY <1>3, <2>2, ReviewAssumption, AboutFinite
<1> QED
  BY <1>1, <1>4, <1>5, <1>6 DEF RInv, RegensWithin, GenOK

LEMMA RInvariant == RSpec => []RInv
BY RInitInv, RNextInv, PTL DEF RSpec

\* Topics, drafts, calls of both kinds and the QA columns keep their types: no
\* review writes a status no row has, whatever has become of the row since.
THEOREM RTypeCorrect == RSpec => []RTypeOK
<1>1. RInv => RTypeOK
  BY DEF RInv
<1> QED
  BY <1>1, RInvariant, PTL

\* However many calls overlap, a topic is regenerated fewer times than the budget
\* and the calls together: it reaches a human.
THEOREM BudgetHolds == RSpec => []RegenerationsBounded
<1>1. ASSUME RInv, NEW t \in Topics
      PROVE  regens[t] < MaxRegens + Cardinality(Reviewers)
  <2>1. /\ regens[t] \in Nat /\ MaxRegens \in Nat
        /\ regens[t] + Cardinality(AboutToClear(t)) <= MaxRegens + Cardinality(Reviewers) - 1
    BY <1>1, ReviewAssumption DEF RInv, RTypeOK, RegensWithin
  <2> QED BY <2>1, AboutFinite
<1>2. RInv => RegenerationsBounded
  BY <1>1 DEF RInv, RegenerationsBounded
<1> QED
  BY <1>2, RInvariant, PTL

-----------------------------------------------------------------------------
(* Who approves.                                                           *)

\* The step approves no draft.
ApprovesNone == \A d \in Drafts : draft'[d].status = "approved" => draft[d].status = "approved"

LEMMA StatusOther ==
  ASSUME GenOK, NEW d \in Drafts, NEW s \in ReviewStatuses \ {"approved"}, Exists(d),
         draft' = [draft EXCEPT ![d].status = s]
  PROVE  ApprovesNone
BY DraftStatusType DEF ApprovesNone

LEMMA InsertOther ==
  ASSUME GenOK, NEW d \in Drafts, NEW t \in Topics,
         draft' = [draft EXCEPT ![d] = [topic |-> t, status |-> "pending_review"]]
  PROVE  ApprovesNone
BY InsertType DEF ApprovesNone

LEMMA ClearOther ==
  ASSUME GenOK, NEW t, draft' = Cleared(t)
  PROVE  ApprovesNone
BY DEF ApprovesNone, Cleared, NoRow

LEMMA SameOther == draft' = draft => ApprovesNone
BY DEF ApprovesNone

LEMMA RestApprovesNone ==
  ASSUME GenOK, Rest
  PROVE  ApprovesNone
<1>1. ASSUME NEW d \in Drafts, Publish(d)
      PROVE  ApprovesNone
  <2>1. Exists(d)
    BY <1>1 DEF Publish, Exists, NoRow
  <2> QED BY <1>1, <2>1, StatusOther DEF Publish, ReviewStatuses
<1>2. ASSUME NEW w \in Workers, NEW d \in Drafts, Reject(w, d)
      PROVE  ApprovesNone
  BY <1>2, StatusOther DEF Reject, Exists, ReviewStatuses
<1>3. ASSUME NEW w \in Workers, Clear(w)
      PROVE  ApprovesNone
  BY <1>3, ClearOther DEF Clear
<1>4. ASSUME NEW w \in Workers, Create(w)
      PROVE  ApprovesNone
  <2>1. call[w].topic \in Topics
    BY <1>4 DEF GenOK, CallsSound, Sound, Create, At
  <2> QED BY <1>4, <2>1, InsertOther DEF Create, Fresh
<1>5. ASSUME NEW w \in Workers, Passes(w) \/ Answers(w) \/ Fault(w)
      PROVE  draft' = draft
  BY <1>5 DEF Passes, GeneratePass, ScheduledPass, Reserve, Answers, Reopen, Put, Fault, Errs, Dies
<1>6. ASSUME NEW w \in Workers,
             Take(w) \/ Check(w) \/ Collide(w) \/ Mark(w) \/ Recount(w) \/ Reset(w)
      PROVE  draft' = draft
  BY <1>6 DEF Take, Check, Collide, Mark, Recount, Reset
<1>7. ASSUME NEW w \in Workers, NEW t \in Topics,
             \/ Schedule(w, t) \/ ClearSchedule(w, t) \/ Archive(w, t)
             \/ Edit(w, t) \/ Reconcile(w, t) \/ Manual(w, t)
      PROVE  draft' = draft
  BY <1>7 DEF Schedule, ClearSchedule, Archive, Edit, Reconcile, Manual, Reads
<1>8. ASSUME NEW t \in Topics, SlotComes(t)
      PROVE  draft' = draft
  BY <1>8 DEF SlotComes
<1> QED
  BY <1>1, <1>2, <1>3, <1>4, <1>5, <1>6, <1>7, <1>8, SameOther DEF Rest, Works, Generating, Requests

\* What a call holds that approves d, or writes the approval back that it has read.
MayApprove(c, d) ==
  /\ c.draft = d
  /\ \/ /\ c.pc = "approve" /\ ~c.qa.block
        /\ c.then = "settle" => c.status = "pending_review"
     \/ c.pc = "check" /\ c.status = "approved"

LEMMA CallApproves ==
  ASSUME RInv, NEW r \in Reviewers, NEW d \in Drafts,
         \/ Lists(r) \/ Recovers(r) \/ RepairFails(r) \/ RevDies(r) \/ \E e \in Drafts : Operates(r, e),
         draft[d].status # "approved", draft'[d].status = "approved"
  PROVE  MayApprove(rev[r], d)
<1>1. GenOK
  BY AllKept
<1>2. CASE WriteApproval(r)
  <2>1. rev[r].pc = "approve" /\ SoundRev(rev[r])
    BY <1>2, CallType DEF WriteApproval, RevAt
  <2>2. rev[r].draft = d
    BY <1>2 DEF WriteApproval
  <2> QED BY <2>1, <2>2 DEF SoundRev, MayApprove
<1>3. ASSUME NEW v \in Outcomes, Requalified(r, v)
      PROVE  MayApprove(rev[r], d)
  <2> DEFINE e == rev[r].draft
  <2>1. rev[r].pc = "check" /\ e \in Drafts /\ rev[r].status \in ReviewStatuses
    BY <1>3, CallType DEF Requalified, RevAt, SoundRev, WithDraft
  <2>2. Exists(e) /\ draft' = [draft EXCEPT ![e].status = rev[r].status]
    BY <1>3 DEF Requalified
  <2>3. /\ draft'[e].status = rev[r].status
        /\ \A x \in Drafts \ {e} : draft'[x] = draft[x]
    BY <1>1, <2>1, <2>2, DraftStatusType
  <2>4. e = d
    BY <2>3
  <2> QED BY <2>1, <2>3, <2>4 DEF MayApprove
<1>4. CASE ClearForRegen(r)
  BY <1>1, <1>4, ClearOther DEF ClearForRegen, ApprovesNone
<1>5. CASE Rewrite(r)
  <2>1. rev[r].topic \in Topics
    BY <1>5, CallType DEF Rewrite, RevAt
  <2> QED BY <1>1, <1>5, <2>1, InsertOther DEF Rewrite, Fresh, ApprovesNone
<1>6. ASSUME Lists(r) \/ RevDies(r) \/ \E e \in Drafts : Operates(r, e)
      PROVE  draft' = draft
  BY <1>6 DEF Lists, List, ListApprovable, Starts, vars, RevDies, Operates
<1>7. ASSUME \/ Judge(r) \/ StartRepair(r) \/ Repaired(r) \/ RepairFails(r) \/ ReadForQA(r)
             \/ Regenerate(r) \/ ReopenTopic(r) \/ RestartTopic(r) \/ RewriteCollides(r)
             \/ MarkRewritten(r)
      PROVE  draft' = draft
  BY <1>7 DEF Judge, Escalate, StartRepair, Repaired, RepairFails, ReadForQA, Regenerate,
              ReopenTopic, RestartTopic, Moves, RewriteCollides, MarkRewritten, vars
<1> QED
  BY <1>2, <1>3, <1>4, <1>5, <1>6, <1>7 DEF Recovers, QAVerdict

\* No draft is approved but by a call that saw it unblocked (a pass, in review as
\* well), or by one that puts back the approval it found.
THEOREM ApprovalsSeen == RSpec => ApprovedAsSeen
<1>1. ASSUME RInv, RNext, NEW d \in Drafts,
             draft[d].status # "approved", draft'[d].status = "approved"
      PROVE  \E r \in Reviewers : MayApprove(rev[r], d)
  <2>1. ~Rest
    BY <1>1, AllKept, RestApprovesNone DEF ApprovesNone
  <2> QED BY <1>1, <2>1, RNextCases, CallApproves
<1>2. ASSUME RInv, RNext
      PROVE  \A d \in Drafts : draft[d].status # "approved" /\ draft'[d].status = "approved" =>
               \E r \in Reviewers :
                 /\ rev[r].draft = d
                 /\ \/ /\ rev[r].pc = "approve" /\ ~rev[r].qa.block
                       /\ rev[r].then = "settle" => rev[r].status = "pending_review"
                    \/ rev[r].pc = "check" /\ rev[r].status = "approved"
  BY <1>1, <1>2 DEF MayApprove
<1> QED
  BY <1>2, RInvariant, PTL DEF RSpec, ApprovedAsSeen
=============================================================================
