----------------------- MODULE TopicGenerationProofs -----------------------
(***************************************************************************)
(* Proofs about TopicGeneration, for any topics, drafts and workers.       *)
(*                                                                         *)
(* A call takes a topic only from "backlog" or "scheduled", and a topic in *)
(* generation is in one call's hands: so what a pass saw when it reserved  *)
(* a topic, no draft to spare, still holds when it clears the rows, and    *)
(* the draft that a call has inserted is there when it marks the topic,    *)
(* unless a request has disturbed the topic.                               *)
(***************************************************************************)
EXTENDS TopicGeneration, TLAPS

Working == {"clear", "check", "write", "mark", "recount", "reset"}

HoldsC(c, t) == t \in c.todo \/ (t = c.topic /\ c.pc \in Working)

\* c is to clear the rows of t.
Clears(c, t) == t \in c.todo \/ (t = c.topic /\ c.pc = "clear")

Marks(c, t) == t = c.topic /\ c.pc = "mark"

Rejecting(c, t) == c.kind = "request" /\ c.topic = t /\ c.pc \in {"reopen", "put"}

\* A call that works has a topic, of which its batch is rid; a request only writes.
Sound(c) ==
  /\ c.pc \notin {"idle", "next"} => c.topic \in Topics
  /\ c.pc \in {"idle", "check", "reopen", "put"} => c.todo = {}
  /\ c.topic \notin c.todo
  /\ c.kind = "request" => c.pc \in {"reopen", "put"}

HasDraft(t) == \E d \in Drafts : draft[d].topic = t /\ draft[d].status # "rejected"

NoneToSpare(t) == \A d \in Drafts : draft[d].topic = t => draft[d].status # "pending_review"

Quiet == Topics \ disturbed

CallsSound == \A w \in Workers : Sound(call[w])

Exclusive ==
  \A t \in Quiet : \A v, w \in Workers :
    HoldsC(call[v], t) => topic[t].status = "generating" /\ (HoldsC(call[w], t) => v = w)

ClearsNoDraft ==
  \A t \in Quiet : \A w \in Workers : Clears(call[w], t) => NoneToSpare(t)

Rejected(t) == \E w \in Workers : Rejecting(call[w], t)

MarksDraft ==
  \A t \in Quiet : \A w \in Workers : Marks(call[w], t) => HasDraft(t) \/ Rejected(t)

DraftedOK ==
  \A t \in Quiet : topic[t].status = "drafted" => HasDraft(t) \/ Rejected(t)

Inv == TypeOK /\ CallsSound /\ Exclusive /\ ClearsNoDraft /\ MarksDraft /\ DraftedOK

-----------------------------------------------------------------------------
(* Types.                                                                  *)

LEMMA StatusType ==
  /\ \A e \in DOMAIN To : To[e] \in Statuses
  /\ To.mark_drafted = "drafted" /\ To.mark_drafted \in Statuses
  /\ To.schedule \in Statuses /\ To.clear_schedule \in Statuses
  /\ To.archive \in Statuses /\ To.reject_draft = "backlog"
  /\ "generating" \in Statuses /\ "drafted" \in Statuses /\ "backlog" \in Statuses
  /\ \A b \in BOOLEAN : AfterFailure(b) \in {"scheduled", "backlog"} /\ AfterFailure(b) \in Statuses
BY DEF To, Statuses, AfterFailure

LEMMA IdleType == Idle \in Calls /\ Sound(Idle)
BY TopicsAssumption DEF Idle, Calls, CallStates, Sound, Blank, TopicRows, Statuses, Slots, PutRows

\* A call whose position alone changes.
LEMMA PcType ==
  ASSUME NEW c \in Calls, NEW p \in CallStates
  PROVE  /\ [c EXCEPT !.pc = p] \in Calls
         /\ [c EXCEPT !.pc = p].topic = c.topic /\ [c EXCEPT !.pc = p].todo = c.todo
         /\ [c EXCEPT !.pc = p].pc = p /\ [c EXCEPT !.pc = p].kind = c.kind
BY DEF Calls

\* Only the call of w changes, to c.
NowCalls(w, c) == call' = [call EXCEPT ![w] = c]

LEMMA BecomesCall ==
  ASSUME TypeOK, NEW w \in Workers, NEW c \in Calls, NowCalls(w, c)
  PROVE  /\ call' \in [Workers -> Calls]
         /\ call'[w] = c
         /\ \A v \in Workers \ {w} : call'[v] = call[v]
BY DEF TypeOK, NowCalls

LEMMA TopicType ==
  ASSUME TypeOK, NEW t, NEW s \in Statuses, SetStatus(t, s)
  PROVE  /\ topic' \in [Topics -> TopicRows]
         /\ \A u \in Topics \ {t} : topic'[u] = topic[u]
         /\ t \in Topics => topic'[t].status = s
BY DEF TypeOK, SetStatus, TopicRows

-----------------------------------------------------------------------------
(* Steps of one call that leave topics and drafts alone.                   *)

\* Rejections are over when the topic is not drafted, nor in generation.
LEMMA QuietCall ==
  ASSUME Inv, NEW w \in Workers, NEW c \in Calls, Sound(c), NowCalls(w, c),
         topic' = topic, draft' = draft,
         disturbed' \subseteq Topics, disturbed \subseteq disturbed',
         \A t \in Topics : HoldsC(c, t) => HoldsC(call[w], t),
         \A t \in Topics : Clears(c, t) => Clears(call[w], t),
         \A t \in Topics : Marks(c, t) => Marks(call[w], t),
         \A t \in Topics \ disturbed' : Rejecting(call[w], t) =>
           Rejecting(c, t) \/ topic[t].status \notin {"drafted", "generating"}
  PROVE  Inv'
<1>1. /\ call' \in [Workers -> Calls] /\ call'[w] = c
      /\ \A v \in Workers \ {w} : call'[v] = call[v]
  BY BecomesCall DEF Inv
<1>2. TypeOK'
  BY <1>1 DEF Inv, TypeOK
<1>3. CallsSound'
  BY <1>1 DEF Inv, CallsSound
<1>4. \A v \in Workers, t \in Topics :
        /\ HoldsC(call'[v], t) => HoldsC(call[v], t)
        /\ Clears(call'[v], t) => Clears(call[v], t)
        /\ Marks(call'[v], t) => Marks(call[v], t)
  BY <1>1
<1>5. Exclusive'
  BY <1>4 DEF Inv, Exclusive, Quiet
<1>6. \A t \in Topics : (NoneToSpare(t) <=> NoneToSpare(t)') /\ (HasDraft(t) <=> HasDraft(t)')
  BY DEF NoneToSpare, HasDraft
<1>7. ClearsNoDraft'
  BY <1>4, <1>6 DEF Inv, ClearsNoDraft, Quiet
<1>8. ASSUME NEW t \in Quiet', Rejected(t), topic[t].status \in {"drafted", "generating"}
      PROVE  Rejected(t)'
  <2>1. PICK v \in Workers : Rejecting(call[v], t)
    BY <1>8 DEF Rejected
  <2>2. Rejecting(call'[v], t)
    BY <2>1, <1>1, <1>8 DEF Quiet
  <2> QED BY <2>2 DEF Rejected
<1>9. \A t \in Quiet' : \A v \in Workers : Marks(call'[v], t) => topic[t].status = "generating"
  BY <1>4 DEF Inv, Exclusive, Quiet, Marks, HoldsC, Working
<1>10. MarksDraft'
  BY <1>4, <1>6, <1>8, <1>9 DEF Inv, MarksDraft, Quiet
<1>11. DraftedOK'
  BY <1>6, <1>8 DEF Inv, DraftedOK, Quiet
<1> QED
  BY <1>2, <1>3, <1>5, <1>7, <1>10, <1>11 DEF Inv

\* The call goes on to position p.
LEMMA GoesCall ==
  ASSUME TypeOK, CallsSound, NEW w \in Workers, NEW p \in CallStates, Goes(w, p)
  PROVE  \E c \in Calls :
           /\ NowCalls(w, c)
           /\ c.pc = p /\ c.topic = call[w].topic /\ c.todo = call[w].todo /\ c.kind = call[w].kind
<1> DEFINE c == [call[w] EXCEPT !.pc = p]
<1>1. call[w] \in Calls
  BY DEF TypeOK
<1>2. /\ c \in Calls /\ c.topic = call[w].topic /\ c.todo = call[w].todo
      /\ c.pc = p /\ c.kind = call[w].kind
  BY <1>1, PcType
<1>3. NowCalls(w, c)
  BY DEF NowCalls, Goes
<1> HIDE DEF c
<1> QED
  BY <1>2, <1>3

\* The call lets go of its topic.
LEMMA DoneCall ==
  ASSUME TypeOK, CallsSound, NEW w \in Workers, Done(w), call[w].pc \in Working
  PROVE  \E c \in Calls :
           /\ NowCalls(w, c) /\ Sound(c)
           /\ c.pc \in {"idle", "next"} /\ c.todo = call[w].todo
<1> DEFINE n == [call[w] EXCEPT !.pc = "next", !.topic = None]
<1>1. call[w] \in Calls /\ call[w].todo \subseteq Topics
  BY DEF TypeOK, Calls
<1>2. /\ n \in Calls /\ n.pc = "next" /\ n.topic = None /\ n.todo = call[w].todo
      /\ n.kind = call[w].kind
  BY <1>1 DEF Calls, CallStates
<1>3. Sound(n)
  BY <1>1, <1>2, TopicsAssumption DEF CallsSound, Sound, Working
<1>4. NowCalls(w, IF call[w].todo = {} THEN Idle ELSE n)
  BY DEF NowCalls, Done
<1>5. Idle.pc = "idle" /\ Idle.todo = {}
  BY DEF Idle
<1> HIDE DEF n
<1>6. CASE call[w].todo = {}
  BY <1>4, <1>5, <1>6, IdleType
<1>7. CASE call[w].todo # {}
  BY <1>2, <1>3, <1>4, <1>7
<1> QED
  BY <1>6, <1>7

\* Letting go of a topic, or of everything, disturbs nobody.
LEMMA QuietDone ==
  ASSUME Inv, NEW w \in Workers, Done(w), call[w].pc \in Working,
         topic' = topic, draft' = draft, disturbed' = disturbed
  PROVE  Inv'
<1>1. PICK c \in Calls : /\ NowCalls(w, c) /\ Sound(c)
                         /\ c.pc \in {"idle", "next"} /\ c.todo = call[w].todo
  BY DoneCall DEF Inv
<1>2. /\ \A t \in Topics : HoldsC(c, t) => HoldsC(call[w], t)
      /\ \A t \in Topics : Clears(c, t) => Clears(call[w], t)
      /\ \A t \in Topics : ~Marks(c, t) /\ ~Rejecting(call[w], t)
  BY <1>1 DEF HoldsC, Clears, Marks, Rejecting, Working
<1>3. disturbed' \subseteq Topics
  BY DEF Inv, TypeOK
<1> QED
  BY <1>1, <1>2, <1>3, QuietCall

\* So does going on to a position that clears and marks nothing.
LEMMA QuietGoes ==
  ASSUME Inv, NEW w \in Workers, NEW p \in {"write", "recount", "reset"}, Goes(w, p),
         call[w].pc \in Working, topic' = topic, draft' = draft, disturbed' = disturbed
  PROVE  Inv'
<1>1. PICK c \in Calls :
        /\ NowCalls(w, c)
        /\ c.pc = p /\ c.topic = call[w].topic /\ c.todo = call[w].todo /\ c.kind = call[w].kind
  BY GoesCall DEF Inv, CallStates
<1>2. Sound(c)
  BY <1>1 DEF Inv, CallsSound, Sound, Working
<1>3. /\ \A t \in Topics : HoldsC(c, t) => HoldsC(call[w], t)
      /\ \A t \in Topics : Clears(c, t) => Clears(call[w], t)
      /\ \A t \in Topics : ~Marks(c, t) /\ ~Rejecting(call[w], t)
  BY <1>1 DEF HoldsC, Clears, Marks, Rejecting, Working
<1>4. disturbed' \subseteq Topics
  BY DEF Inv, TypeOK
<1> QED
  BY <1>1, <1>2, <1>3, <1>4, QuietCall

LEMMA FailedStep ==
  ASSUME Inv, NEW w \in Workers, Failed(w), call[w].pc \in Working,
         topic' = topic, draft' = draft, disturbed' = disturbed
  PROVE  Inv'
BY QuietGoes DEF Failed

LEMMA TakeStep ==
  ASSUME Inv, NEW w \in Workers, Take(w)
  PROVE  Inv'
<1>1. PICK t \in call[w].todo :
        NowCalls(w, [call[w] EXCEPT !.pc = "clear", !.topic = t, !.todo = call[w].todo \ {t}])
  BY DEF Take, NowCalls
<1> DEFINE c == [call[w] EXCEPT !.pc = "clear", !.topic = t, !.todo = call[w].todo \ {t}]
<1>2. call[w] \in Calls /\ t \in Topics /\ call[w].pc = "next" /\ call[w].kind # "request"
  BY DEF Inv, TypeOK, CallsSound, Sound, Calls, Take, At
<1>3. /\ c \in Calls /\ c.pc = "clear" /\ c.topic = t /\ c.todo = call[w].todo \ {t}
      /\ c.kind = call[w].kind
  BY <1>2 DEF Calls, CallStates
<1>4. topic' = topic /\ draft' = draft /\ disturbed' = disturbed /\ disturbed' \subseteq Topics
  BY DEF Take, Inv, TypeOK
<1> HIDE DEF c
<1>5. Sound(c)
  BY <1>2, <1>3 DEF Sound
<1>6. /\ \A u \in Topics : HoldsC(c, u) => HoldsC(call[w], u)
      /\ \A u \in Topics : Clears(c, u) => Clears(call[w], u)
      /\ \A u \in Topics : ~Marks(c, u) /\ ~Rejecting(call[w], u)
  BY <1>2, <1>3 DEF HoldsC, Clears, Marks, Rejecting, Working
<1>7. NowCalls(w, c)
  BY <1>1 DEF c
<1> QED
  BY <1>3, <1>4, <1>5, <1>6, <1>7, QuietCall

\* A call that holds nothing new and does not stop a rejection disturbs nobody.
LEMMA QuietRequest ==
  ASSUME Inv, NEW w \in Workers, NEW c \in Calls, Sound(c), NowCalls(w, c),
         c.pc \in {"put", "idle"} \/ (c.pc = "write" /\ call[w].pc = "check" /\ c.topic = call[w].topic),
         c.todo = call[w].todo,
         topic' = topic, draft' = draft, disturbed' = disturbed,
         \A t \in Topics : Rejecting(call[w], t) =>
           Rejecting(c, t) \/ topic[t].status \notin {"drafted", "generating"}
  PROVE  Inv'
<1>1. /\ \A t \in Topics : HoldsC(c, t) => HoldsC(call[w], t)
      /\ \A t \in Topics : Clears(c, t) => Clears(call[w], t)
      /\ \A t \in Topics : ~Marks(c, t)
  BY DEF HoldsC, Clears, Marks, Working
<1>2. disturbed' \subseteq Topics
  BY DEF Inv, TypeOK
<1> QED
  BY <1>1, <1>2, QuietCall

LEMMA CheckStep ==
  ASSUME Inv, NEW w \in Workers, Check(w)
  PROVE  Inv'
<1> DEFINE t == call[w].topic
           c == [call[w] EXCEPT !.copy[t] = topic[t]]
           a == [c EXCEPT !.pc = "write"]
           b == [c EXCEPT !.pc = "put", !.put = StatusOnly("drafted")]
<1>1. /\ call[w] \in Calls /\ t \in Topics /\ topic[t] \in TopicRows
      /\ call[w].pc = "check" /\ Sound(call[w])
  BY DEF Inv, TypeOK, CallsSound, Sound, Check, At
<1>2. c \in Calls /\ c.topic = t /\ c.todo = call[w].todo /\ c.kind = call[w].kind
  BY <1>1 DEF Calls
<1>3. StatusOnly("drafted") \in PutRows
  BY DEF StatusOnly, PutRows, Statuses, Slots
<1>4. /\ a \in Calls /\ a.pc = "write" /\ a.topic = t /\ a.todo = call[w].todo
      /\ a.kind = call[w].kind
  <2> HIDE DEF c
  <2> QED BY <1>2, PcType DEF CallStates
<1>5. /\ b \in Calls /\ b.pc = "put" /\ b.topic = t /\ b.todo = call[w].todo
  <2> HIDE DEF c
  <2> QED BY <1>2, <1>3 DEF Calls, CallStates
<1>6. /\ topic' = topic /\ draft' = draft /\ disturbed' = disturbed
      /\ \A u \in Topics : ~Rejecting(call[w], u)
  BY <1>1 DEF Check, Rejecting
<1>7. NowCalls(w, a) \/ NowCalls(w, b) \/ NowCalls(w, Idle)
  BY DEF Check, NowCalls
<1>8. call[w].todo = {} /\ t \notin {}
  BY <1>1 DEF Sound
<1> HIDE DEF t, c, a, b
<1>9. CASE NowCalls(w, a)
  <2>1. Sound(a)
    BY <1>1, <1>4, <1>8 DEF Sound
  <2> QED BY <1>1, <1>4, <1>6, <1>9, <2>1, QuietRequest DEF t
<1>10. CASE NowCalls(w, b)
  <2>1. Sound(b)
    BY <1>1, <1>5, <1>8 DEF Sound
  <2> QED BY <1>5, <1>6, <1>10, <2>1, QuietRequest
<1>11. CASE NowCalls(w, Idle)
  <2>1. Idle.pc = "idle" /\ Idle.todo = {}
    BY DEF Idle
  <2> QED BY <1>6, <1>8, <1>11, <2>1, IdleType, QuietRequest
<1> QED
  BY <1>7, <1>9, <1>10, <1>11

LEMMA CollideStep ==
  ASSUME Inv, NEW w \in Workers, Collide(w)
  PROVE  Inv'
BY FailedStep DEF Collide, At, Working

LEMMA RecountStep ==
  ASSUME Inv, NEW w \in Workers, Recount(w)
  PROVE  Inv'
<1>1. /\ call[w].pc \in Working
      /\ topic' = topic /\ draft' = draft /\ disturbed' = disturbed
  BY DEF Recount, At, Working
<1>2. Done(w) \/ Goes(w, "reset")
  BY DEF Recount
<1> QED
  BY <1>1, <1>2, QuietDone, QuietGoes

LEMMA ErrsStep ==
  ASSUME Inv, NEW w \in Workers, Errs(w)
  PROVE  Inv'
<1>1. topic' = topic /\ draft' = draft /\ disturbed' = disturbed
  BY DEF Errs
<1>2. call[w].pc \in Working /\ (Failed(w) \/ Done(w))
  BY DEF Errs, Working
<1> QED
  BY <1>1, <1>2, FailedStep, QuietDone

LEMMA DiesStep ==
  ASSUME Inv, NEW w \in Workers, Dies(w)
  PROVE  Inv'
<1>1. /\ NowCalls(w, Idle) /\ topic' = topic /\ draft' = draft
      /\ disturbed' = IF call[w].kind = "request" THEN disturbed \cup {call[w].topic} ELSE disturbed
  BY DEF Dies, NowCalls
<1>2. Idle.pc = "idle" /\ Idle.todo = {}
  BY DEF Idle
<1>3. call[w].kind = "request" => call[w].topic \in Topics
  BY DEF Inv, CallsSound, Sound
<1>4. disturbed' \subseteq Topics /\ disturbed \subseteq disturbed'
  BY <1>1, <1>3 DEF Inv, TypeOK
<1>5. \A t \in Topics : ~HoldsC(Idle, t) /\ ~Clears(Idle, t) /\ ~Marks(Idle, t)
  BY <1>2 DEF HoldsC, Clears, Marks, Working
<1>6. \A t \in Topics \ disturbed' : ~Rejecting(call[w], t)
  BY <1>1 DEF Rejecting
<1> QED
  BY <1>1, <1>4, <1>5, <1>6, IdleType, QuietCall

\* A request has read its topic.
LEMMA ReadsStep ==
  ASSUME Inv, NEW w \in Workers, NEW t \in Topics, NEW p \in PutRows, Reads(w, t, p)
  PROVE  Inv'
<1> DEFINE c == [Idle EXCEPT !.pc = "put", !.kind = "request", !.topic = t, !.copy[t] = topic[t],
                             !.put = p]
<1>1. /\ NowCalls(w, c) /\ call[w] = Idle
      /\ topic' = topic /\ draft' = draft /\ disturbed' = disturbed
  BY DEF Reads, NowCalls
<1>2. topic[t] \in TopicRows
  BY DEF Inv, TypeOK
<1>3. /\ c \in Calls /\ c.pc = "put" /\ c.topic = t /\ c.todo = Idle.todo /\ c.kind = "request"
  BY <1>2, IdleType DEF Calls, CallStates
<1>4. Idle.todo = {} /\ Idle.kind # "request"
  BY DEF Idle
<1> HIDE DEF c
<1>5. Sound(c)
  BY <1>3, <1>4 DEF Sound
<1>6. \A u \in Topics : ~Rejecting(call[w], u)
  BY <1>1, <1>4 DEF Rejecting
<1> QED
  BY <1>1, <1>3, <1>4, <1>5, <1>6, QuietRequest

\* The topic of a rejection that need not be put back is neither drafted nor in
\* generation.
LEMMA ReopenStep ==
  ASSUME Inv, NEW w \in Workers, Reopen(w)
  PROVE  Inv'
<1> DEFINE t == call[w].topic
           c == [call[w] EXCEPT !.pc = "put", !.copy[t] = topic[t],
                                !.put = StatusOnly(To.reject_draft)]
<1>1. /\ call[w] \in Calls /\ t \in Topics /\ topic[t] \in TopicRows
      /\ call[w].pc = "reopen" /\ Sound(call[w]) /\ call[w].todo = {}
  BY DEF Inv, TypeOK, CallsSound, Sound, Reopen, At
<1>2. /\ topic' = topic /\ draft' = draft /\ disturbed' = disturbed
      /\ IF Allows(topic[t].status, "reject_draft") THEN NowCalls(w, c) ELSE NowCalls(w, Idle)
  BY DEF Reopen, NowCalls
<1>3. StatusOnly(To.reject_draft) \in PutRows
  BY StatusType DEF StatusOnly, PutRows, Slots
<1>4. /\ c \in Calls /\ c.pc = "put" /\ c.topic = t /\ c.todo = {} /\ c.kind = call[w].kind
  BY <1>1, <1>3 DEF Calls, CallStates
<1> HIDE DEF c
<1>5. CASE Allows(topic[t].status, "reject_draft")
  <2>1. Sound(c)
    BY <1>1, <1>4 DEF Sound
  <2>2. \A u \in Topics : Rejecting(call[w], u) => Rejecting(c, u)
    BY <1>1, <1>4 DEF Rejecting
  <2> QED BY <1>1, <1>2, <1>4, <1>5, <2>1, <2>2, QuietRequest
<1>6. CASE ~Allows(topic[t].status, "reject_draft")
  <2>1. topic[t].status \notin {"drafted", "generating"}
    BY <1>6 DEF Allows, From
  <2>2. Idle.pc = "idle" /\ Idle.todo = {}
    BY DEF Idle
  <2>3. \A u \in Topics : Rejecting(call[w], u) => topic[u].status \notin {"drafted", "generating"}
    BY <2>1 DEF Rejecting
  <2> QED BY <1>1, <1>2, <1>6, <2>2, <2>3, IdleType, QuietRequest
<1> QED
  BY <1>5, <1>6

-----------------------------------------------------------------------------
(* Steps that change topics.                                               *)

LEMMA TopicStep ==
  ASSUME Inv, NEW w \in Workers, NEW c \in Calls, Sound(c), NowCalls(w, c),
         topic' \in [Topics -> TopicRows], draft' = draft,
         disturbed' \subseteq Topics, disturbed \subseteq disturbed',
         \A t \in Topics \ disturbed' : \A v \in Workers \ {w} :
           HoldsC(call[v], t) => topic'[t].status = "generating" /\ ~HoldsC(c, t),
         \A t \in Topics \ disturbed' : HoldsC(c, t) => topic'[t].status = "generating",
         \A t \in Topics \ disturbed' : Clears(c, t) => NoneToSpare(t),
         \A t \in Topics : ~Marks(c, t),
         \A t \in Topics \ disturbed' : Rejecting(call[w], t) =>
           \/ Rejecting(c, t)
           \/ HasDraft(t)
           \/ topic'[t].status # "drafted" /\ \A v \in Workers : ~Marks(call[v], t),
         \A t \in Topics \ disturbed' : topic'[t].status = "drafted" =>
           topic[t].status = "drafted" \/ HasDraft(t) \/ Rejected(t)
  PROVE  Inv'
<1>1. /\ call' \in [Workers -> Calls] /\ call'[w] = c
      /\ \A v \in Workers \ {w} : call'[v] = call[v]
  BY BecomesCall DEF Inv
<1>2. TypeOK'
  BY <1>1 DEF Inv, TypeOK
<1>3. CallsSound'
  BY <1>1 DEF Inv, CallsSound
<1>4. \A t \in Topics : (NoneToSpare(t) <=> NoneToSpare(t)') /\ (HasDraft(t) <=> HasDraft(t)')
  BY DEF NoneToSpare, HasDraft
<1>5. Exclusive'
  <2> SUFFICES ASSUME NEW t \in Quiet', NEW v \in Workers, NEW u \in Workers, HoldsC(call'[v], t)
               PROVE  topic'[t].status = "generating" /\ (HoldsC(call'[u], t) => v = u)
    BY DEF Exclusive
  <2>1. t \in Topics \ disturbed' /\ t \in Quiet
    BY DEF Quiet
  <2>2. CASE v = w /\ u = w
    BY <1>1, <2>1, <2>2
  <2>3. CASE v = w /\ u # w
    BY <1>1, <2>1, <2>3
  <2>4. CASE v # w /\ u = w
    BY <1>1, <2>1, <2>4
  <2>5. CASE v # w /\ u # w
    BY <1>1, <2>1, <2>5 DEF Inv, Exclusive
  <2> QED BY <2>2, <2>3, <2>4, <2>5
<1>6. ClearsNoDraft'
  BY <1>1, <1>4 DEF Inv, ClearsNoDraft, Quiet
<1>7. ASSUME NEW t \in Quiet', Rejected(t), ~HasDraft(t),
             topic'[t].status = "drafted" \/ \E v \in Workers : Marks(call'[v], t)
      PROVE  Rejected(t)'
  <2>1. PICK v \in Workers : Rejecting(call[v], t)
    BY <1>7 DEF Rejected
  <2>2. topic'[t].status = "drafted" \/ \E u \in Workers : Marks(call[u], t)
    BY <1>1, <1>7 DEF Quiet
  <2>3. Rejecting(call'[v], t)
    BY <2>1, <2>2, <1>1, <1>7 DEF Quiet
  <2> QED BY <2>3 DEF Rejected
<1>8. MarksDraft'
  <2> SUFFICES ASSUME NEW t \in Quiet', NEW v \in Workers, Marks(call'[v], t)
               PROVE  HasDraft(t)' \/ Rejected(t)'
    BY DEF MarksDraft
  <2>1. Marks(call[v], t) /\ t \in Quiet
    BY <1>1 DEF Quiet
  <2>2. HasDraft(t) \/ Rejected(t)
    BY <2>1 DEF Inv, MarksDraft
  <2> QED BY <2>2, <1>4, <1>7 DEF Quiet
<1>9. DraftedOK'
  <2> SUFFICES ASSUME NEW t \in Quiet', topic'[t].status = "drafted"
               PROVE  HasDraft(t)' \/ Rejected(t)'
    BY DEF DraftedOK
  <2>1. HasDraft(t) \/ Rejected(t)
    BY DEF Inv, DraftedOK, Quiet
  <2> QED BY <2>1, <1>4, <1>7 DEF Quiet
<1> QED
  BY <1>2, <1>3, <1>5, <1>6, <1>8, <1>9 DEF Inv

\* Nobody holds a topic that is not in generation.
LEMMA Unheld ==
  ASSUME Inv, NEW t \in Quiet, topic[t].status # "generating", NEW v \in Workers
  PROVE  ~HoldsC(call[v], t)
BY DEF Inv, Exclusive

\* Reserving topics that are open.
LEMMA ReserveStep ==
  ASSUME Inv, NEW w \in Workers, NEW S \in SUBSET Topics,
         \A t \in S : topic[t].status \in {"backlog", "scheduled"}, Reserve(w, S)
  PROVE  Inv'
<1> DEFINE mine == {t \in S : ~Live(t)}
           row == [t \in Topics |-> IF t \in mine THEN [topic[t] EXCEPT !.status = "generating"]
                                    ELSE [topic[t] EXCEPT !.status = "drafted"]]
           n == [Idle EXCEPT !.pc = "next", !.kind = "tick", !.todo = mine,
                             !.copy = [t \in Topics |-> IF t \in mine THEN row[t] ELSE Blank]]
           c == IF mine = {} THEN Idle ELSE n
<1>1. /\ call[w] = Idle /\ NowCalls(w, c)
      /\ topic' = [t \in Topics |-> IF t \in S THEN row[t] ELSE topic[t]]
      /\ draft' = draft /\ disturbed' = disturbed
  BY DEF Reserve, NowCalls
<1>2. mine \subseteq S /\ \A t \in S \ mine : HasDraft(t)
  BY DEF Live, Of, HasDraft
<1>3. row \in [Topics -> TopicRows]
  BY StatusType DEF Inv, TypeOK, TopicRows
<1>4. \A t \in mine : row[t].status = "generating"
  BY DEF Inv, TypeOK, TopicRows
<1>5. \A t \in S \ mine : row[t].status = "drafted"
  BY DEF Inv, TypeOK, TopicRows
<1>6. \A t \in mine : NoneToSpare(t)
  BY DEF Live, Of, NoneToSpare
<1>7. Blank \in TopicRows
  BY DEF Blank, TopicRows, Statuses, Slots
<1> HIDE DEF row, mine
<1>8. /\ n \in Calls /\ n.pc = "next" /\ n.topic = None /\ n.todo = mine /\ n.kind = "tick"
  BY <1>2, <1>3, <1>7, IdleType DEF Idle, Calls, CallStates
<1> HIDE DEF n
<1>9. Idle.pc = "idle" /\ Idle.topic = None /\ Idle.todo = {} /\ Idle.kind = "none"
  BY DEF Idle
<1>10. /\ c \in Calls /\ c.pc \in {"idle", "next"} /\ c.topic = None /\ c.todo = mine
       /\ c.kind # "request"
  BY <1>8, <1>9, IdleType
<1>11. Sound(c)
  BY <1>2, <1>8, <1>9, TopicsAssumption, IdleType DEF Sound
<1> HIDE DEF c
<1>12. topic' \in [Topics -> TopicRows]
  BY <1>1, <1>3 DEF Inv, TypeOK
<1>13. \A t \in Topics : HoldsC(c, t) => t \in mine
  BY <1>10 DEF HoldsC, Working
<1>14. \A t \in Topics : Clears(c, t) => t \in mine
  BY <1>10 DEF Clears
<1>15. \A t \in Topics : ~Marks(c, t) /\ ~Rejecting(call[w], t)
  BY <1>1, <1>9, <1>10 DEF Marks, Rejecting
<1>16. \A t \in Quiet : \A v \in Workers : HoldsC(call[v], t) => t \notin S /\ t \notin mine
  BY <1>2, Unheld
<1>17. \A t \in Topics \ disturbed' : \A v \in Workers \ {w} :
         HoldsC(call[v], t) => topic'[t].status = "generating" /\ ~HoldsC(c, t)
  BY <1>1, <1>13, <1>16 DEF Inv, Exclusive, Quiet
<1>18. \A t \in Topics : HoldsC(c, t) => topic'[t].status = "generating"
  BY <1>1, <1>2, <1>4, <1>13
<1>19. \A t \in Topics : topic'[t].status = "drafted" => topic[t].status = "drafted" \/ HasDraft(t)
  BY <1>1, <1>2, <1>4, <1>5
<1>20. disturbed' \subseteq Topics
  BY <1>1 DEF Inv, TypeOK
<1> QED
  BY <1>1, <1>6, <1>10, <1>11, <1>12, <1>14, <1>15, <1>17, <1>18, <1>19, <1>20, TopicStep

LEMMA ManualStep ==
  ASSUME Inv, NEW w \in Workers, NEW t \in Topics, Manual(w, t)
  PROVE  Inv'
<1> DEFINE c == [Idle EXCEPT !.pc = "check", !.kind = "manual", !.topic = t]
<1>1. /\ call[w] = Idle /\ NowCalls(w, c) /\ SetStatus(t, "generating")
      /\ draft' = draft /\ disturbed' = disturbed
      /\ topic[t].status \in {"backlog", "scheduled"}
  BY DEF Manual, NowCalls, Allows, From
<1>2. Idle.topic = None /\ Idle.todo = {} /\ Idle.kind = "none"
  BY DEF Idle
<1>3. c \in Calls /\ c.pc = "check" /\ c.topic = t /\ c.todo = {} /\ c.kind = "manual"
  BY <1>2, IdleType DEF Calls, CallStates
<1> HIDE DEF c
<1>4. Sound(c)
  BY <1>3 DEF Sound
<1>5. /\ topic' \in [Topics -> TopicRows] /\ topic'[t].status = "generating"
      /\ \A u \in Topics \ {t} : topic'[u] = topic[u]
  BY <1>1, StatusType, TopicType DEF Inv
<1>6. \A u \in Topics : /\ HoldsC(c, u) => u = t
                        /\ ~Clears(c, u) /\ ~Marks(c, u) /\ ~Rejecting(call[w], u)
  BY <1>1, <1>2, <1>3 DEF HoldsC, Clears, Marks, Rejecting
<1>7. \A v \in Workers : t \in Quiet => ~HoldsC(call[v], t)
  BY <1>1, Unheld
<1>8. \A u \in Topics \ disturbed' : \A v \in Workers \ {w} :
        HoldsC(call[v], u) => topic'[u].status = "generating" /\ ~HoldsC(c, u)
  BY <1>1, <1>5, <1>6, <1>7 DEF Inv, Exclusive, Quiet
<1>9. disturbed' \subseteq Topics
  BY <1>1 DEF Inv, TypeOK
<1> QED
  BY <1>1, <1>3, <1>4, <1>5, <1>6, <1>8, <1>9, TopicStep

\* A call that lets go of its topic sets its status; it calls it drafted when it
\* was to mark it.
LEMMA SettleStep ==
  ASSUME Inv, NEW w \in Workers, Done(w), call[w].pc \in Working, NEW s \in Statuses,
         SetStatus(call[w].topic, s), s = "drafted" => call[w].pc = "mark",
         draft' = draft, disturbed' = disturbed
  PROVE  Inv'
<1> DEFINE t == call[w].topic
<1>1. PICK c \in Calls : /\ NowCalls(w, c) /\ Sound(c)
                         /\ c.pc \in {"idle", "next"} /\ c.todo = call[w].todo
  BY DoneCall DEF Inv
<1>2. t \in Topics /\ t \notin call[w].todo /\ call[w].kind # "request"
  BY DEF Inv, CallsSound, Sound, Working
<1>3. /\ topic' \in [Topics -> TopicRows] /\ topic'[t].status = s
      /\ \A u \in Topics \ {t} : topic'[u] = topic[u]
  BY <1>2, TopicType DEF Inv
<1>4. \A u \in Topics : HoldsC(c, u) => u # t /\ HoldsC(call[w], u)
  BY <1>1, <1>2 DEF HoldsC, Working
<1>5. \A u \in Topics : Clears(c, u) => Clears(call[w], u)
  BY <1>1 DEF Clears
<1>6. \A u \in Topics : ~Marks(c, u) /\ ~Rejecting(call[w], u)
  BY <1>1, <1>2 DEF Marks, Rejecting
<1>7. HoldsC(call[w], t)
  BY <1>2 DEF HoldsC
<1>8. \A u \in Topics \ disturbed' : \A v \in Workers \ {w} : HoldsC(call[v], u) =>
        topic[u].status = "generating" /\ ~HoldsC(call[w], u)
  BY DEF Inv, Exclusive, Quiet
<1>9. \A u \in Topics \ disturbed' : \A v \in Workers \ {w} : HoldsC(call[v], u) =>
        topic'[u].status = "generating" /\ ~HoldsC(c, u)
  BY <1>3, <1>4, <1>7, <1>8
<1>10. \A u \in Topics \ disturbed' : HoldsC(c, u) => topic'[u].status = "generating"
  BY <1>3, <1>4 DEF Inv, Exclusive, Quiet
<1>11. \A u \in Topics \ disturbed' : Clears(c, u) => NoneToSpare(u)
  BY <1>5 DEF Inv, ClearsNoDraft, Quiet
<1>12. ASSUME NEW u \in Topics \ disturbed', topic'[u].status = "drafted"
       PROVE  topic[u].status = "drafted" \/ HasDraft(u) \/ Rejected(u)
  <2>1. CASE u # t
    BY <1>3, <1>12, <2>1
  <2>2. CASE u = t
    BY <1>3, <1>12, <2>2 DEF Inv, MarksDraft, Marks, Quiet
  <2> QED BY <2>1, <2>2
<1>13. disturbed' \subseteq Topics
  BY DEF Inv, TypeOK
<1> QED
  BY <1>1, <1>3, <1>6, <1>9, <1>10, <1>11, <1>12, <1>13, TopicStep

LEMMA MarkStep ==
  ASSUME Inv, NEW w \in Workers, Mark(w)
  PROVE  Inv'
<1>1. call[w].pc = "mark" /\ call[w].pc \in Working /\ draft' = draft /\ disturbed' = disturbed
  BY DEF Mark, At, Working
<1>2. CASE SetStatus(call[w].topic, To.mark_drafted) /\ Done(w)
  BY <1>1, <1>2, StatusType, SettleStep
<1>3. CASE topic' = topic /\ Failed(w)
  BY <1>1, <1>3, FailedStep
<1> QED
  BY <1>2, <1>3 DEF Mark

LEMMA ResetStep ==
  ASSUME Inv, NEW w \in Workers, Reset(w)
  PROVE  Inv'
<1> DEFINE c == call[w].copy[call[w].topic]
           s == AfterFailure(c.slot # "none")
<1>1. call[w].pc \in Working /\ draft' = draft /\ disturbed' = disturbed /\ Done(w)
  BY DEF Reset, At, Working
<1>2. s \in Statuses /\ s # "drafted"
  BY StatusType DEF AfterFailure, Statuses
<1>3. topic' = topic \/ SetStatus(call[w].topic, s)
  BY DEF Reset
<1> HIDE DEF s
<1> QED
  BY <1>1, <1>2, <1>3, QuietDone, SettleStep

\* What a request writes.  On a topic it does not disturb nobody works, and it
\* says drafted only of one that has its draft.
LEMMA PutStep ==
  ASSUME Inv, NEW w \in Workers, Put(w)
  PROVE  Inv'
<1> DEFINE c == call[w]
           t == c.topic
           r == IF c.put.slot = "keep" THEN [topic[t] EXCEPT !.status = c.put.status] ELSE c.put
<1>1. /\ c \in Calls /\ c.pc = "put" /\ t \in Topics /\ c.todo = {}
      /\ topic \in [Topics -> TopicRows]
  BY DEF Inv, TypeOK, CallsSound, Sound, Put, At
<1>2. r \in TopicRows /\ r.status = c.put.status
  BY <1>1 DEF Calls, PutRows, TopicRows
<1>3. /\ topic' = [topic EXCEPT ![t] = r]
      /\ disturbed' = IF Disturbs(c) THEN disturbed \cup {t} ELSE disturbed
      /\ NowCalls(w, Idle) /\ draft' = draft
  BY DEF Put, NowCalls
<1> HIDE DEF r
<1>4. /\ topic' \in [Topics -> TopicRows] /\ topic'[t].status = c.put.status
      /\ \A u \in Topics \ {t} : topic'[u] = topic[u]
  BY <1>1, <1>2, <1>3
<1>5. disturbed' \subseteq Topics /\ disturbed \subseteq disturbed'
  BY <1>1, <1>3 DEF Inv, TypeOK
<1>6. t \notin disturbed' => /\ topic[t].status # "generating"
                             /\ c.put.status = "drafted" => HasDraft(t)
  BY <1>3 DEF Disturbs, Live, Of, HasDraft
<1>7. Idle.pc = "idle" /\ Idle.topic = None /\ Idle.todo = {}
  BY DEF Idle
<1>8. \A u \in Topics : ~HoldsC(Idle, u) /\ ~Clears(Idle, u) /\ ~Marks(Idle, u)
  BY <1>7 DEF HoldsC, Clears, Marks, Working
<1>9. \A u \in Topics \ disturbed' : \A v \in Workers : HoldsC(call[v], u) =>
        u # t /\ topic[u].status = "generating"
  BY <1>5, <1>6 DEF Inv, Exclusive, Quiet
<1>10. \A u \in Topics \ disturbed' : \A v \in Workers \ {w} :
         HoldsC(call[v], u) => topic'[u].status = "generating" /\ ~HoldsC(Idle, u)
  BY <1>4, <1>8, <1>9
<1>11. ASSUME NEW u \in Topics \ disturbed', Rejecting(call[w], u)
       PROVE  HasDraft(u) \/ (topic'[u].status # "drafted" /\ \A v \in Workers : ~Marks(call[v], u))
  <2>1. u = t
    BY <1>11 DEF Rejecting
  <2>2. \A v \in Workers : ~Marks(call[v], u)
    BY <1>9, <2>1 DEF Marks, HoldsC, Working
  <2> QED BY <1>4, <1>6, <2>1, <2>2
<1>12. \A u \in Topics \ disturbed' : topic'[u].status = "drafted" =>
         topic[u].status = "drafted" \/ HasDraft(u)
  BY <1>4, <1>6
<1> HIDE DEF t
<1> QED
  BY <1>3, <1>4, <1>5, <1>8, <1>10, <1>11, <1>12, IdleType, TopicStep

-----------------------------------------------------------------------------
(* Steps that change drafts.                                               *)

LEMMA DraftStep ==
  ASSUME Inv, NEW w \in Workers, NEW c \in Calls, Sound(c), NowCalls(w, c),
         topic' = topic, disturbed' = disturbed, draft' \in [Drafts -> DraftRows \cup {NoRow}],
         \A t \in Topics : HoldsC(c, t) => HoldsC(call[w], t),
         \A t \in Quiet : \A v \in Workers \ {w} : Clears(call[v], t) => NoneToSpare(t)',
         \A t \in Quiet : Clears(c, t) => NoneToSpare(t)',
         \A t \in Quiet : Marks(c, t) => HasDraft(t)',
         \A t \in Quiet : HasDraft(t) => HasDraft(t)' \/ Rejecting(c, t),
         \A t \in Topics : Rejecting(call[w], t) => Rejecting(c, t)
  PROVE  Inv'
<1>1. /\ call' \in [Workers -> Calls] /\ call'[w] = c
      /\ \A v \in Workers \ {w} : call'[v] = call[v]
  BY BecomesCall DEF Inv
<1>2. TypeOK'
  BY <1>1 DEF Inv, TypeOK
<1>3. CallsSound'
  BY <1>1 DEF Inv, CallsSound
<1>4. \A v \in Workers, t \in Topics : HoldsC(call'[v], t) => HoldsC(call[v], t)
  BY <1>1
<1>5. Exclusive'
  BY <1>4 DEF Inv, Exclusive, Quiet
<1>6. Quiet' = Quiet /\ Quiet \subseteq Topics
  BY DEF Quiet
<1>7. ClearsNoDraft'
  BY <1>1, <1>6 DEF ClearsNoDraft
<1>8. ASSUME NEW t \in Quiet, HasDraft(t) \/ Rejected(t)
      PROVE  HasDraft(t)' \/ Rejected(t)'
  <2>1. CASE HasDraft(t)
    BY <1>1, <2>1 DEF Rejected
  <2>2. CASE Rejected(t)
    BY <1>1, <1>6, <2>2 DEF Rejected
  <2> QED BY <1>8, <2>1, <2>2
<1>9. MarksDraft'
  <2> SUFFICES ASSUME NEW t \in Quiet, NEW v \in Workers, Marks(call'[v], t)
               PROVE  HasDraft(t)' \/ Rejected(t)'
    BY <1>6 DEF MarksDraft
  <2>1. CASE v = w
    BY <1>1, <2>1
  <2>2. CASE v # w
    <3>1. HasDraft(t) \/ Rejected(t)
      BY <1>1, <2>2 DEF Inv, MarksDraft
    <3> QED BY <3>1, <1>8
  <2> QED BY <2>1, <2>2
<1>10. DraftedOK'
  <2> SUFFICES ASSUME NEW t \in Quiet, topic[t].status = "drafted"
               PROVE  HasDraft(t)' \/ Rejected(t)'
    BY <1>6 DEF DraftedOK
  <2>1. HasDraft(t) \/ Rejected(t)
    BY DEF Inv, DraftedOK
  <2> QED BY <2>1, <1>8
<1> QED
  BY <1>2, <1>3, <1>5, <1>7, <1>9, <1>10 DEF Inv

\* The rows cleared are rejected ones: the topic had no draft to spare when it
\* was reserved, and nobody has written one since.
LEMMA ClearStep ==
  ASSUME Inv, NEW w \in Workers, Clear(w)
  PROVE  Inv'
<1> DEFINE t == call[w].topic
<1>1. PICK c \in Calls :
        /\ NowCalls(w, c)
        /\ c.pc = "write" /\ c.topic = t /\ c.todo = call[w].todo /\ c.kind = call[w].kind
  BY GoesCall DEF Inv, Clear, CallStates
<1>2. /\ call[w].pc = "clear" /\ t \in Topics /\ topic' = topic /\ disturbed' = disturbed
      /\ call[w].kind # "request"
  BY DEF Inv, CallsSound, Sound, Clear, At
<1>3. Sound(c)
  BY <1>1, <1>2 DEF Inv, CallsSound, Sound
<1>4. draft' = [d \in Drafts |-> IF draft[d].topic = t /\ draft[d].status \in {"pending_review", "rejected"}
                                 THEN NoRow ELSE draft[d]]
  BY DEF Clear, Cleared, Of
<1>5. draft' \in [Drafts -> DraftRows \cup {NoRow}]
  BY <1>4 DEF Inv, TypeOK
<1>6. NoRow.topic \notin Topics
  BY TopicsAssumption DEF NoRow
<1>7. \A u \in Topics : NoneToSpare(u) => NoneToSpare(u)'
  BY <1>4, <1>6 DEF NoneToSpare
<1>8. t \in Quiet => NoneToSpare(t)
  BY <1>2 DEF Inv, ClearsNoDraft, Clears
<1>9. ASSUME NEW u \in Quiet, HasDraft(u)
      PROVE  HasDraft(u)'
  <2>1. PICK d \in Drafts : draft[d].topic = u /\ draft[d].status # "rejected"
    BY <1>9 DEF HasDraft
  <2>2. draft'[d] = draft[d]
    BY <1>4, <1>8, <1>9, <2>1 DEF NoneToSpare
  <2> QED BY <2>1, <2>2 DEF HasDraft
<1>10. /\ \A u \in Topics : HoldsC(c, u) => HoldsC(call[w], u)
       /\ \A u \in Topics : Clears(c, u) => Clears(call[w], u)
       /\ \A u \in Topics : ~Marks(c, u) /\ ~Rejecting(call[w], u)
  BY <1>1, <1>2 DEF HoldsC, Clears, Marks, Rejecting, Working
<1>11. \A u \in Quiet : /\ \A v \in Workers \ {w} : Clears(call[v], u) => NoneToSpare(u)'
                        /\ Clears(c, u) => NoneToSpare(u)'
  BY <1>7, <1>10 DEF Inv, ClearsNoDraft, Quiet
<1> QED
  BY <1>1, <1>2, <1>3, <1>5, <1>9, <1>10, <1>11, DraftStep DEF Quiet

LEMMA CreateStep ==
  ASSUME Inv, NEW w \in Workers, Create(w)
  PROVE  Inv'
<1> DEFINE t == call[w].topic
           r == [topic |-> t, status |-> "pending_review"]
<1>1. PICK c \in Calls :
        /\ NowCalls(w, c)
        /\ c.pc = "mark" /\ c.topic = t /\ c.todo = call[w].todo /\ c.kind = call[w].kind
  BY GoesCall DEF Inv, Create, CallStates
<1>2. /\ call[w].pc = "write" /\ t \in Topics /\ topic' = topic /\ disturbed' = disturbed
      /\ call[w].kind # "request" /\ t \notin call[w].todo
  BY DEF Inv, CallsSound, Sound, Create, At
<1>3. Sound(c)
  BY <1>1, <1>2 DEF Inv, CallsSound, Sound
<1>4. PICK d \in Drafts : draft[d] = NoRow /\ draft' = [draft EXCEPT ![d] = r]
  BY DEF Create, Fresh
<1>5. r \in DraftRows /\ r.topic = t /\ r.status # "rejected"
  BY <1>2 DEF DraftRows
<1> HIDE DEF r
<1>6. draft' \in [Drafts -> DraftRows \cup {NoRow}] /\ draft'[d] = r
      /\ \A e \in Drafts \ {d} : draft'[e] = draft[e]
  BY <1>4, <1>5 DEF Inv, TypeOK
<1>7. draft[d].topic \notin Topics
  BY <1>4, TopicsAssumption DEF NoRow
<1>8. \A u \in Topics : HasDraft(u) => HasDraft(u)'
  BY <1>6, <1>7 DEF HasDraft
<1>9. \A u \in Topics : u = t => HasDraft(u)'
  BY <1>5, <1>6 DEF HasDraft
<1>10. \A u \in Topics \ {t} : NoneToSpare(u) => NoneToSpare(u)'
  BY <1>5, <1>6 DEF NoneToSpare
<1>11. /\ \A u \in Topics : HoldsC(c, u) => HoldsC(call[w], u)
       /\ \A u \in Topics : Clears(c, u) => Clears(call[w], u) /\ u # t
       /\ \A u \in Topics : Marks(c, u) => u = t
       /\ \A u \in Topics : ~Rejecting(call[w], u)
  BY <1>1, <1>2 DEF HoldsC, Clears, Marks, Rejecting, Working
<1>12. \A v \in Workers \ {w} : t \in Quiet => ~Clears(call[v], t)
  <2>1. HoldsC(call[w], t)
    BY <1>2 DEF HoldsC, Working
  <2>2. \A v \in Workers : Clears(call[v], t) => HoldsC(call[v], t)
    BY DEF Clears, HoldsC, Working
  <2> QED BY <2>1, <2>2 DEF Inv, Exclusive
<1>13. \A u \in Quiet : /\ \A v \in Workers \ {w} : Clears(call[v], u) => NoneToSpare(u)'
                        /\ Clears(c, u) => NoneToSpare(u)'
  BY <1>10, <1>11, <1>12 DEF Inv, ClearsNoDraft, Quiet
<1> HIDE DEF t
<1> QED
  BY <1>1, <1>2, <1>3, <1>6, <1>8, <1>9, <1>11, <1>13, DraftStep DEF Quiet

LEMMA RejectStep ==
  ASSUME Inv, NEW w \in Workers, NEW d \in Drafts, Reject(w, d)
  PROVE  Inv'
<1> DEFINE t == draft[d].topic
           c == [Idle EXCEPT !.pc = "reopen", !.kind = "request", !.topic = t]
<1>1. /\ call[w] = Idle /\ NowCalls(w, c) /\ topic' = topic /\ disturbed' = disturbed
      /\ draft[d] # NoRow /\ draft' = [draft EXCEPT ![d].status = "rejected"]
  BY DEF Reject, NowCalls
<1>2. draft[d] \in DraftRows /\ t \in Topics
  BY <1>1 DEF Inv, TypeOK, DraftRows
<1>3. /\ draft' \in [Drafts -> DraftRows \cup {NoRow}]
      /\ draft'[d].topic = t /\ draft'[d].status = "rejected"
      /\ \A e \in Drafts \ {d} : draft'[e] = draft[e]
  BY <1>1, <1>2 DEF Inv, TypeOK, DraftRows
<1>4. Idle.topic = None /\ Idle.todo = {} /\ Idle.kind = "none"
  BY DEF Idle
<1>5. c \in Calls /\ c.pc = "reopen" /\ c.topic = t /\ c.todo = {} /\ c.kind = "request"
  BY <1>2, <1>4, IdleType DEF Calls, CallStates
<1>6. \A u \in Topics : NoneToSpare(u) => NoneToSpare(u)'
  BY <1>3 DEF NoneToSpare
<1> HIDE DEF c
<1>7. Sound(c)
  BY <1>2, <1>5 DEF Sound
<1>8. \A u \in Topics : ~HoldsC(c, u) /\ ~Clears(c, u) /\ ~Marks(c, u) /\ ~Rejecting(call[w], u)
  BY <1>1, <1>4, <1>5 DEF HoldsC, Clears, Marks, Rejecting, Working
<1>9. ASSUME NEW u \in Quiet, HasDraft(u)
      PROVE  HasDraft(u)' \/ Rejecting(c, u)
  <2>1. CASE u = t
    BY <1>5, <2>1 DEF Rejecting
  <2>2. CASE u # t
    BY <1>3, <1>9, <2>2 DEF HasDraft
  <2> QED BY <2>1, <2>2
<1>10. \A u \in Quiet : \A v \in Workers : Clears(call[v], u) => NoneToSpare(u)'
  BY <1>6 DEF Inv, ClearsNoDraft, Quiet
<1> HIDE DEF t
<1> QED
  BY <1>1, <1>3, <1>5, <1>7, <1>8, <1>9, <1>10, DraftStep DEF Quiet

\* Steps of nobody's call, which take no draft away and write none.
LEMMA IdleStep ==
  ASSUME Inv, call' = call, disturbed' = disturbed,
         topic' \in [Topics -> TopicRows], draft' \in [Drafts -> DraftRows \cup {NoRow}],
         \A t \in Topics : topic'[t].status = topic[t].status,
         \A t \in Topics : NoneToSpare(t) => NoneToSpare(t)',
         \A t \in Topics : HasDraft(t) => HasDraft(t)'
  PROVE  Inv'
<1>1. TypeOK' /\ CallsSound'
  BY DEF Inv, TypeOK, CallsSound
<1>2. Quiet' = Quiet /\ Quiet \subseteq Topics /\ \A t : Rejected(t)' <=> Rejected(t)
  BY DEF Quiet, Rejected
<1>3. Exclusive'
  BY <1>2 DEF Inv, Exclusive
<1>4. ClearsNoDraft'
  BY <1>2 DEF Inv, ClearsNoDraft
<1>5. MarksDraft' /\ DraftedOK'
  BY <1>2 DEF Inv, MarksDraft, DraftedOK
<1> QED
  BY <1>1, <1>3, <1>4, <1>5 DEF Inv

\* A row whose status becomes s, approved or published.
LEMMA StatusStep ==
  ASSUME Inv, NEW d \in Drafts, NEW s \in {"approved", "published"}, draft[d] # NoRow,
         draft' = [draft EXCEPT ![d].status = s], topic' = topic, call' = call,
         disturbed' = disturbed
  PROVE  Inv'
<1>1. draft[d] \in DraftRows
  BY DEF Inv, TypeOK
<1>2. /\ draft' \in [Drafts -> DraftRows \cup {NoRow}]
      /\ draft'[d].topic = draft[d].topic /\ draft'[d].status = s
      /\ \A e \in Drafts \ {d} : draft'[e] = draft[e]
  BY <1>1 DEF Inv, TypeOK, DraftRows
<1>3. \A t \in Topics : NoneToSpare(t) => NoneToSpare(t)'
  BY <1>2 DEF NoneToSpare
<1>4. \A t \in Topics : HasDraft(t) => HasDraft(t)'
  BY <1>2 DEF HasDraft
<1> QED
  BY <1>2, <1>3, <1>4, IdleStep DEF Inv, TypeOK

LEMMA ReviewsStep ==
  ASSUME Inv, Reviews
  PROVE  Inv'
<1>1. PICK d \in Drafts : Approve(d) \/ Publish(d)
  BY DEF Reviews
<1>2. CASE Approve(d)
  BY <1>2, StatusStep DEF Approve
<1>3. CASE Publish(d)
  <2>1. draft[d] # NoRow
    BY <1>3 DEF Publish, NoRow
  <2> QED BY <1>3, <2>1, StatusStep DEF Publish
<1> QED
  BY <1>1, <1>2, <1>3

LEMMA SlotStep ==
  ASSUME Inv, NEW t \in Topics, SlotComes(t)
  PROVE  Inv'
<1>1. /\ topic' \in [Topics -> TopicRows]
      /\ \A u \in Topics : topic'[u].status = topic[u].status
  BY DEF SlotComes, Inv, TypeOK, TopicRows, Slots
<1>2. \A u \in Topics : (NoneToSpare(u) <=> NoneToSpare(u)') /\ (HasDraft(u) <=> HasDraft(u)')
  BY DEF SlotComes, NoneToSpare, HasDraft
<1> QED
  BY <1>1, <1>2, IdleStep DEF SlotComes, Inv, TypeOK

-----------------------------------------------------------------------------
(* The specification.                                                      *)

LEMMA InitInv == Init => Inv
<1> SUFFICES ASSUME Init PROVE Inv
  OBVIOUS
<1>1. /\ Idle.pc = "idle" /\ Idle.topic = None /\ Idle.todo = {} /\ Idle.kind = "none"
      /\ None \notin Topics
  BY TopicsAssumption DEF Idle
<1>2. /\ topic \in [Topics -> TopicRows]
      /\ \A t \in Topics : topic[t].status # "drafted"
  BY DEF Init, Blank, TopicRows, Statuses, Slots
<1>3. draft \in [Drafts -> DraftRows \cup {NoRow}]
  BY DEF Init
<1>4. call \in [Workers -> Calls] /\ disturbed \subseteq Topics
  BY IdleType DEF Init
<1>5. \A w \in Workers : call[w] = Idle
  BY DEF Init
<1>6. \A t \in Topics : ~HoldsC(Idle, t) /\ ~Clears(Idle, t) /\ ~Marks(Idle, t)
  BY <1>1 DEF HoldsC, Clears, Marks, Working
<1>7. TypeOK /\ CallsSound
  BY <1>2, <1>3, <1>4, <1>5, IdleType DEF TypeOK, CallsSound
<1>8. Exclusive /\ ClearsNoDraft /\ MarksDraft /\ DraftedOK
  BY <1>2, <1>5, <1>6 DEF Exclusive, ClearsNoDraft, MarksDraft, DraftedOK, Quiet
<1> QED
  BY <1>7, <1>8 DEF Inv

\* A pass reserves open topics.
LEMMA PassesStep ==
  ASSUME Inv, NEW w \in Workers, Passes(w)
  PROVE  Inv'
<1>1. CASE GeneratePass(w)
  <2>1. PICK S \in SUBSET Candidates : Reserve(w, S)
    BY <1>1 DEF GeneratePass
  <2>2. S \in SUBSET Topics /\ \A t \in S : topic[t].status \in {"backlog", "scheduled"}
    BY DEF Candidates
  <2> QED BY <2>1, <2>2, ReserveStep
<1>2. CASE ScheduledPass(w)
  <2>1. DueTopics \in SUBSET Topics /\ \A t \in DueTopics : topic[t].status \in {"backlog", "scheduled"}
    BY DEF DueTopics
  <2> QED BY <1>2, <2>1, ReserveStep DEF ScheduledPass
<1> QED
  BY <1>1, <1>2 DEF Passes

LEMMA WorksStep ==
  ASSUME Inv, NEW w \in Workers, Works(w)
  PROVE  Inv'
BY TakeStep, ClearStep, CheckStep, CreateStep, CollideStep, MarkStep, RecountStep, ResetStep,
   ReopenStep, PutStep DEF Works, Generating, Answers

LEMMA RequestsStep ==
  ASSUME Inv, NEW w \in Workers, Requests(w)
  PROVE  Inv'
<1>1. ASSUME NEW t \in Topics,
             Schedule(w, t) \/ ClearSchedule(w, t) \/ Archive(w, t) \/ Edit(w, t) \/ Reconcile(w, t)
      PROVE  Inv'
  <2>1. topic[t] \in PutRows
    BY DEF Inv, TypeOK, TopicRows, PutRows
  <2>2. /\ \A s \in {"later", "due"} : [status |-> To.schedule, slot |-> s] \in PutRows
        /\ [status |-> To.clear_schedule, slot |-> "none"] \in PutRows
        /\ [status |-> To.archive, slot |-> "none"] \in PutRows
        /\ StatusOnly("drafted") \in PutRows
    BY StatusType DEF PutRows, Slots, StatusOnly
  <2>3. \E p \in PutRows : Reads(w, t, p)
    BY <1>1, <2>1, <2>2 DEF Schedule, ClearSchedule, Archive, Edit, Reconcile
  <2> QED BY <2>3, ReadsStep
<1>2. ASSUME NEW t \in Topics, Manual(w, t)
      PROVE  Inv'
  BY <1>2, ManualStep
<1>3. ASSUME NEW d \in Drafts, Reject(w, d)
      PROVE  Inv'
  BY <1>3, RejectStep
<1> QED
  BY <1>1, <1>2, <1>3 DEF Requests

LEMMA NextInv == Inv /\ [Next]_vars => Inv'
<1> SUFFICES ASSUME Inv, [Next]_vars PROVE Inv'
  OBVIOUS
<1>1. ASSUME NEW w \in Workers, Passes(w) \/ Works(w) \/ Requests(w) \/ Fault(w)
      PROVE  Inv'
  <2>1. CASE Passes(w)
    BY <2>1, PassesStep
  <2>2. CASE Works(w)
    BY <2>2, WorksStep
  <2>3. CASE Requests(w)
    BY <2>3, RequestsStep
  <2>4. CASE Fault(w)
    BY <2>4, ErrsStep, DiesStep DEF Fault
  <2> QED BY <1>1, <2>1, <2>2, <2>3, <2>4
<1>2. ASSUME NEW t \in Topics, SlotComes(t)
      PROVE  Inv'
  BY <1>2, SlotStep
<1>3. CASE Reviews
  BY <1>3, ReviewsStep
<1>4. CASE UNCHANGED vars
  BY <1>4 DEF vars, Inv, TypeOK, CallsSound, Exclusive, ClearsNoDraft, MarksDraft, DraftedOK,
              Quiet, HasDraft, NoneToSpare, Rejected
<1> QED
  BY <1>1, <1>2, <1>3, <1>4 DEF Next

THEOREM Invariance == Spec => []Inv
BY InitInv, NextInv, PTL DEF Spec

\* Rows and calls keep their types: the statuses of the state machine, no call
\* at work without a topic of its own.
THEOREM TypeCorrect == Spec => []TypeOK
<1>1. Inv => TypeOK
  BY DEF Inv
<1> QED
  BY <1>1, Invariance, PTL

\* However many passes, goroutines and requests overlap, and wherever they
\* stop, a topic no request has disturbed is generated by one of them at most,
\* and is in generation while it is.
THEOREM OneGenerationHolds == Spec => []OneGeneration
<1>1. Inv => OneGeneration
  BY DEF Inv, Exclusive, OneGeneration, Quiet, HoldsC, Holds, Working
<1> QED
  BY <1>1, Invariance, PTL

\* A topic called drafted has a draft nobody rejected, or hears of it.
THEOREM DraftedHasDraftHolds == Spec => []DraftedHasDraft
<1>1. Inv => DraftedHasDraft
  BY DEF Inv, DraftedOK, DraftedHasDraft, Quiet, HasDraft, Rejected, Rejecting, BeingRejected
<1> QED
  BY <1>1, Invariance, PTL

-----------------------------------------------------------------------------
(* The rows a generation clears.                                           *)

Spares ==
  \A d \in Drafts : draft[d].status # "rejected" /\ draft[d].topic \in Topics \ disturbed
                      => draft'[d].topic = draft[d].topic

LEMMA ClearSpares ==
  ASSUME Inv, NEW w \in Workers, Clear(w)
  PROVE  Spares
<1> SUFFICES ASSUME NEW d \in Drafts, draft[d].status # "rejected", draft[d].topic \in Quiet
             PROVE  draft'[d] = draft[d]
  BY DEF Spares, Quiet
<1>1. call[w].topic = draft[d].topic => draft[d].status # "pending_review"
  BY DEF Inv, ClearsNoDraft, Clears, NoneToSpare, Clear, At
<1> QED
  BY <1>1 DEF Clear, Cleared, Of

LEMMA CreateSpares ==
  ASSUME Inv, NEW w \in Workers, Create(w)
  PROVE  Spares
<1>1. PICK d \in Drafts :
        /\ draft[d] = NoRow
        /\ draft' = [draft EXCEPT ![d] = [topic |-> call[w].topic, status |-> "pending_review"]]
  BY DEF Create, Fresh
<1>2. draft[d].topic \notin Topics
  BY <1>1, TopicsAssumption DEF NoRow
<1>3. \A e \in Drafts \ {d} : draft'[e] = draft[e]
  BY <1>1 DEF Inv, TypeOK
<1> QED
  BY <1>2, <1>3 DEF Spares

\* Steps that set the status of a row.
LEMMA StatusSpares ==
  ASSUME Inv, NEW d \in Drafts, NEW s, draft' = [draft EXCEPT ![d].status = s]
  PROVE  Spares
<1>1. draft'[d].topic = draft[d].topic
  BY DEF Inv, TypeOK, DraftRows, NoRow
<1>2. \A e \in Drafts \ {d} : draft'[e] = draft[e]
  BY DEF Inv, TypeOK
<1> QED
  BY <1>1, <1>2 DEF Spares

LEMMA NextSpares == Inv /\ [Next]_vars => Spares
<1> SUFFICES ASSUME Inv, [Next]_vars PROVE Spares
  OBVIOUS
<1>1. ASSUME draft' = draft
      PROVE  Spares
  BY <1>1 DEF Spares
<1>2. ASSUME NEW w \in Workers, Passes(w)
      PROVE  Spares
  BY <1>1, <1>2 DEF Passes, GeneratePass, ScheduledPass, Reserve
<1>3. ASSUME NEW w \in Workers, Works(w)
      PROVE  Spares
  <2>1. CASE Clear(w) \/ Create(w)
    BY <2>1, ClearSpares, CreateSpares
  <2>2. CASE Take(w) \/ Check(w) \/ Collide(w) \/ Mark(w) \/ Recount(w) \/ Reset(w)
    BY <1>1, <2>2 DEF Take, Check, Collide, Mark, Recount, Reset
  <2>3. CASE Answers(w)
    BY <1>1, <2>3 DEF Answers, Reopen, Put
  <2> QED BY <1>3, <2>1, <2>2, <2>3 DEF Works, Generating
<1>4. ASSUME NEW w \in Workers, Requests(w)
      PROVE  Spares
  <2>1. ASSUME NEW t \in Topics,
               Schedule(w, t) \/ ClearSchedule(w, t) \/ Archive(w, t) \/ Edit(w, t)
                 \/ Reconcile(w, t) \/ Manual(w, t)
        PROVE  Spares
    BY <1>1, <2>1 DEF Schedule, ClearSchedule, Archive, Edit, Reconcile, Manual, Reads
  <2>2. ASSUME NEW d \in Drafts, Reject(w, d)
        PROVE  Spares
    BY <2>2, StatusSpares DEF Reject
  <2> QED BY <1>4, <2>1, <2>2 DEF Requests
<1>5. ASSUME NEW w \in Workers, Fault(w)
      PROVE  Spares
  BY <1>1, <1>5 DEF Fault, Errs, Dies
<1>6. ASSUME NEW t \in Topics, SlotComes(t)
      PROVE  Spares
  BY <1>1, <1>6 DEF SlotComes
<1>7. CASE Reviews
  BY <1>7, StatusSpares DEF Reviews, Approve, Publish
<1>8. CASE UNCHANGED vars
  BY <1>1, <1>8 DEF vars
<1> QED
  BY <1>2, <1>3, <1>4, <1>5, <1>6, <1>7, <1>8 DEF Next

\* A generation never deletes a draft of an undisturbed topic that waits for
\* review, is approved or is published.
THEOREM ClearSparesDraftsHolds == Spec => ClearSparesDrafts
<1>1. Inv /\ [Next]_vars => [Spares]_vars
  BY NextSpares
<1>2. Spares <=> \A d \in Drafts : draft[d].status # "rejected" /\ draft[d].topic \in Topics \ disturbed
                                     => draft'[d].topic = draft[d].topic
  BY DEF Spares
<1> QED
  BY <1>1, <1>2, Invariance, PTL DEF Spec, ClearSparesDrafts
=============================================================================
