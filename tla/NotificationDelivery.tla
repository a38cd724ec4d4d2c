----------------------- MODULE NotificationDelivery -----------------------
(***************************************************************************)
(* Notifications: an event becomes one delivery per subscribed channel,    *)
(* and a worker that cron starts every ten seconds sends what is due.  It  *)
(* lists its rows by one statement outside a transaction, whose row locks  *)
(* are gone when it returns, so runs that overlap send the same rows; each *)
(* then marks them by statements that ask for no status.  A delivery that  *)
(* has failed for the last time is itself an event: its death is reported. *)
(*                                                                         *)
(* Time is abstract: a delivery is due or waits, and waiting ends.  What   *)
(* a message says, and the limit of 20 rows a listing, are left out.       *)
(***************************************************************************)
EXTENDS Integers, FiniteSets

CONSTANTS Events,       \* what the rest of the system tells its users
          Channels,     \* webhooks and mail addresses of the owner
          Workers,      \* runs of the worker, and dispatches elsewhere
          Subscribed,   \* channels by kind of event, "event" or "dead"
          MaxAttempts,  \* failures after which a delivery is dead
          None

ASSUME NotificationAssumption ==
  /\ MaxAttempts \in Nat \ {0}
  /\ Subscribed \in [{"event", "dead"} -> SUBSET Channels]
  /\ None \notin Channels
  /\ IsFiniteSet(Workers)

VARIABLES row,       \* row[i]: a row of notification_deliveries
          deleted,   \* channels that were deleted
          call,      \* call[w]: the rows w has listed and what it does next
          retried    \* history: deliveries an operator has tried again

vars == <<row, deleted, call, retried>>

\* An event and a channel name a delivery (a unique index), and a delivery that
\* has died names the event that reports it: "of" is the channel it died on.
Ids == [event : Events, of : Channels \cup {None}, channel : Channels]

Kind(event) == IF event.of = None THEN "event" ELSE "dead"
EventOf(i) == [event |-> i.event, of |-> i.of]
DeathOf(i) == [event |-> i.event, of |-> i.channel]
Delivery(event, c) == [event |-> event.event, of |-> event.of, channel |-> c]

NoRow == [status |-> "none", attempts |-> 0, waits |-> FALSE]
NewRow == [NoRow EXCEPT !.status = "pending"]

NoEvent == [event |-> None, of |-> None]
Idle == [pc |-> "idle", todo |-> {}, id |-> None, ok |-> FALSE, event |-> NoEvent, to |-> {}]

Init ==
  /\ row = [i \in Ids |-> NoRow]
  /\ deleted = {}
  /\ call = [w \in Workers |-> Idle]
  /\ retried = {}

At(w, pc) == call[w].pc = pc

-----------------------------------------------------------------------------
(* Dispatching an event: its subscriptions are listed, and a row is made   *)
(* for each channel, one statement each; one that exists is left alone.    *)

\* ListEnabledNotificationSubscriptionsForEvent.
Subscribers(event) == Subscribed[Kind(event)] \ deleted

Dispatching(c, event) ==
  [c EXCEPT !.pc = "dispatch", !.event = event, !.to = Subscribers(event)]

\* Any part of the system may report an event, and report it again.
Emit(w, e) ==
  /\ call[w] = Idle
  /\ call' = [call EXCEPT ![w] = Dispatching(Idle, [event |-> e, of |-> None])]
  /\ UNCHANGED <<row, deleted, retried>>

\* CreateNotificationDelivery: on conflict do nothing.
Inserted(i) == IF row[i] = NoRow THEN NewRow ELSE row[i]

\* w is through with a delivery: the next of its batch, or the end.
Done(c) == IF c.todo = {} THEN Idle ELSE [Idle EXCEPT !.pc = "send", !.todo = c.todo]

Create(w) ==
  LET c == call[w] IN
  /\ At(w, "dispatch")
  /\ IF c.to = {} THEN call' = [call EXCEPT ![w] = Done(c)] /\ UNCHANGED row
     ELSE \E ch \in c.to :
            LET i == Delivery(c.event, ch) IN
            /\ row' = [row EXCEPT ![i] = Inserted(i)]
            /\ call' = [call EXCEPT ![w].to = @ \ {ch}]
  /\ UNCHANGED <<deleted, retried>>

-----------------------------------------------------------------------------
(* The worker.                                                             *)

\* Seeded fault: what has failed before is not listed.
PendingUntried ==
  {i \in Ids : row[i].status = "pending" /\ row[i].attempts = 0 /\ i.channel \notin deleted}

\* ListPendingNotificationDeliveries.
Pending == {i \in Ids : row[i].status = "pending" /\ ~row[i].waits /\ i.channel \notin deleted}

List(w) ==
  /\ call[w] = Idle
  /\ Pending # {}
  /\ call' = [call EXCEPT ![w] = [Idle EXCEPT !.pc = "send", !.todo = Pending]]
  /\ UNCHANGED <<row, deleted, retried>>

\* The message is posted.  An answer that is late or lost is an error, and an
\* address that cannot be read is one too.
Send(w) ==
  /\ At(w, "send")
  /\ \E i \in call[w].todo, ok \in BOOLEAN :
       call' = [call EXCEPT ![w] =
         [call[w] EXCEPT !.pc = "mark", !.todo = call[w].todo \ {i}, !.id = i, !.ok = ok]]
  /\ UNCHANGED <<row, deleted, retried>>

Sent(w) == At(w, "mark") /\ call[w].ok

MarkSent(w) ==
  /\ Sent(w)
  /\ row' = [row EXCEPT ![call[w].id].status = "sent"]
  /\ call' = [call EXCEPT ![w] = Done(@)]
  /\ UNCHANGED <<deleted, retried>>

\* Seeded fault: one attempt too many.
LastFailureLate(r) == r.attempts >= MaxAttempts

LastFailure(r) == r.attempts + 1 >= MaxAttempts

\* MarkNotificationDeliveryFailed, whatever the row has become since.
Failed(r) ==
  [r EXCEPT !.attempts = @ + 1,
            !.status = IF LastFailure(r) THEN "dead" ELSE "pending",
            !.waits = ~LastFailure(r)]

\* Seeded fault: the other way round.
ReportsReports(i) == i.of # None

\* The death of a report is not reported again.
Reports(i) == i.of = None

MarkFailed(w) ==
  LET i == call[w].id
      dies == LastFailure(row[i]) /\ Reports(i)
  IN  /\ At(w, "mark") /\ ~call[w].ok
      /\ row' = [row EXCEPT ![i] = Failed(@)]
      /\ call' = [call EXCEPT ![w] = IF dies THEN Dispatching(@, DeathOf(i)) ELSE Done(@)]
      /\ UNCHANGED <<deleted, retried>>

Works(w) == Send(w) \/ MarkSent(w) \/ MarkFailed(w) \/ Create(w)

-----------------------------------------------------------------------------
(* Time, operators and faults.                                             *)

RetryComes(i) ==
  /\ row[i].status = "pending" /\ row[i].waits
  /\ row' = [row EXCEPT ![i].waits = FALSE]
  /\ UNCHANGED <<deleted, call, retried>>

\* The Retry button: any delivery, its attempts as they are.
Retry(i) ==
  /\ row[i] # NoRow
  /\ row' = [row EXCEPT ![i].status = "pending", ![i].waits = FALSE]
  /\ retried' = retried \cup {i}
  /\ UNCHANGED <<deleted, call>>

DeleteChannel(c) ==
  /\ deleted' = deleted \cup {c}
  /\ UNCHANGED <<row, call, retried>>

\* The process stops, or a statement fails and the run returns: the rest of its
\* batch, and of a dispatch, is left as it is.
Dies(w) ==
  /\ call[w] # Idle
  /\ call' = [call EXCEPT ![w] = Idle]
  /\ UNCHANGED <<row, deleted, retried>>

Operator == (\E i \in Ids : Retry(i)) \/ (\E c \in Channels : DeleteChannel(c))

Next ==
  \/ \E w \in Workers : List(w) \/ Works(w) \/ Dies(w) \/ \E e \in Events : Emit(w, e)
  \/ \E i \in Ids : RetryComes(i)
  \/ Operator

Spec == Init /\ [][Next]_vars

-----------------------------------------------------------------------------
RowType == [status : {"none", "pending", "sent", "dead"}, attempts : Nat, waits : BOOLEAN]
CallStates == {"idle", "dispatch", "send", "mark"}
EventIds == [event : Events \cup {None}, of : Channels \cup {None}]

TypeOK ==
  /\ row \in [Ids -> RowType]
  /\ deleted \subseteq Channels
  /\ call \in [Workers -> [pc : CallStates, todo : SUBSET Ids, id : Ids \cup {None},
                           ok : BOOLEAN, event : EventIds, to : SUBSET Channels]]
  /\ retried \subseteq Ids

\* A channel that does not answer is not knocked on for ever: the marks of runs
\* that overlap are not fenced, but each adds one failure at most to the last.
AttemptsBounded ==
  /\ TypeOK
  /\ \A i \in Ids \ retried : row[i].attempts < MaxAttempts + Cardinality(Workers)
=============================================================================
