--------------------- MODULE NotificationDeliveryProofs ---------------------
(***************************************************************************)
(* Proofs about NotificationDelivery, for any events, channels, workers    *)
(* and subscriptions.                                                      *)
(*                                                                         *)
(* A delivery that nobody has tried again and that has failed MaxAttempts  *)
(* times is not pending, so no run lists it any more: only the runs that   *)
(* hold it already can add a failure, each one, and lets go of it then.    *)
(***************************************************************************)
EXTENDS NotificationDelivery, FiniteSetTheorems, TLAPS

Calls == [pc : CallStates, todo : SUBSET Ids, id : Ids \cup {None},
          ok : BOOLEAN, event : EventIds, to : SUBSET Channels]

\* c still has to say how the sending of i went.
HoldsC(c, i) == i \in c.todo \/ (c.pc = "mark" /\ i = c.id)

Holders(i) == {w \in Workers : HoldsC(call[w], i)}

\* A call that marks has a delivery, no more in its batch; one that dispatches
\* has an event; one that is idle has nothing.
Sound(c) ==
  /\ c.pc = "mark" => c.id \in Ids \ c.todo
  /\ c.pc = "dispatch" => c.event \in [event : Events, of : Channels \cup {None}]
  /\ c.pc = "idle" => c.todo = {}

CallsSound == \A w \in Workers : Sound(call[w])

\* Every row that has failed for the last time is out of the list, and what it
\* has failed and may still fail stays below the bound.
SpentLeaves(i) ==
  row[i].attempts >= MaxAttempts =>
    /\ row[i].status \in {"sent", "dead"}
    /\ row[i].attempts + Cardinality(Holders(i)) < MaxAttempts + Cardinality(Workers)

SpentOK == \A i \in Ids \ retried : SpentLeaves(i)

Inv == TypeOK /\ CallsSound /\ SpentOK

-----------------------------------------------------------------------------
(* Types.                                                                  *)

\* A failure more; after the last one the delivery is dead.
LEMMA FailedType ==
  ASSUME NEW r \in RowType
  PROVE  /\ Failed(r) \in RowType /\ r.attempts \in Nat /\ Failed(r).attempts = r.attempts + 1
         /\ Failed(r).attempts >= MaxAttempts => Failed(r).status = "dead"
<1>1. r.attempts \in Nat /\ MaxAttempts \in Nat
  BY NotificationAssumption DEF RowType
<1> DEFINE q == [r EXCEPT !.attempts = @ + 1]
<1>2. q \in RowType /\ q.attempts = r.attempts + 1
  BY <1>1 DEF RowType
<1> HIDE DEF q
<1>3. CASE LastFailure(r)
  <2>1. Failed(r) = [q EXCEPT !.status = "dead", !.waits = FALSE]
    BY <1>3, Zenon DEF Failed, q
  <2>2. Failed(r) \in RowType /\ Failed(r).attempts = q.attempts /\ Failed(r).status = "dead"
    BY <1>2, <2>1 DEF RowType
  <2> QED
    BY <1>1, <1>2, <2>2
<1>4. CASE ~LastFailure(r)
  <2>1. Failed(r) = [q EXCEPT !.status = "pending", !.waits = TRUE]
    BY <1>4, Zenon DEF Failed, q
  <2>2. Failed(r) \in RowType /\ Failed(r).attempts = q.attempts
    BY <1>2, <2>1 DEF RowType
  <2> QED
    BY <1>1, <1>2, <1>4, <2>2 DEF LastFailure
<1> QED
  BY <1>3, <1>4

LEMMA CallsType == TypeOK => call \in [Workers -> Calls]
BY DEF TypeOK, Calls

LEMMA IdleType == Idle \in Calls /\ Sound(Idle) /\ \A i : ~HoldsC(Idle, i)
BY DEF Idle, Calls, CallStates, Sound, NoEvent, EventIds, HoldsC

\* Only the call of w changes, to c.
Becomes(w, c) == call' = [call EXCEPT ![w] = c]

\* A call that is through with a delivery, and one that starts a dispatch, hold
\* the rest of the batch.
LEMMA DoneType ==
  ASSUME NEW c \in Calls
  PROVE  Done(c) \in Calls /\ Sound(Done(c)) /\ \A i : HoldsC(Done(c), i) => i \in c.todo
<1> DEFINE n == [Idle EXCEPT !.pc = "send", !.todo = c.todo]
<1>1. c.todo \subseteq Ids
  BY DEF Calls
<1>2. n \in Calls /\ n.pc = "send" /\ n.todo = c.todo
  BY <1>1, IdleType DEF Calls, CallStates, Idle
<1>3. Done(c) = IF c.todo = {} THEN Idle ELSE n
  BY DEF Done
<1> HIDE DEF n
<1> QED
  BY <1>2, <1>3, IdleType DEF Sound, HoldsC

LEMMA DispatchType ==
  ASSUME NEW c \in Calls, NEW e \in [event : Events, of : Channels \cup {None}]
  PROVE  /\ Dispatching(c, e) \in Calls /\ Sound(Dispatching(c, e))
         /\ \A i : HoldsC(Dispatching(c, e), i) => i \in c.todo
<1>1. Subscribers(e) \subseteq Channels
  BY NotificationAssumption DEF Subscribers, Kind
<1>2. /\ Dispatching(c, e) \in Calls /\ Dispatching(c, e).pc = "dispatch"
      /\ Dispatching(c, e).todo = c.todo /\ Dispatching(c, e).event = e
  BY <1>1 DEF Calls, CallStates, EventIds, Dispatching
<1> QED
  BY <1>2 DEF Sound, HoldsC

-----------------------------------------------------------------------------
(* Who holds a delivery.                                                   *)

LEMMA HoldersCount ==
  ASSUME NEW S \in SUBSET Workers, NEW T \in SUBSET S
  PROVE  /\ Cardinality(T) \in Nat /\ Cardinality(S) \in Nat
         /\ Cardinality(T) <= Cardinality(S)
         /\ S # T => Cardinality(T) < Cardinality(S)
<1>1. IsFiniteSet(S)
  BY NotificationAssumption, FS_Subset
<1>2. IsFiniteSet(T) /\ Cardinality(T) <= Cardinality(S) /\ (Cardinality(S) = Cardinality(T) => S = T)
  BY <1>1, FS_Subset
<1>3. Cardinality(S) \in Nat /\ Cardinality(T) \in Nat
  BY <1>1, <1>2, FS_CardinalityType
<1> QED
  BY <1>2, <1>3

LEMMA CallStep ==
  ASSUME TypeOK, CallsSound, NEW w \in Workers, NEW c \in Calls, Sound(c), Becomes(w, c)
  PROVE  /\ call' \in [Workers -> Calls]
         /\ CallsSound'
         /\ \A i : ~HoldsC(c, i) => Holders(i)' = Holders(i) \ {w}
         /\ \A i : HoldsC(call[w], i) => Holders(i)' \subseteq Holders(i)
<1>1. /\ call' \in [Workers -> Calls] /\ call'[w] = c
      /\ \A v \in Workers \ {w} : call'[v] = call[v]
  BY CallsType DEF Becomes
<1>2. CallsSound'
  BY <1>1 DEF CallsSound
<1>3. ASSUME NEW i
      PROVE  /\ ~HoldsC(c, i) => Holders(i)' = Holders(i) \ {w}
             /\ HoldsC(call[w], i) => Holders(i)' \subseteq Holders(i)
  BY <1>1 DEF Holders
<1> QED
  BY <1>1, <1>2, <1>3

\* A step of one call that leaves the rows alone, and takes none that is spent.
LEMMA QuietCall ==
  ASSUME Inv, NEW w \in Workers, NEW c \in Calls, Sound(c), Becomes(w, c),
         \A i \in Ids \ retried : HoldsC(c, i) => HoldsC(call[w], i) \/ row[i].status = "pending",
         UNCHANGED <<row, deleted, retried>>
  PROVE  Inv'
<1>1. /\ call' \in [Workers -> Calls] /\ CallsSound'
      /\ \A i : ~HoldsC(c, i) => Holders(i)' = Holders(i) \ {w}
      /\ \A i : HoldsC(call[w], i) => Holders(i)' \subseteq Holders(i)
  BY CallStep DEF Inv
<1>2. TypeOK'
  BY <1>1 DEF Inv, TypeOK, Calls
<1>3. ASSUME NEW i \in Ids \ retried, row[i].attempts >= MaxAttempts
      PROVE  Cardinality(Holders(i)') <= Cardinality(Holders(i)) /\ Cardinality(Holders(i)') \in Nat
                /\ Cardinality(Holders(i)) \in Nat
  <2>1. row[i].status # "pending"
    BY <1>3 DEF Inv, SpentOK, SpentLeaves
  <2>2. Holders(i)' \subseteq Holders(i)
    BY <1>1, <2>1
  <2> QED
    BY <2>2, HoldersCount DEF Holders
<1>4. ASSUME NEW i \in Ids \ retried
      PROVE  SpentLeaves(i)'
  <2>1. row[i].attempts \in Nat /\ MaxAttempts \in Nat /\ Cardinality(Workers) \in Nat
    BY NotificationAssumption, FS_CardinalityType DEF Inv, TypeOK, RowType
  <2>2. SpentLeaves(i)
    BY DEF Inv, SpentOK
  <2> QED
    BY <1>3, <2>1, <2>2 DEF SpentLeaves
<1> QED
  BY <1>1, <1>2, <1>4 DEF Inv, SpentOK

\* A step that says of row i alone what has become of it, and adds no failure.
LEMMA RowStep ==
  ASSUME Inv, NEW i \in Ids, NEW r \in RowType, row' = [row EXCEPT ![i] = r],
         TypeOK', CallsSound', retried \subseteq retried',
         \A j : Holders(j)' \subseteq Holders(j),
         \/ i \in retried'
         \/ r.attempts < MaxAttempts
         \/ r.attempts = row[i].attempts /\ r.status \in {"sent", row[i].status}
  PROVE  Inv'
<1>1. ASSUME NEW j \in Ids \ retried'
      PROVE  SpentLeaves(j)'
  <2>1. /\ Cardinality(Holders(j)') \in Nat /\ Cardinality(Holders(j)) \in Nat
        /\ Cardinality(Holders(j)') <= Cardinality(Holders(j))
    BY HoldersCount DEF Holders
  <2>2. row[j].attempts \in Nat /\ MaxAttempts \in Nat /\ Cardinality(Workers) \in Nat
    BY NotificationAssumption, FS_CardinalityType DEF Inv, TypeOK, RowType
  <2>3. SpentLeaves(j)
    BY DEF Inv, SpentOK
  <2>4. CASE j # i
    <3>1. row'[j] = row[j]
      BY <2>4 DEF Inv, TypeOK
    <3> QED
      BY <3>1, <2>1, <2>2, <2>3 DEF SpentLeaves
  <2>5. CASE j = i
    <3>1. row'[j] = r /\ r.attempts \in Nat
      BY <2>5 DEF Inv, TypeOK, RowType
    <3>2. r.attempts < MaxAttempts \/ (r.attempts = row[j].attempts /\ r.status \in {"sent", row[j].status})
      BY <2>5
    <3> QED
      BY <3>1, <3>2, <2>1, <2>2, <2>3 DEF SpentLeaves
  <2> QED
    BY <2>4, <2>5
<1> QED
  BY <1>1 DEF Inv, SpentOK

-----------------------------------------------------------------------------
(* The steps.                                                              *)

LEMMA EmitStep ==
  ASSUME Inv, NEW w \in Workers, NEW e \in Events, Emit(w, e)
  PROVE  Inv'
<1> DEFINE c == Dispatching(Idle, [event |-> e, of |-> None])
<1>1. c \in Calls /\ Sound(c) /\ \A i : HoldsC(c, i) => i \in Idle.todo
  BY DispatchType, IdleType
<1>2. Becomes(w, c) /\ UNCHANGED <<row, deleted, retried>>
  BY DEF Emit, Becomes
<1>3. \A i : ~HoldsC(c, i)
  BY <1>1 DEF Idle
<1> HIDE DEF c
<1> QED
  BY <1>1, <1>2, <1>3, QuietCall

LEMMA ListStep ==
  ASSUME Inv, NEW w \in Workers, List(w)
  PROVE  Inv'
<1> DEFINE c == [Idle EXCEPT !.pc = "send", !.todo = Pending]
<1>1. c \in Calls /\ c.pc = "send" /\ c.todo = Pending
  BY IdleType DEF Calls, CallStates, Pending, Idle
<1>2. Becomes(w, c) /\ UNCHANGED <<row, deleted, retried>>
  BY DEF List, Becomes
<1> HIDE DEF c
<1>3. Sound(c) /\ \A i : HoldsC(c, i) => row[i].status = "pending"
  BY <1>1 DEF Sound, HoldsC, Pending
<1> QED
  BY <1>1, <1>2, <1>3, QuietCall

LEMMA SendStep ==
  ASSUME Inv, NEW w \in Workers, Send(w)
  PROVE  Inv'
<1>1. PICK i \in call[w].todo, ok \in BOOLEAN :
        call' = [call EXCEPT ![w] =
          [call[w] EXCEPT !.pc = "mark", !.todo = call[w].todo \ {i}, !.id = i, !.ok = ok]]
  BY DEF Send
<1> DEFINE c == [call[w] EXCEPT !.pc = "mark", !.todo = call[w].todo \ {i}, !.id = i, !.ok = ok]
<1>2. call[w] \in Calls /\ call[w].todo \subseteq Ids
  BY CallsType DEF Inv, Calls
<1>3. c \in Calls /\ c.pc = "mark" /\ c.todo = call[w].todo \ {i} /\ c.id = i
  BY <1>2 DEF Calls, CallStates
<1>4. Becomes(w, c) /\ UNCHANGED <<row, deleted, retried>>
  BY <1>1 DEF Send, Becomes
<1> HIDE DEF c
<1>5. Sound(c) /\ \A j : HoldsC(c, j) => HoldsC(call[w], j)
  BY <1>2, <1>3 DEF Sound, HoldsC
<1> QED
  BY <1>3, <1>4, <1>5, QuietCall

LEMMA DiesStep ==
  ASSUME Inv, NEW w \in Workers, Dies(w)
  PROVE  Inv'
<1>1. Becomes(w, Idle) /\ UNCHANGED <<row, deleted, retried>>
  BY DEF Dies, Becomes
<1> QED
  BY <1>1, IdleType, QuietCall

LEMMA CreateStep ==
  ASSUME Inv, NEW w \in Workers, Create(w)
  PROVE  Inv'
<1>1. call[w] \in Calls /\ call[w].pc = "dispatch" /\ Sound(call[w])
  BY CallsType DEF Inv, Create, At, CallsSound
<1>2. CASE call[w].to = {}
  <2>1. Becomes(w, Done(call[w])) /\ UNCHANGED <<row, deleted, retried>>
    BY <1>2 DEF Create, Becomes
  <2>2. \A i : HoldsC(Done(call[w]), i) => HoldsC(call[w], i)
    BY <1>1, DoneType DEF HoldsC
  <2> QED
    BY <1>1, <2>1, <2>2, DoneType, QuietCall
<1>3. CASE call[w].to # {}
  <2>1. PICK ch \in call[w].to :
          /\ row' = [row EXCEPT ![Delivery(call[w].event, ch)] = Inserted(Delivery(call[w].event, ch))]
          /\ call' = [call EXCEPT ![w].to = @ \ {ch}]
    BY <1>3 DEF Create
  <2> DEFINE c == [call[w] EXCEPT !.to = @ \ {ch}]
             i == Delivery(call[w].event, ch)
  <2>2. c \in Calls /\ c.pc = "dispatch" /\ c.todo = call[w].todo /\ c.event = call[w].event
    BY <1>1 DEF Calls
  <2>3. Becomes(w, c) /\ UNCHANGED <<deleted, retried>>
    BY <2>1 DEF Create, Becomes
  <2>4. i \in Ids
    BY <1>1 DEF Calls, Sound, Delivery, Ids
  <2>5. /\ Inserted(i) \in RowType
        /\ Inserted(i) = row[i] \/ Inserted(i).attempts = 0
    BY <2>4 DEF Inserted, NewRow, NoRow, RowType, Inv, TypeOK
  <2>6. row' = [row EXCEPT ![i] = Inserted(i)]
    BY <2>1
  <2> HIDE DEF c, i
  <2>7. Sound(c) /\ \A j : HoldsC(c, j) <=> HoldsC(call[w], j)
    BY <1>1, <2>2 DEF Sound, HoldsC
  <2>8. /\ call' \in [Workers -> Calls] /\ CallsSound'
        /\ \A j : Holders(j)' \subseteq Holders(j)
    <3>1. /\ call' \in [Workers -> Calls] /\ CallsSound'
          /\ \A j : ~HoldsC(c, j) => Holders(j)' = Holders(j) \ {w}
          /\ \A j : HoldsC(call[w], j) => Holders(j)' \subseteq Holders(j)
      BY <2>2, <2>3, <2>7, CallStep DEF Inv
    <3> QED
      BY <3>1, <2>7
  <2>9. TypeOK'
    BY <2>3, <2>4, <2>5, <2>6, <2>8 DEF Inv, TypeOK, Calls
  <2>10. Inserted(i).attempts < MaxAttempts
         \/ (Inserted(i).attempts = row[i].attempts /\ Inserted(i).status \in {"sent", row[i].status})
    BY <2>5, NotificationAssumption
  <2> QED
    BY <2>3, <2>4, <2>5, <2>6, <2>8, <2>9, <2>10, RowStep
<1> QED
  BY <1>2, <1>3

LEMMA MarkSentStep ==
  ASSUME Inv, NEW w \in Workers, MarkSent(w)
  PROVE  Inv'
<1> DEFINE i == call[w].id
           r == [row[i] EXCEPT !.status = "sent"]
<1>1. call[w] \in Calls /\ Sound(call[w]) /\ call[w].pc = "mark" /\ i \in Ids \ call[w].todo
  BY CallsType DEF Inv, MarkSent, Sent, At, CallsSound, Sound
<1>2. row' = [row EXCEPT ![i] = r] /\ UNCHANGED <<deleted, retried>>
  BY DEF MarkSent
<1>3. r \in RowType /\ r.attempts = row[i].attempts /\ r.status = "sent"
  BY <1>1 DEF Inv, TypeOK, RowType
<1>4. Becomes(w, Done(call[w]))
  BY DEF MarkSent, Becomes
<1> HIDE DEF r
<1>5. \A j : HoldsC(Done(call[w]), j) => HoldsC(call[w], j)
  BY <1>1, DoneType DEF HoldsC
<1>6. /\ call' \in [Workers -> Calls] /\ CallsSound'
      /\ \A j : Holders(j)' \subseteq Holders(j)
  <2>1. /\ call' \in [Workers -> Calls] /\ CallsSound'
        /\ \A j : ~HoldsC(Done(call[w]), j) => Holders(j)' = Holders(j) \ {w}
        /\ \A j : HoldsC(call[w], j) => Holders(j)' \subseteq Holders(j)
    BY <1>1, <1>4, DoneType, CallStep DEF Inv
  <2> QED
    BY <2>1, <1>5
<1>7. TypeOK'
  BY <1>1, <1>2, <1>3, <1>6 DEF Inv, TypeOK, Calls
<1> HIDE DEF i
<1> QED
  BY <1>1, <1>2, <1>3, <1>6, <1>7, RowStep

\* The failure of a run that holds the delivery: it lets go of it.
LEMMA MarkFailedStep ==
  ASSUME Inv, NEW w \in Workers, MarkFailed(w)
  PROVE  Inv'
<1>1. PICK i \in Ids : /\ i = call[w].id /\ i \notin call[w].todo
                       /\ call[w] \in Calls /\ call[w].pc = "mark"
  BY CallsType DEF Inv, MarkFailed, At, CallsSound, Sound
<1> DEFINE r == Failed(row[i])
<1>2. row' = [row EXCEPT ![i] = r] /\ UNCHANGED <<deleted, retried>>
  BY <1>1 DEF MarkFailed
<1>3. /\ r \in RowType /\ r.attempts = row[i].attempts + 1 /\ row[i].attempts \in Nat
      /\ r.attempts >= MaxAttempts => r.status = "dead"
  BY <1>1, FailedType DEF Inv, TypeOK
<1>4. DeathOf(i) \in [event : Events, of : Channels \cup {None}]
  BY <1>1 DEF DeathOf, Ids
<1>5. \E c \in Calls :
        Becomes(w, c) /\ Sound(c) /\ \A j : HoldsC(c, j) => j \in call[w].todo
  <2>1. CASE LastFailure(row[i]) /\ Reports(i)
    <3>1. Becomes(w, Dispatching(call[w], DeathOf(i)))
      BY <1>1, <2>1 DEF MarkFailed, Becomes
    <3> QED
      BY <3>1, <1>1, <1>4, DispatchType
  <2>2. CASE ~(LastFailure(row[i]) /\ Reports(i))
    <3>1. Becomes(w, Done(call[w]))
      BY <1>1, <2>2 DEF MarkFailed, Becomes
    <3> QED
      BY <3>1, <1>1, DoneType
  <2> QED
    BY <2>1, <2>2
<1>6. PICK c \in Calls :
        Becomes(w, c) /\ Sound(c) /\ \A j : HoldsC(c, j) => j \in call[w].todo
  BY <1>5
<1>7. /\ call' \in [Workers -> Calls] /\ CallsSound'
      /\ \A j : ~HoldsC(c, j) => Holders(j)' = Holders(j) \ {w}
      /\ \A j : HoldsC(call[w], j) => Holders(j)' \subseteq Holders(j)
  BY <1>6, CallStep DEF Inv
<1>8. /\ \A j : Holders(j)' \subseteq Holders(j)
      /\ Holders(i)' = Holders(i) \ {w} /\ w \in Holders(i)
  <2>1. HoldsC(call[w], i) /\ \A j : HoldsC(c, j) => HoldsC(call[w], j)
    BY <1>1, <1>6 DEF HoldsC
  <2>2. ~HoldsC(c, i)
    BY <1>1, <1>6
  <2>3. w \in Holders(i)
    BY <2>1 DEF Holders
  <2> QED
    BY <1>7, <2>1, <2>2, <2>3
<1>9. TypeOK'
  BY <1>1, <1>2, <1>3, <1>7 DEF Inv, TypeOK, Calls
<1> HIDE DEF r
<1>10. ASSUME NEW j \in Ids \ retried
       PROVE  SpentLeaves(j)'
  <2>1. row[j].attempts \in Nat /\ MaxAttempts \in Nat /\ Cardinality(Workers) \in Nat
    BY NotificationAssumption, FS_CardinalityType DEF Inv, TypeOK, RowType
  <2>2. SpentLeaves(j)
    BY DEF Inv, SpentOK
  <2>3. CASE j # i
    <3>1. row'[j] = row[j]
      BY <1>2, <2>3 DEF Inv, TypeOK
    <3>2. /\ Cardinality(Holders(j)') \in Nat /\ Cardinality(Holders(j)) \in Nat
          /\ Cardinality(Holders(j)') <= Cardinality(Holders(j))
      BY <1>8, HoldersCount DEF Holders
    <3> QED
      BY <3>1, <3>2, <2>1, <2>2 DEF SpentLeaves
  <2>4. CASE j = i
    <3>1. row'[j] = r
      BY <1>2, <2>4 DEF Inv, TypeOK
    <3>2. /\ Cardinality(Holders(j)') \in Nat /\ Cardinality(Holders(j)) \in Nat
          /\ Cardinality(Holders(j)') < Cardinality(Holders(j))
          /\ Cardinality(Holders(j)) <= Cardinality(Workers)
      <4>1. Holders(j) \in SUBSET Workers /\ Holders(j)' \in SUBSET Holders(j) /\ Holders(j) # Holders(j)'
        BY <1>8, <2>4 DEF Holders
      <4> QED
        BY <4>1, HoldersCount
    <3> QED
      BY <3>1, <3>2, <2>1, <2>2, <2>4, <1>3 DEF SpentLeaves
  <2> QED
    BY <2>3, <2>4
<1> QED
  BY <1>2, <1>7, <1>9, <1>10 DEF Inv, SpentOK

LEMMA RetryComesStep ==
  ASSUME Inv, NEW i \in Ids, RetryComes(i)
  PROVE  Inv'
<1> DEFINE r == [row[i] EXCEPT !.waits = FALSE]
<1>1. row' = [row EXCEPT ![i] = r] /\ UNCHANGED <<deleted, call, retried>>
  BY DEF RetryComes
<1>2. r \in RowType /\ r.attempts = row[i].attempts /\ r.status = row[i].status
  BY DEF Inv, TypeOK, RowType
<1> HIDE DEF r
<1>3. TypeOK' /\ CallsSound' /\ \A j : Holders(j)' = Holders(j)
  BY <1>1, <1>2 DEF Inv, TypeOK, CallsSound, Holders
<1> QED
  BY <1>1, <1>2, <1>3, RowStep

LEMMA RetryStep ==
  ASSUME Inv, NEW i \in Ids, Retry(i)
  PROVE  Inv'
<1> DEFINE r == [row[i] EXCEPT !.status = "pending", !.waits = FALSE]
<1>1. row' = [row EXCEPT ![i] = r] /\ retried' = retried \cup {i} /\ UNCHANGED <<deleted, call>>
  BY DEF Retry
<1>2. r \in RowType
  BY DEF Inv, TypeOK, RowType
<1> HIDE DEF r
<1>3. TypeOK' /\ CallsSound' /\ \A j : Holders(j)' = Holders(j)
  BY <1>1, <1>2 DEF Inv, TypeOK, CallsSound, Holders
<1> QED
  BY <1>1, <1>2, <1>3, RowStep

LEMMA DeleteChannelStep ==
  ASSUME Inv, NEW c \in Channels, DeleteChannel(c)
  PROVE  Inv'
BY DEF DeleteChannel, Inv, TypeOK, CallsSound, SpentOK, SpentLeaves, Holders

-----------------------------------------------------------------------------
(* The invariant.                                                          *)

LEMMA InitInv == Init => Inv
<1> SUFFICES ASSUME Init PROVE Inv
  OBVIOUS
<1>1. TypeOK
  BY IdleType DEF Init, TypeOK, Calls, NoRow, RowType
<1>2. CallsSound
  BY IdleType DEF Init, CallsSound
<1>3. \A i \in Ids : row[i].attempts = 0
  BY DEF Init, NoRow
<1>4. SpentOK
  BY <1>3, NotificationAssumption DEF SpentOK, SpentLeaves
<1> QED
  BY <1>1, <1>2, <1>4 DEF Inv

LEMMA NextInv == Inv /\ [Next]_vars => Inv'
<1> SUFFICES ASSUME Inv, [Next]_vars PROVE Inv'
  OBVIOUS
<1>1. ASSUME NEW w \in Workers, Works(w) PROVE Inv'
  BY <1>1, SendStep, MarkSentStep, MarkFailedStep, CreateStep DEF Works
<1>2. ASSUME NEW w \in Workers, List(w) \/ Dies(w) \/ \E e \in Events : Emit(w, e) PROVE Inv'
  BY <1>2, ListStep, DiesStep, EmitStep
<1>3. CASE Operator
  BY <1>3, RetryStep, DeleteChannelStep DEF Operator
<1>4. CASE UNCHANGED vars
  BY <1>4 DEF vars, Inv, TypeOK, CallsSound, SpentOK, SpentLeaves, Holders
<1> QED
  BY <1>1, <1>2, <1>3, <1>4, RetryComesStep DEF Next

\* Rows and calls are what the queries of internal/db and the worker of
\* internal/notification take them for.
THEOREM TypeCorrect == Spec => []TypeOK
BY InitInv, NextInv, PTL DEF Spec, Inv

LEMMA InvBounds == Inv => AttemptsBounded
<1> SUFFICES ASSUME Inv, NEW i \in Ids \ retried
             PROVE  row[i].attempts < MaxAttempts + Cardinality(Workers)
  BY DEF AttemptsBounded, Inv
<1>1. /\ row[i].attempts \in Nat /\ MaxAttempts \in Nat /\ Cardinality(Workers) \in Nat
      /\ Cardinality(Holders(i)) \in Nat
  BY NotificationAssumption, FS_CardinalityType, HoldersCount DEF Inv, TypeOK, RowType, Holders
<1>2. SpentLeaves(i)
  BY DEF Inv, SpentOK
<1> QED
  BY <1>1, <1>2 DEF SpentLeaves

\* However the runs of the worker overlap, a delivery that no operator has tried
\* again fails fewer than MaxAttempts times and once for each run: the marks, which
\* ask for no status, add a failure each and the row is not listed any more.
THEOREM KnocksBounded == Spec => []AttemptsBounded
BY InitInv, NextInv, InvBounds, PTL DEF Spec
=============================================================================
