------------------------ MODULE WorkflowQueueProofs ------------------------
(***************************************************************************)
(* Proofs about WorkflowQueue, for any finite set of events, any set of    *)
(* workers, any batch limit and any number of attempts, crashes and        *)
(* overtaken locks.                                                        *)
(***************************************************************************)
EXTENDS WorkflowQueue, FiniteSetTheorems, TLAPS

USE DEF ClaimedAttempts

\* A claim a call still holds was handed out in the past.
TokensPast ==
  \A w \in Workers : \A c \in batch[w] : c.attempts <= attempts[c.event]

\* No claim was handed out twice.
TokensUnique ==
  \A v, w \in Workers : \A c \in batch[v] : c \in batch[w] => v = w

\* The loop handles what is in its batch, and has one only while it loops.
LoopOK ==
  \A w \in Workers :
    /\ current[w] \subseteq batch[w]
    /\ phase[w] \in {"idle", "reclaimed"} => batch[w] = {}

\* OneOwner says nothing of rows that are not running, so it does not survive
\* a reclaim followed by a claim; TokensPast and TokensUnique do.
Inv == TypeOK /\ TokensPast /\ TokensUnique /\ LoopOK

-----------------------------------------------------------------------------
LEMMA InitInv == Init => Inv
<1> SUFFICES ASSUME Init PROVE Inv
  OBVIOUS
<1>1. TypeOK
  BY DEF Init, TypeOK, Settled, Claims
<1>2. TokensPast /\ TokensUnique /\ LoopOK
  BY DEF Init, TokensPast, TokensUnique, LoopOK
<1> QED
  BY <1>1, <1>2 DEF Inv

\* Steps that touch neither a batch nor an attempts counter.
LEMMA RowStepInv ==
  ASSUME Inv, TypeOK',
         UNCHANGED <<attempts, batch, current>>,
         \A w \in Workers : phase'[w] \in {"idle", "reclaimed"} => batch[w] = {}
  PROVE  Inv'
<1>1. TokensPast'
  BY DEF Inv, TokensPast
<1>2. TokensUnique'
  BY DEF Inv, TokensUnique
<1>3. LoopOK'
  BY DEF Inv, LoopOK
<1> QED
  BY <1>1, <1>2, <1>3 DEF Inv

\* Steps by which a call only forgets claims.
LEMMA ForgetInv ==
  ASSUME Inv, TypeOK', NEW w \in Workers,
         UNCHANGED attempts,
         \A v \in Workers : batch'[v] \subseteq batch[v],
         \A v \in Workers : v # w => current'[v] = current[v] /\ batch'[v] = batch[v]
                                     /\ phase'[v] = phase[v],
         current'[w] \subseteq batch'[w],
         phase'[w] \in {"idle", "reclaimed"} => batch'[w] = {}
  PROVE  Inv'
<1>1. TokensPast'
  BY DEF Inv, TokensPast
<1>2. TokensUnique'
  BY DEF Inv, TokensUnique
<1>3. LoopOK'
  BY DEF Inv, LoopOK
<1> QED
  BY <1>1, <1>2, <1>3 DEF Inv

LEMMA LeaveInv ==
  ASSUME Inv, NEW w \in Workers, Leave(w)
  PROVE  Inv'
<1>1. TypeOK'
  BY DEF Inv, TypeOK, Leave, rowVars
<1>2. /\ UNCHANGED attempts
      /\ batch'[w] = {} /\ current'[w] = {}
      /\ \A v \in Workers : v # w => current'[v] = current[v] /\ batch'[v] = batch[v]
                                     /\ phase'[v] = phase[v]
      /\ \A v \in Workers : batch'[v] \subseteq batch[v]
  BY DEF Inv, TypeOK, Leave, rowVars
<1> QED
  BY <1>1, <1>2, ForgetInv

\* A mark: one row changes, one claim leaves the batch.
LEMMA MarkInv ==
  ASSUME Inv, NEW w \in Workers, NEW c \in current[w], TypeOK',
         UNCHANGED attempts, NextInBatch(w, c)
  PROVE  Inv'
<1>1. /\ batch'[w] = batch[w] \ {c} /\ current'[w] = {}
      /\ \A v \in Workers : v # w => current'[v] = current[v] /\ batch'[v] = batch[v]
                                     /\ phase'[v] = phase[v]
      /\ \A v \in Workers : batch'[v] \subseteq batch[v]
  BY DEF Inv, TypeOK, NextInBatch
<1>2. phase'[w] \in {"idle", "reclaimed"} => batch'[w] = {}
  BY <1>1 DEF Inv, TypeOK, NextInBatch
<1> QED
  BY <1>1, <1>2, ForgetInv

\* The claim query: new tokens are larger than every token still held.
LEMMA ClaimInv ==
  ASSUME Inv, NEW w \in Workers, Claim(w)
  PROVE  Inv'
<1> DEFINE New == {[event |-> e, attempts |-> attempts[e] + 1] : e \in Oldest}
<1>1. Oldest \subseteq Events
  BY DEF Oldest, Claimable
<1>2. New \subseteq Claims
  BY <1>1 DEF Inv, TypeOK, Claims
<1>3. /\ batch'[w] = New
      /\ \A v \in Workers : v # w => batch'[v] = batch[v]
      /\ current' = current
      /\ \A v \in Workers : v # w => phase'[v] = phase[v]
      /\ \A e \in Events : attempts'[e] = IF e \in Oldest THEN attempts[e] + 1 ELSE attempts[e]
  BY DEF Inv, TypeOK, Claim
<1>4. TypeOK'
  <2>1. attempts' \in [Events -> Nat]
    BY <1>1 DEF Inv, TypeOK, Claim
  <2>2. batch' \in [Workers -> SUBSET Claims]
    BY <1>2 DEF Inv, TypeOK, Claim
  <2>3. /\ status' \in [Events -> {"absent", "pending", "running"} \cup Settled]
        /\ lockStale' \in [Events -> BOOLEAN]
        /\ phase' \in [Workers -> {"idle", "reclaimed", "looping", "handling"}]
    BY DEF Inv, TypeOK, Claim
  <2> QED
    BY <2>1, <2>2, <2>3 DEF Inv, TypeOK, Claim
<1>5. \A v \in Workers : \A c \in batch[v] :
         c.event \in Events /\ c.attempts \in Nat /\ attempts[c.event] \in Nat
         /\ c.attempts <= attempts[c.event]
  BY DEF Inv, TypeOK, TokensPast, Claims
<1>6. \A c \in New : c.event \in Oldest /\ c.attempts = attempts[c.event] + 1
  OBVIOUS
<1>7. TokensPast'
  <2>1. \A c \in New : c.attempts <= attempts'[c.event]
    <3> SUFFICES ASSUME NEW c \in New PROVE c.attempts <= attempts'[c.event]
      OBVIOUS
    <3>1. c.event \in Oldest /\ c.attempts = attempts[c.event] + 1
      BY <1>6
    <3>2. c.event \in Events /\ attempts[c.event] \in Nat
      BY <1>1, <3>1 DEF Inv, TypeOK
    <3> QED
      BY <1>3, <3>1, <3>2
  <2>2. ASSUME NEW v \in Workers, NEW c \in batch[v]
        PROVE  c.attempts <= attempts'[c.event]
    <3>1. /\ c.event \in Events /\ c.attempts \in Nat /\ attempts[c.event] \in Nat
          /\ c.attempts <= attempts[c.event]
      BY <1>5
    <3>2. attempts'[c.event] = attempts[c.event] \/ attempts'[c.event] = attempts[c.event] + 1
      BY <1>3, <3>1
    <3> QED
      BY <3>1, <3>2
  <2> QED
    BY <1>3, <2>1, <2>2 DEF TokensPast
<1>8. \A v \in Workers : \A c \in batch[v] : c \notin New
  BY <1>5, <1>6
<1>9. TokensUnique'
  BY <1>3, <1>8 DEF Inv, TokensUnique
<1>10. LoopOK'
  <2>1. batch[w] = {} /\ current[w] = {}
    BY DEF Inv, LoopOK, Claim
  <2>2. phase'[w] \in {"idle", "reclaimed"} => New = {}
    BY DEF Inv, TypeOK, Claim
  <2> QED
    BY <1>3, <2>1, <2>2 DEF Inv, LoopOK
<1> QED
  BY <1>4, <1>7, <1>9, <1>10 DEF Inv

LEMMA NextInv == Inv /\ [Next]_vars => Inv'
<1> SUFFICES ASSUME Inv, [Next]_vars PROVE Inv'
  OBVIOUS
<1> USE DEF Settled
<1>1. ASSUME NEW e \in Events, NEW later \in BOOLEAN, Enqueue(e, later) PROVE Inv'
  <2>1. Cardinality(Stored) \in Nat
    BY QueueAssumption, FS_Subset, FS_CardinalityType DEF Stored
  <2>2. TypeOK'
    BY <1>1, <2>1 DEF Inv, TypeOK, Enqueue, callVars
  <2> QED
    BY <1>1, <2>2, RowStepInv DEF Inv, LoopOK, Enqueue, callVars
<1>2. ASSUME NEW e \in Events, BecomeDue(e) PROVE Inv'
  <2>1. TypeOK'
    BY <1>2 DEF Inv, TypeOK, BecomeDue, callVars
  <2> QED
    BY <1>2, <2>1, RowStepInv DEF Inv, LoopOK, BecomeDue, callVars
<1>3. ASSUME NEW e \in Events, LockExpire(e) PROVE Inv'
  <2>1. TypeOK'
    BY <1>3 DEF Inv, TypeOK, LockExpire, callVars
  <2> QED
    BY <1>3, <2>1, RowStepInv DEF Inv, LoopOK, LockExpire, callVars
<1>4. ASSUME NEW w \in Workers, Reclaim(w) PROVE Inv'
  <2>1. TypeOK'
    BY <1>4 DEF Inv, TypeOK, Reclaim
  <2>2. \A v \in Workers : phase'[v] \in {"idle", "reclaimed"} => batch[v] = {}
    BY <1>4 DEF Inv, TypeOK, LoopOK, Reclaim
  <2> QED
    BY <1>4, <2>1, <2>2, RowStepInv DEF Reclaim
<1>5. ASSUME NEW w \in Workers, Claim(w) PROVE Inv'
  BY <1>5, ClaimInv
<1>6. ASSUME NEW w \in Workers, NEW c \in batch[w], StartHandler(w, c) PROVE Inv'
  <2>1. TypeOK'
    BY <1>6 DEF Inv, TypeOK, StartHandler, rowVars
  <2>2. /\ UNCHANGED <<attempts, batch>>
        /\ current'[w] \subseteq batch'[w]
        /\ phase'[w] = "handling"
        /\ \A v \in Workers : v # w => current'[v] = current[v] /\ phase'[v] = phase[v]
    BY <1>6 DEF Inv, TypeOK, StartHandler, rowVars
  <2> QED
    BY <2>1, <2>2, ForgetInv
<1>7. ASSUME NEW w \in Workers, NEW c \in current[w], NEW outcome \in Settled,
             MarkSettled(w, c, outcome)
      PROVE  Inv'
  <2>1. TypeOK'
    BY <1>7 DEF Inv, TypeOK, MarkSettled, NextInBatch
  <2> QED
    BY <1>7, <2>1, MarkInv DEF MarkSettled
<1>8. ASSUME NEW w \in Workers, NEW c \in current[w], MarkFailed(w, c) PROVE Inv'
  <2>1. TypeOK'
    BY <1>8 DEF Inv, TypeOK, MarkFailed, NextInBatch, StatusAfterFailure
  <2> QED
    BY <1>8, <2>1, MarkInv DEF MarkFailed
<1>9. ASSUME NEW w \in Workers, NEW c \in current[w], MarkLost(w, c) PROVE Inv'
  BY <1>9, LeaveInv DEF MarkLost
<1>10. ASSUME NEW w \in Workers, Abandon(w) PROVE Inv'
  BY <1>10, LeaveInv DEF Abandon
<1>11. ASSUME NEW w \in Workers, NEW c \in current[w], Heartbeat(w, c) PROVE Inv'
  <2>1. TypeOK'
    BY <1>11 DEF Inv, TypeOK, Heartbeat, callVars
  <2> QED
    BY <1>11, <2>1, RowStepInv DEF Inv, LoopOK, Heartbeat, callVars
<1>12. CASE UNCHANGED vars
  BY <1>12 DEF vars, Inv, TypeOK, TokensPast, TokensUnique, LoopOK
<1> QED
  BY <1>1, <1>2, <1>3, <1>4, <1>5, <1>6, <1>7, <1>8, <1>9, <1>10, <1>11, <1>12
     DEF Next, Process

\* Type correctness of the outbox and its workers.
THEOREM TypeCorrect == Spec => []TypeOK
<1>1. Inv => TypeOK
  BY DEF Inv
<1> QED
  BY InitInv, NextInv, <1>1, PTL DEF Spec

\* The attempts counter fences: however calls overlap, die and are overtaken,
\* at most one can still mark an event.
THEOREM AtMostOneOwner == Spec => []OneOwner
<1>1. Inv => OneOwner
  BY DEF Inv, TokensUnique, OneOwner, Owns
<1> QED
  BY InitInv, NextInv, <1>1, PTL DEF Spec
-----------------------------------------------------------------------------
(* Properties of steps.  A mark takes an event only from its owner, because *)
(* the fence it passes holds for one claim alone.                           *)

\* A mark of c by v leaves every claim alone that is not c itself.
LEMMA MarkSparesOthers ==
  ASSUME Inv, NEW v \in Workers, NEW c \in current[v], FenceHolds(c),
         NEW s \in {"pending", "succeeded", "dead"},
         status' = [status EXCEPT ![c.event] = s],
         UNCHANGED attempts, NextInBatch(v, c),
         NEW w \in Workers, NEW e \in Events, Owns(w, e), batch'[w] = batch[w]
  PROVE  Owns(w, e)'
<1>1. c \in batch[v] /\ c \in Claims
  BY DEF Inv, LoopOK, TypeOK
<1>2. batch'[v] = batch[v] \ {c}
  BY DEF Inv, TypeOK, NextInBatch
<1>3. v # w
  BY <1>1, <1>2
<1>4. c.event # e
  <2> SUFFICES ASSUME c.event = e PROVE FALSE
    OBVIOUS
  <2>1. c = [event |-> e, attempts |-> attempts[e]]
    BY <1>1 DEF FenceHolds, Claims
  <2>2. c \in batch[w]
    BY <2>1 DEF Owns
  <2> QED
    BY <1>1, <1>3, <2>2 DEF Inv, TokensUnique
<1> QED
  BY <1>4 DEF Inv, TypeOK, Owns

\* One step of the queue never settles or hands on what another call owns.
LEMMA StepSparesOwners ==
  ASSUME Inv, [Next]_vars,
         NEW w \in Workers, NEW e \in Events,
         Owns(w, e), batch'[w] = batch[w], ~lockStale[e]
  PROVE  Owns(w, e)'
<1> USE DEF Settled
<1>1. ASSUME NEW f \in Events,
             (\E later \in BOOLEAN : Enqueue(f, later)) \/ BecomeDue(f) \/ LockExpire(f)
      PROVE  Owns(w, e)'
  BY <1>1 DEF Enqueue, BecomeDue, LockExpire, callVars, Owns, Inv, TypeOK
<1>2. ASSUME NEW v \in Workers, Reclaim(v) PROVE Owns(w, e)'
  BY <1>2 DEF Reclaim, Reclaimable, Owns, Inv, TypeOK
<1>3. ASSUME NEW v \in Workers, Claim(v) PROVE Owns(w, e)'
  <2>1. e \notin Oldest
    BY DEF Oldest, Claimable, Owns
  <2> QED
    BY <1>3, <2>1 DEF Claim, Owns, Inv, TypeOK
<1>4. ASSUME NEW v \in Workers, NEW c \in batch[v], StartHandler(v, c) PROVE Owns(w, e)'
  BY <1>4 DEF StartHandler, rowVars, Owns
<1>5. ASSUME NEW v \in Workers, NEW c \in current[v], NEW outcome \in Settled,
             MarkSettled(v, c, outcome)
      PROVE  Owns(w, e)'
  BY <1>5, MarkSparesOthers DEF MarkSettled
<1>6. ASSUME NEW v \in Workers, NEW c \in current[v], MarkFailed(v, c) PROVE Owns(w, e)'
  BY <1>6, MarkSparesOthers DEF MarkFailed, StatusAfterFailure
<1>7. ASSUME NEW v \in Workers, NEW c \in current[v], MarkLost(v, c) PROVE Owns(w, e)'
  BY <1>7 DEF MarkLost, Leave, rowVars, Owns
<1>8. ASSUME NEW v \in Workers, Abandon(v) PROVE Owns(w, e)'
  BY <1>8 DEF Abandon, Leave, rowVars, Owns
<1>9. ASSUME NEW v \in Workers, NEW c \in current[v], Heartbeat(v, c) PROVE Owns(w, e)'
  BY <1>9 DEF Heartbeat, callVars, Owns
<1>10. CASE UNCHANGED vars
  BY <1>10 DEF vars, Owns
<1> QED
  BY <1>1, <1>2, <1>3, <1>4, <1>5, <1>6, <1>7, <1>8, <1>9, <1>10 DEF Next, Process

\* While its lock is fresh, an event cannot be settled or passed on behind the
\* back of the call that owns it.
THEOREM OwnersAreSafe == Spec => NoSettleByOthers
<1>1. Inv /\ [Next]_vars =>
        [\A w \in Workers, e \in Events :
           Owns(w, e) /\ (batch'[w] = batch[w]) /\ ~lockStale[e] => Owns(w, e)']_vars
  BY StepSparesOwners
<1> QED
  BY InitInv, NextInv, <1>1, PTL DEF Spec, NoSettleByOthers

\* Once succeeded or dead, an event keeps that status for ever.
LEMMA StepKeepsSettled ==
  ASSUME Inv, [Next]_vars, NEW e \in Events, status[e] \in Settled
  PROVE  status'[e] = status[e]
<1> USE DEF Settled
<1>1. ASSUME NEW f \in Events,
             (\E later \in BOOLEAN : Enqueue(f, later)) \/ BecomeDue(f) \/ LockExpire(f)
      PROVE  status'[e] = status[e]
  BY <1>1 DEF Enqueue, BecomeDue, LockExpire, Inv, TypeOK
<1>2. ASSUME NEW v \in Workers, Reclaim(v) PROVE status'[e] = status[e]
  BY <1>2 DEF Reclaim, Reclaimable, Inv, TypeOK
<1>3. ASSUME NEW v \in Workers, Claim(v) PROVE status'[e] = status[e]
  BY <1>3 DEF Claim, Oldest, Claimable, Inv, TypeOK
<1>4. ASSUME NEW v \in Workers, NEW c \in current[v],
             (\E outcome \in Settled : MarkSettled(v, c, outcome)) \/ MarkFailed(v, c)
      PROVE  status'[e] = status[e]
  BY <1>4 DEF MarkSettled, MarkFailed, FenceHolds, Inv, TypeOK
<1>5. ASSUME NEW v \in Workers,
             \/ Abandon(v)
             \/ \E c \in batch[v] : StartHandler(v, c)
             \/ \E c \in current[v] : MarkLost(v, c) \/ Heartbeat(v, c)
      PROVE  status'[e] = status[e]
  BY <1>5 DEF Abandon, StartHandler, MarkLost, Heartbeat, Leave, rowVars
<1>6. CASE UNCHANGED vars
  BY <1>6 DEF vars
<1> QED
  BY <1>1, <1>2, <1>3, <1>4, <1>5, <1>6 DEF Next, Process

\* Neither a late mark nor a reclaim brings a settled event back.
THEOREM SettledStays == Spec => SettledForever
<1>1. Inv /\ [Next]_vars =>
        [\A e \in Events : status[e] \in Settled => status'[e] = status[e]]_vars
  BY StepKeepsSettled
<1> QED
  BY InitInv, NextInv, <1>1, PTL DEF Spec, SettledForever

-----------------------------------------------------------------------------
(* Refinement: the outbox implements LeasedJobs.                           *)

LEMMA OwnerIsUnique ==
  ASSUME Inv, NEW w \in Workers, NEW e \in Events, Owns(w, e)
  PROVE  OwnerOf(e) = w
<1> DEFINE o == CHOOSE v \in Workers : Owns(v, e)
<1>1. o \in Workers /\ Owns(o, e)
  OBVIOUS
<1>2. o = w
  BY <1>1 DEF Inv, TokensUnique, Owns
<1> QED
  BY <1>2 DEF OwnerOf

\* The same of the state after a step.
LEMMA NextOwnerIsUnique ==
  ASSUME Inv', NEW w \in Workers, NEW e \in Events, Owns(w, e)'
  PROVE  OwnerOf(e)' = w
<1>1. \A v \in Workers : Owns(v, e)' => v = w
  BY DEF Inv, TokensUnique, Owns
<1> QED
  BY <1>1 DEF OwnerOf

\* A step that gives nobody an event and changes no job can only take events
\* from their owners.
LEMMA RevokeStep ==
  ASSUME Inv, Inv',
         \A e \in Events : JobOf(e)' = JobOf(e),
         \A w \in Workers, e \in Events : Owns(w, e)' => Owns(w, e)
  PROVE  \E S \in SUBSET Events : Promise!Revoke(S)
<1> DEFINE S == {e \in Events : (\E w \in Workers : Owns(w, e))
                                /\ ~ \E w \in Workers : Owns(w, e)'}
<1>1. \A e \in S : JobOf(e) = "open"
  BY DEF Owns, JobOf, Settled
<1>2. ASSUME NEW e \in Events
      PROVE  OwnerOf(e)' = IF e \in S THEN NoOwner ELSE OwnerOf(e)
  <2>1. CASE \E w \in Workers : Owns(w, e)'
    <3>1. PICK w \in Workers : Owns(w, e)'
      BY <2>1
    <3>2. OwnerOf(e)' = w
      BY <3>1, NextOwnerIsUnique
    <3>3. OwnerOf(e) = w
      BY <3>1, OwnerIsUnique
    <3> QED
      BY <2>1, <3>2, <3>3
  <2>2. CASE ~ \E w \in Workers : Owns(w, e)'
    <3>1. OwnerOf(e)' = NoOwner
      BY <2>2 DEF OwnerOf
    <3>2. e \notin S => OwnerOf(e) = NoOwner
      BY <2>2 DEF OwnerOf
    <3> QED
      BY <3>1, <3>2
  <2> QED
    BY <2>1, <2>2
<1>3. Promise!Revoke(S)
  BY <1>1, <1>2 DEF Promise!Revoke
<1> QED
  BY <1>3

\* The mark of a current claim concludes its event.
LEMMA ConcludeStep ==
  ASSUME Inv, Inv', NEW w \in Workers, NEW c \in current[w], FenceHolds(c),
         NEW s \in {"pending", "succeeded", "dead"},
         status' = [status EXCEPT ![c.event] = s],
         UNCHANGED attempts, NextInBatch(w, c)
  PROVE  \E v \in Workers, e \in Events : Promise!Conclude(v, e)
<1> DEFINE e == c.event
<1>1. c \in batch[w] /\ c \in Claims /\ e \in Events /\ status[e] = "running"
  BY DEF Inv, LoopOK, TypeOK, Claims, FenceHolds
<1>2. Owns(w, e)
  <2>1. c = [event |-> e, attempts |-> attempts[e]]
    BY <1>1 DEF FenceHolds, Claims
  <2> QED
    BY <1>1, <2>1 DEF Owns
<1>3. OwnerOf(e) = w /\ JobOf(e) = "open"
  BY <1>1, <1>2, OwnerIsUnique DEF JobOf, Settled
<1>4. status'[e] = s /\ \A f \in Events : f # e => status'[f] = status[f]
  BY <1>1 DEF Inv, TypeOK
<1>5. OwnerOf(e)' = NoOwner
  BY <1>4 DEF OwnerOf, Owns
<1>6. JobOf(e)' = IF s = "pending" THEN "open" ELSE "settled"
  BY <1>4 DEF JobOf, Settled
<1>7. ASSUME NEW f \in Events, f # e
      PROVE  JobOf(f)' = JobOf(f) /\ OwnerOf(f)' = OwnerOf(f)
  <2>1. \A v \in Workers : Owns(v, f)' <=> Owns(v, f)
    <3> SUFFICES ASSUME NEW v \in Workers PROVE Owns(v, f)' <=> Owns(v, f)
      OBVIOUS
    <3>1. [event |-> f, attempts |-> attempts[f]] # c
      BY <1>7
    <3>2. batch'[v] = IF v = w THEN batch[v] \ {c} ELSE batch[v]
      BY DEF Inv, TypeOK, NextInBatch
    <3> QED
      BY <1>4, <1>7, <3>1, <3>2 DEF Owns
  <2>2. OwnerOf(f)' = OwnerOf(f)
    BY <2>1 DEF OwnerOf
  <2>3. JobOf(f)' = JobOf(f)
    BY <1>4, <1>7 DEF JobOf
  <2> QED
    BY <2>2, <2>3
<1>8. Promise!Conclude(w, e)
  <2> DEFINE J == [f \in Events |-> JobOf(f)]
             O == [f \in Events |-> OwnerOf(f)]
  <2>1. J[e] = "open" /\ O[e] = w
    BY <1>1, <1>3
  <2>2. O' = [O EXCEPT ![e] = NoOwner]
    BY <1>1, <1>5, <1>7
  <2>3. J' = IF s = "pending" THEN J ELSE [J EXCEPT ![e] = "settled"]
    BY <1>1, <1>3, <1>6, <1>7
  <2> QED
    BY <2>1, <2>2, <2>3 DEF Promise!Conclude
<1> QED
  BY <1>1, <1>8

LEMMA TakeStep ==
  ASSUME Inv, Inv', NEW w \in Workers, Claim(w)
  PROVE  \E S \in SUBSET Events : Promise!Take(w, S)
<1>1. Oldest \subseteq Events /\ \A e \in Oldest : status[e] = "pending"
  BY DEF Oldest, Claimable
<1>2. batch[w] = {}
  BY DEF Inv, LoopOK, Claim
<1>3. /\ batch'[w] = {[event |-> e, attempts |-> attempts[e] + 1] : e \in Oldest}
      /\ \A v \in Workers : v # w => batch'[v] = batch[v]
      /\ \A e \in Events : /\ status'[e] = IF e \in Oldest THEN "running" ELSE status[e]
                           /\ attempts'[e] = IF e \in Oldest THEN attempts[e] + 1
                                                             ELSE attempts[e]
  BY DEF Inv, TypeOK, Claim
<1>4. ASSUME NEW e \in Oldest
      PROVE  JobOf(e) = "open" /\ JobOf(e)' = "open" /\ OwnerOf(e) = NoOwner /\ OwnerOf(e)' = w
  <2>1. e \in Events /\ status[e] = "pending" /\ status'[e] = "running"
        /\ attempts'[e] = attempts[e] + 1
    BY <1>1, <1>3
  <2>2. OwnerOf(e) = NoOwner
    BY <2>1 DEF OwnerOf, Owns
  <2>3. Owns(w, e)'
    BY <1>3, <2>1 DEF Owns
  <2>4. OwnerOf(e)' = w
    BY <2>1, <2>3, NextOwnerIsUnique
  <2> QED
    BY <2>1, <2>2, <2>4 DEF JobOf, Settled
<1>5. ASSUME NEW e \in Events, e \notin Oldest
      PROVE  JobOf(e)' = JobOf(e) /\ OwnerOf(e)' = OwnerOf(e)
  <2>1. status'[e] = status[e] /\ attempts'[e] = attempts[e]
    BY <1>3, <1>5
  <2>2. [event |-> e, attempts |-> attempts[e]] \notin batch'[w]
    BY <1>3, <1>5
  <2>3. \A v \in Workers : Owns(v, e)' <=> Owns(v, e)
    BY <1>2, <1>3, <2>1, <2>2 DEF Owns
  <2>4. OwnerOf(e)' = OwnerOf(e)
    BY <2>3 DEF OwnerOf
  <2> QED
    BY <2>1, <2>4 DEF JobOf
<1>6. Promise!Take(w, Oldest)
  BY <1>1, <1>4, <1>5 DEF Promise!Take
<1> QED
  BY <1>1, <1>6

LEMMA NextRefines ==
  ASSUME Inv, Inv', Next
  PROVE  Promise!Next
<1> USE DEF Settled
<1>1. ASSUME NEW e \in Events, NEW later \in BOOLEAN, Enqueue(e, later) PROVE Promise!Next
  <2>1. /\ status[e] = "absent" /\ status'[e] = "pending"
        /\ \A f \in Events : f # e => status'[f] = status[f]
    BY <1>1 DEF Enqueue, Inv, TypeOK
  <2>2. \A f \in Events : JobOf(f)' = IF f = e THEN "open" ELSE JobOf(f)
    BY <2>1 DEF JobOf
  <2>3. \A v \in Workers, f \in Events : Owns(v, f)' <=> Owns(v, f)
    BY <1>1, <2>1 DEF Enqueue, callVars, Owns
  <2>4. \A f \in Events : OwnerOf(f)' = OwnerOf(f)
    BY <2>3 DEF OwnerOf
  <2>5. JobOf(e) = "absent"
    BY <2>1 DEF JobOf
  <2>6. Promise!Submit(e)
    BY <2>2, <2>4, <2>5 DEF Promise!Submit
  <2> QED
    BY <2>6 DEF Promise!Next
<1>2. ASSUME NEW w \in Workers, Claim(w) PROVE Promise!Next
  BY <1>2, TakeStep DEF Promise!Next
<1>3. ASSUME NEW w \in Workers, NEW c \in current[w],
             (\E outcome \in Settled : MarkSettled(w, c, outcome)) \/ MarkFailed(w, c)
      PROVE  Promise!Next
  <2>1. CASE \E outcome \in Settled : MarkSettled(w, c, outcome)
    BY <2>1, ConcludeStep DEF MarkSettled, Promise!Next
  <2>2. CASE MarkFailed(w, c)
    BY <2>2, ConcludeStep DEF MarkFailed, StatusAfterFailure, Promise!Next
  <2> QED
    BY <1>3, <2>1, <2>2
<1>4. ASSUME NEW e \in Events, BecomeDue(e) \/ LockExpire(e) PROVE Promise!Next
  <2>1. UNCHANGED <<status, attempts, batch>>
    BY <1>4 DEF BecomeDue, LockExpire, callVars
  <2> QED
    BY <2>1, RevokeStep DEF JobOf, Owns, Promise!Next
<1>5. ASSUME NEW w \in Workers, Reclaim(w) PROVE Promise!Next
  <2>1. /\ UNCHANGED <<attempts, batch>>
        /\ \A e \in Events : \/ status'[e] = status[e]
                             \/ status[e] = "running" /\ status'[e] = "pending"
    BY <1>5 DEF Reclaim, Reclaimable, Inv, TypeOK
  <2> QED
    BY <2>1, RevokeStep DEF JobOf, Owns, Promise!Next
<1>6. ASSUME NEW w \in Workers,
             \/ Abandon(w)
             \/ \E c \in batch[w] : StartHandler(w, c)
             \/ \E c \in current[w] : MarkLost(w, c) \/ Heartbeat(w, c)
      PROVE  Promise!Next
  <2>1. UNCHANGED <<status, attempts>>
    BY <1>6 DEF Abandon, StartHandler, MarkLost, Heartbeat, Leave, rowVars
  <2>2. \A v \in Workers : batch'[v] \subseteq batch[v]
    BY <1>6 DEF Abandon, StartHandler, MarkLost, Heartbeat, Leave, callVars, Inv, TypeOK
  <2> QED
    BY <2>1, <2>2, RevokeStep DEF JobOf, Owns, Promise!Next
<1> QED
  BY <1>1, <1>2, <1>3, <1>4, <1>5, <1>6 DEF Next, Process

\* The outbox keeps the promise LeasedJobs makes to those who enqueue.
THEOREM Refinement == Spec => KeepsPromise
<1>1. Init => Promise!Init
  BY DEF Init, Promise!Init, JobOf, OwnerOf, Owns
<1>2. Inv /\ Inv' /\ [Next]_vars => [Promise!Next]_Promise!jobVars
  <2> SUFFICES ASSUME Inv, Inv', [Next]_vars PROVE [Promise!Next]_Promise!jobVars
    OBVIOUS
  <2>1. CASE Next
    BY <2>1, NextRefines
  <2>2. CASE UNCHANGED vars
    BY <2>2 DEF vars, Promise!jobVars, JobOf, OwnerOf, Owns
  <2> QED
    BY <2>1, <2>2
<1> QED
  BY InitInv, NextInv, <1>1, <1>2, PTL DEF Spec, KeepsPromise, Promise!Spec
=============================================================================
