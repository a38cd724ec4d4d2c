----------------------------- MODULE LeasedJobs -----------------------------
(***************************************************************************)
(* What the workflow outbox promises to the code that enqueues into it,    *)
(* with no attempts counter, no lock timestamp and no batch: a job is open *)
(* until it is settled, has at most one owner, and is settled only by the  *)
(* worker that owns it at that moment.                                     *)
(***************************************************************************)
CONSTANTS Events,   \* the jobs
          Workers,  \* whoever may own one
          NoOwner   \* not a worker

VARIABLES job,      \* job[e]: "absent", "open" or "settled"
          owner     \* owner[e]: the worker that may settle e, or NoOwner

jobVars == <<job, owner>>

Init ==
  /\ job = [e \in Events |-> "absent"]
  /\ owner = [e \in Events |-> NoOwner]

Submit(e) ==
  /\ job[e] = "absent"
  /\ job' = [job EXCEPT ![e] = "open"]
  /\ UNCHANGED owner

\* A worker takes any open jobs that nobody owns, several at once.
Take(w, S) ==
  /\ \A e \in S : job[e] = "open" /\ owner[e] = NoOwner
  /\ owner' = [e \in Events |-> IF e \in S THEN w ELSE owner[e]]
  /\ UNCHANGED job

\* Jobs lose their owners: a reclaim, or a worker that gave up.
Revoke(S) ==
  /\ \A e \in S : job[e] = "open"
  /\ owner' = [e \in Events |-> IF e \in S THEN NoOwner ELSE owner[e]]
  /\ UNCHANGED job

\* The owner alone closes the job, or hands it back to be tried again.
Conclude(w, e) ==
  /\ job[e] = "open" /\ owner[e] = w
  /\ job' \in {job, [job EXCEPT ![e] = "settled"]}
  /\ owner' = [owner EXCEPT ![e] = NoOwner]

Next ==
  \/ \E e \in Events : Submit(e)
  \/ \E w \in Workers, S \in SUBSET Events : Take(w, S)
  \/ \E S \in SUBSET Events : Revoke(S)
  \/ \E w \in Workers, e \in Events : Conclude(w, e)

Spec == Init /\ [][Next]_jobVars
=============================================================================
