--------------------------- MODULE ArbitratedWork ---------------------------
(***************************************************************************)
(* What arbitration promises about canonical work, with no snapshot, no    *)
(* bucket version and no retry: a piece of work is reserved at one moment, *)
(* compared with all the work that is active at that moment, and never     *)
(* where the same work is active or was dismissed on the same evidence.    *)
(***************************************************************************)
CONSTANTS Evidence,    \* evidence e is for the candidate e.cand
          Works,       \* ids of work signatures
          Hash,        \* Hash[c]: the exact signature of a candidate
          Keys,        \* Keys[c]: its conflict buckets
          NoWork       \* the entry of an id that is not in use

VARIABLES work,        \* work[i]: an enforced work signature
          memory       \* evidence that a reviewer has dismissed

Active(i) == work[i].state = "active"
ActiveOver(c) ==
  {[id |-> i, evidence |-> work[i].evidence] :
     i \in {j \in Works : Active(j) /\ Keys[work[j].from.cand] \cap Keys[c] # {}}}

\* The same work as c's is under way.
Claimed(c) == \E i \in Works : Active(i) /\ Hash[work[i].from.cand] = Hash[c]

Init ==
  /\ work = [i \in Works |-> NoWork]
  /\ memory = {}

\* New work on evidence e.
Reserve(i, e) ==
  /\ work[i] = NoWork
  /\ ~Claimed(e.cand)
  /\ e \notin memory
  /\ work' = [work EXCEPT ![i] =
       [state |-> "active", from |-> e, evidence |-> e, against |-> ActiveOver(e.cand)]]
  /\ UNCHANGED memory

\* Evidence for work that is under way.
Merge(i, e) ==
  /\ Active(i)
  /\ work' = [work EXCEPT ![i].evidence = e]
  /\ UNCHANGED memory

\* Work has ended: its fix is verified, has failed for good or is given up.
Release(i) ==
  /\ Active(i)
  /\ work' = [work EXCEPT ![i].state = "released"]
  /\ UNCHANGED memory

\* A dismissal is remembered, one for an exact signature, while no such work is
\* under way.
Dismiss(e) ==
  /\ ~Claimed(e.cand)
  /\ memory' = {m \in memory : Hash[m.cand] # Hash[e.cand]} \cup {e}
  /\ UNCHANGED work

Next ==
  \/ \E i \in Works, e \in Evidence : Reserve(i, e) \/ Merge(i, e)
  \/ \E i \in Works : Release(i)
  \/ \E e \in Evidence : Dismiss(e)

Spec == Init /\ [][Next]_<<work, memory>>
=============================================================================
