-------------------------- MODULE WorkReservation --------------------------
(***************************************************************************)
(* How canonical work comes into being.  Growth and Doctor propose         *)
(* candidates; arbitration compares a candidate with the work and the      *)
(* dismissals that share a conflict bucket with it, outside any            *)
(* transaction because a language model may be asked (phase A), and a      *)
(* short serializable transaction then reserves or merges, if nothing has  *)
(* changed (phase B).  Buckets carry versions, which every change of the   *)
(* work in them increments; a call told that its snapshot is stale starts  *)
(* phase A again, three times in all.                                      *)
(*                                                                         *)
(* A serializable transaction is one step.  The lease that lets one of     *)
(* several Doctor calls prepare is left out (more interleavings), and so   *)
(* are writer authority, snoozes and aliases of older signatures.          *)
(***************************************************************************)
EXTENDS Integers, FiniteSets

CONSTANTS Candidates,  \* what the two product lines propose
          Buckets,     \* conflict buckets
          Editions,    \* versions of a candidate
          Works,       \* ids of work signatures
          Workers,     \* calls under way at once
          Line,        \* Line[c]: "growth" or "doctor"
          Hash,        \* Hash[c]: its exact signature
          Keys,        \* Keys[c]: its conflict buckets
          Dependency,  \* Dependency[c][d] of growth work c on doctor work d
          Attempts,    \* phase A and B are tried so often
          None

\* The signature names both the exact hash and the buckets, so equal hashes have
\* equal buckets; a dependency is between the lines.
ASSUME ReservationAssumption ==
  /\ Editions \subseteq Nat \ {0} /\ 1 \in Editions
  /\ Line \in [Candidates -> {"growth", "doctor"}]
  /\ Keys \in [Candidates -> SUBSET Buckets]
  /\ \A c \in Candidates : Keys[c] # {}
  /\ \A c, d \in Candidates : Hash[c] = Hash[d] => Keys[c] = Keys[d]
  /\ Dependency \in [Candidates -> [Candidates -> {"hard", "soft", "none"}]]
  /\ \A c, d \in Candidates : Line[c] = Line[d] => Dependency[c][d] = "none"
  /\ Attempts \in Nat \ {0}
  /\ None \notin Candidates

VARIABLES version,   \* version[b]: bucket_version
          edition,   \* edition[c]: candidate_version, which its evidence moves
          work,      \* work[i]: a row of work_signature_registry
          memory,    \* evidence of the active dismissals, work_review_memory
          item,      \* item[c]: what the open review item of c expects
          call       \* call[w]: a call of CreateOpportunity or CreateFromFinding

vars == <<version, edition, work, memory, item, call>>

Evidence == [cand : Candidates, edition : Editions]
NoEvidence == [cand |-> None, edition |-> 0]

\* "against" is history: what phase A had compared the work with.
NoWork == [state |-> "none", from |-> NoEvidence, evidence |-> NoEvidence, against |-> {}]

Active(i) == work[i].state = "active"
Of(i) == work[i].from.cand
Meet(c, d) == Keys[c] \cap Keys[d] # {}

\* The rows that GetConflictBucketSnapshot, ListSnapshotActiveSignatures and
\* ListSnapshotReviewMemory return for c's buckets.
VersionsOver(c) == [b \in Buckets |-> IF b \in Keys[c] THEN version[b] ELSE 0]
ActiveOver(c) ==
  {[id |-> i, evidence |-> work[i].evidence] : i \in {j \in Works : Active(j) /\ Meet(Of(j), c)}}
MemoryOver(c) == {m \in memory : Meet(m.cand, c)}

\* IncrementConflictBucketVersions.
Bumped(c) == [b \in Buckets |-> IF b \in Keys[c] THEN version[b] + 1 ELSE version[b]]

NoVersions == [b \in Buckets |-> 0]
NoItem == [edition |-> 0, versions |-> NoVersions]
Idle == [pc |-> "idle", cand |-> None, edition |-> 0, versions |-> NoVersions, works |-> {},
         memory |-> {}, decision |-> "none", over |-> {}, tries |-> 0]

Init ==
  /\ version = NoVersions
  /\ edition = [c \in Candidates |-> 1]
  /\ work = [i \in Works |-> NoWork]
  /\ memory = {}
  /\ item = [c \in Candidates |-> NoItem]
  /\ call = [w \in Workers |-> Idle]

At(w, pc) == call[w].pc = pc
Goes(w, c) == call' = [call EXCEPT ![w] = c]
CallsOnly == UNCHANGED <<version, edition, work, memory, item>>

-----------------------------------------------------------------------------
(* Phase A.  A call materializes its candidate, whose version moves when   *)
(* the evidence is new, and takes a snapshot by one statement after the    *)
(* other, the bucket versions first.                                       *)

Begin(w, c, e) ==
  /\ call[w] = Idle
  /\ e \in {edition[c], edition[c] + 1} \cap Editions
  /\ edition' = [edition EXCEPT ![c] = e]
  /\ Goes(w, [Idle EXCEPT !.pc = "versions", !.cand = c, !.tries = 1])
  /\ UNCHANGED <<version, work, memory, item>>

\* LoadCandidate, and the first statement of ReadSnapshot: no statement that could
\* come between the two touches both.
ReadVersions(w) ==
  LET c == call[w].cand
  IN  /\ At(w, "versions")
      /\ Goes(w, [call[w] EXCEPT !.pc = "works", !.edition = edition[c], !.versions = VersionsOver(c)])
      /\ CallsOnly

ReadWorks(w) ==
  /\ At(w, "works")
  /\ Goes(w, [call[w] EXCEPT !.pc = "memory", !.works = ActiveOver(call[w].cand)])
  /\ CallsOnly

\* Seeded fault: the bucket versions are read last.
VersionsLast(w) ==
  LET c == call[w].cand
  IN  /\ At(w, "memory")
      /\ Goes(w, [call[w] EXCEPT !.pc = "decide", !.memory = MemoryOver(c), !.versions = VersionsOver(c)])
      /\ CallsOnly

ReadMemory(w) ==
  /\ At(w, "memory")
  /\ Goes(w, [call[w] EXCEPT !.pc = "decide", !.memory = MemoryOver(call[w].cand)])
  /\ CallsOnly

-----------------------------------------------------------------------------
(* The decision, from the snapshot alone.                                  *)

Ids(k) == {s.id : s \in k.works}
Exact(k) == {i \in Ids(k) : Hash[Of(i)] = Hash[k.cand]}
EvidenceOf(k) == [cand |-> k.cand, edition |-> k.edition]
Growth(k) == Line[k.cand] = "growth"

\* Doctor creates and merges into its own line alone; else its call ends.
Decided(k, decision, over) ==
  IF Growth(k) \/ decision = "create" \/ (decision = "merge" /\ \A i \in over : Line[Of(i)] = "doctor")
  THEN [k EXCEPT !.pc = IF decision = "merge" THEN "merge" ELSE "reserve",
                 !.decision = decision, !.over = over]
  ELSE Idle

\* Work with the very signature is active, and one row of it is taken.
DecideExact(w) ==
  /\ At(w, "decide")
  /\ \E i \in Exact(call[w]) : Goes(w, Decided(call[w], "merge", {i}))
  /\ CallsOnly

\* exactReviewMemory: this very evidence has been dismissed.
Dismissed(k) == EvidenceOf(k) \in k.memory

Suppress(w) ==
  /\ At(w, "decide") /\ Exact(call[w]) = {} /\ Dismissed(call[w])
  /\ Goes(w, Idle)
  /\ CallsOnly

Open(w) == At(w, "decide") /\ Exact(call[w]) = {} /\ ~Dismissed(call[w])
Alone(k) == k.works = {} /\ k.memory = {}

\* Nothing shares a bucket with the candidate.
DecideSafe(w) ==
  LET k == call[w]
  IN  /\ Open(w)
      /\ Alone(k)
      /\ Goes(w, Decided(k, "create", {}))
      /\ CallsOnly

\* deterministicCrossLineDecision: all that is active is on the other line, and c
\* depends on it.
Dependencies(k) ==
  IF Growth(k) /\ \A i \in Ids(k) : Dependency[k.cand][Of(i)] # "none" THEN Ids(k) ELSE {}
Hard(c, S) == \E i \in S : Dependency[c][Of(i)] = "hard"

\* The language model is asked, and names some of what it was shown.  Work that
\* hard dependencies stand before is blocked instead of created; a suppression by
\* dismissals of older evidence reopens the work.
Compared(k, answer, over) ==
  LET dependencies == Dependencies(k)
  IN  CASE answer = "create" ->
             Decided(k, IF Hard(k.cand, dependencies) THEN "block" ELSE "create", over \cup dependencies)
        [] answer = "reopen" -> Decided(k, "create", over)
        [] OTHER -> Decided(k, answer, over)

NonEmpty(S) == SUBSET S \ {{}}
OneLine(over) == \A i, j \in over : Line[Of(i)] = Line[Of(j)]
Answers(k) ==
  [answer : {"create"}, over : SUBSET (Ids(k) \cup k.memory)]
    \cup [answer : {"block"}, over : NonEmpty(Ids(k) \cup k.memory)]
    \cup [answer : {"reopen"}, over : NonEmpty(k.memory)]
    \cup [answer : {"merge"}, over : {S \in NonEmpty(Ids(k)) : OneLine(S)}]

DecideCompared(w) ==
  LET k == call[w]
  IN  /\ Open(w)
      /\ ~Alone(k)
      /\ \E a \in Answers(k) : Goes(w, Compared(k, a.answer, a.over))
      /\ CallsOnly

\* The model answers that the work is suppressed.
Refuse(w) ==
  /\ Open(w) /\ ~Alone(call[w])
  /\ Goes(w, Idle)
  /\ CallsOnly

\* It cannot be asked, is unsure, or answers what the snapshot does not bear: the
\* candidate waits for a reviewer.
Hold(w) ==
  LET k == call[w]
  IN  /\ Open(w) /\ ~Alone(k)
      /\ item' = [item EXCEPT ![k.cand] = [edition |-> k.edition, versions |-> k.versions]]
      /\ Goes(w, Idle)
      /\ UNCHANGED <<version, edition, work, memory>>

Decide(w) == DecideExact(w) \/ Suppress(w) \/ DecideSafe(w) \/ DecideCompared(w) \/ Refuse(w) \/ Hold(w)

-----------------------------------------------------------------------------
(* Phase B.                                                                *)

\* Seeded fault: attempts are not counted.
AgainForEver(k) == [Idle EXCEPT !.pc = "versions", !.cand = k.cand, !.tries = k.tries]

\* The snapshot is stale: phase A again, or the call gives up.
Again(k) ==
  IF k.tries < Attempts
  THEN [Idle EXCEPT !.pc = "versions", !.cand = k.cand, !.tries = k.tries + 1]
  ELSE Idle

SameVersions(k) == k.versions = VersionsOver(k.cand) /\ k.edition = edition[k.cand]

\* Seeded fault: the decision alone is checked, with the candidate's version.
CandidateCurrent(k) == k.edition = edition[k.cand] /\ k.decision = "create"

\* reservationInputsStillCurrent.
StillCurrent(k) ==
  /\ SameVersions(k)
  /\ k.decision = "create"
  /\ k.works = ActiveOver(k.cand) /\ k.memory = MemoryOver(k.cand)

\* The growth creator accepts the overlaps it can relate its work to, which are
\* active and on the other line, a hard one for blocked work alone.
Relates(k) ==
  Growth(k) =>
    /\ \A i \in k.over : i \in Works /\ Active(i) /\ Dependency[k.cand][Of(i)] # "none"
    /\ Hard(k.cand, k.over) <=> k.decision = "block"

\* uniq_enforced_active_work_signature.
Claimed(c) == \E i \in Works : Active(i) /\ Hash[Of(i)] = Hash[c]

Reservable(k) == StillCurrent(k) /\ Relates(k) /\ ~Claimed(k.cand)

Reserve(w, i) ==
  LET k == call[w]
  IN  /\ At(w, "reserve") /\ Reservable(k)
      /\ work[i] = NoWork
      /\ work' = [work EXCEPT ![i] = [state |-> "active", from |-> EvidenceOf(k),
                                      evidence |-> EvidenceOf(k), against |-> k.works]]
      /\ version' = Bumped(k.cand)
      /\ Goes(w, Idle)
      /\ UNCHANGED <<edition, memory, item>>

Stale(w) ==
  /\ At(w, "reserve") /\ ~Reservable(call[w])
  /\ Goes(w, Again(call[w]))
  /\ CallsOnly

\* mergeExactEvidence, mergeDoctorEvidence: versions are compared, not what they
\* stand for.  A target that is no longer active ends the call with an error.
MergeGrowth(w) ==
  LET k == call[w]
      target == CHOOSE i \in k.over : TRUE
      found == Active(target)
  IN  /\ At(w, "merge") /\ Growth(k)
      /\ SameVersions(k) /\ k.over = {target}
      /\ work' = IF found THEN [work EXCEPT ![target].evidence = EvidenceOf(k)] ELSE work
      /\ version' = IF found THEN Bumped(k.cand) ELSE version
      /\ Goes(w, Idle)
      /\ UNCHANGED <<edition, memory, item>>

MergeStale(w) ==
  LET k == call[w]
  IN  /\ At(w, "merge") /\ Growth(k)
      /\ ~(SameVersions(k) /\ \E i \in k.over : k.over = {i})
      /\ Goes(w, Again(k))
      /\ CallsOnly

\* CreateCanonicalSiteFixEvidenceMerge writes a link beside the work, only for the
\* very signature.  Where its conditions fail the call ends with an error.
MergeDoctor(w) ==
  LET k == call[w]
      recorded == SameVersions(k) /\ \E i \in k.over : Active(i) /\ Hash[Of(i)] = Hash[k.cand]
  IN  /\ At(w, "merge") /\ ~Growth(k)
      /\ version' = IF recorded THEN Bumped(k.cand) ELSE version
      /\ Goes(w, Idle)
      /\ UNCHANGED <<edition, work, memory, item>>

\* The request is cancelled, or its process dies.
Dies(w) ==
  /\ call[w] # Idle
  /\ Goes(w, Idle)
  /\ CallsOnly

Proceed(w) ==
  \/ ReadVersions(w) \/ ReadWorks(w) \/ ReadMemory(w) \/ Decide(w)
  \/ \E i \in Works : Reserve(w, i)
  \/ Stale(w) \/ MergeGrowth(w) \/ MergeStale(w) \/ MergeDoctor(w)

-----------------------------------------------------------------------------
(* The rest of the system.  A site fix goes its way, and its last step     *)
(* releases the signature; growth work keeps its own for ever.             *)

Doctors(i) == Active(i) /\ Line[Of(i)] = "doctor"

\* Verified, failed for good, cancelled or superseded.
Release(i) ==
  /\ Doctors(i)
  /\ work' = [work EXCEPT ![i].state = "released"]
  /\ version' = Bumped(Of(i))
  /\ UNCHANGED <<edition, memory, item, call>>

\* Approved, being applied, reopened.
Advance(i) ==
  /\ Doctors(i)
  /\ version' = Bumped(Of(i))
  /\ UNCHANGED <<edition, work, memory, item, call>>

\* Seeded fault: the candidate's version alone is compared.
ItemOfEdition(c) == item[c].edition = edition[c]

\* A reviewer decides about the item of c as it was shown to them.
ItemCurrent(c) == item[c] = [edition |-> edition[c], versions |-> VersionsOver(c)]

Resolve(c) ==
  /\ ItemCurrent(c)
  /\ memory' \in {memory, {m \in memory : Hash[m.cand] # Hash[c]} \cup {[cand |-> c, edition |-> edition[c]]}}
  /\ item' = [item EXCEPT ![c] = NoItem]
  /\ version' = Bumped(c)
  /\ UNCHANGED <<edition, work, call>>

World == (\E i \in Works : Release(i) \/ Advance(i)) \/ (\E c \in Candidates : Resolve(c))

Next ==
  \/ \E w \in Workers, c \in Candidates, e \in Editions : Begin(w, c, e)
  \/ \E w \in Workers : Proceed(w) \/ Dies(w)
  \/ World

Spec == Init /\ [][Next]_vars

-----------------------------------------------------------------------------
(* Properties.                                                             *)

Snapshots == [id : Works, evidence : Evidence]
WorkRows == [state : {"active", "released"}, from : Evidence, evidence : Evidence, against : SUBSET Snapshots]
VersionVectors == [Buckets -> Nat]
Items == [edition : Editions \cup {0}, versions : VersionVectors]
Calls ==
  [pc : {"idle", "versions", "works", "memory", "decide", "reserve", "merge"},
   cand : Candidates \cup {None}, edition : Editions \cup {0}, versions : VersionVectors,
   works : SUBSET Snapshots, memory : SUBSET Evidence,
   decision : {"none", "create", "block", "merge"}, over : SUBSET (Works \cup Evidence),
   tries : 0..Attempts]

\* Every variable has its type.
TypeOK ==
  /\ version \in VersionVectors
  /\ edition \in [Candidates -> Editions]
  /\ work \in [Works -> WorkRows \cup {NoWork}]
  /\ memory \subseteq Evidence
  /\ item \in [Candidates -> Items]
  /\ call \in [Workers -> Calls]

\* Of any two active pieces of work that share a bucket, one was compared with the
\* other before it was reserved, whatever ran at the same time: bucket versions and
\* the fingerprint of the snapshot leave no gap between phase A and phase B.
ComparedWithAll ==
  \A i, j \in Works :
    Active(i) /\ Active(j) /\ i # j /\ Meet(Of(i), Of(j)) =>
      (\E s \in work[j].against : s.id = i) \/ (\E s \in work[i].against : s.id = j)

\* A growth merge whose versions are current finds its target active: it compares
\* no fingerprint, so this rests on the versions being read first and on every
\* release bumping all the buckets of its work.
MergeFindsItsWork ==
  \A w \in Workers :
    At(w, "merge") /\ Growth(call[w]) /\ SameVersions(call[w]) => \A i \in call[w].over : Active(i)

\* Two phases and their retries implement arbitration in one step.
Atomic == INSTANCE ArbitratedWork
IsAtomic == Atomic!Spec
=============================================================================
