----------------------- MODULE WorkReservationProofs -----------------------
(***************************************************************************)
(* Proofs about WorkReservation, for any candidates, buckets and calls.    *)
(*                                                                         *)
(* The argument is the discipline of the bucket versions: a step leaves    *)
(* the active work that shares a bucket with a candidate as it is, or      *)
(* moves the version of one of the candidate's buckets.  Versions only     *)
(* grow and a snapshot reads them first, so a snapshot whose versions are  *)
(* current names the work that is active now, and an open review item      *)
(* whose versions are current is of a candidate whose work nobody has.     *)
(***************************************************************************)
EXTENDS WorkReservation, TLAPS

ActiveOn(i, d) == Active(i) /\ Meet(Of(i), d)

\* What a snapshot with current versions knows.
Sees(k) == \A i \in Works : i \in Ids(k) <=> ActiveOn(i, k.cand)

Late == {"memory", "decide", "reserve", "merge"}

Sound(k) ==
  /\ k.pc # "idle" => k.cand \in Candidates
  /\ k.pc \notin {"idle", "versions"} => k.edition \in Editions
  /\ \A s \in k.works : work[s.id].state # "none"
  /\ k.pc = "reserve" => ~Dismissed(k)
  /\ k.pc = "merge" => k.over \subseteq Ids(k)

Behind(vs) == \A b \in Buckets : vs[b] <= version[b]

CallsSound == \A w \in Workers : Sound(call[w])

VersionsBehind ==
  /\ \A w \in Workers : Behind(call[w].versions)
  /\ \A c \in Candidates : Behind(item[c].versions)

SnapshotsSound ==
  \A w \in Workers :
    call[w].pc \in Late /\ call[w].versions = VersionsOver(call[w].cand) => Sees(call[w])

ItemsSound ==
  \A c \in Candidates :
    item[c].edition # 0 /\ item[c].versions = VersionsOver(c) => ~Claimed(c)

Inv ==
  /\ TypeOK
  /\ CallsSound
  /\ VersionsBehind
  /\ SnapshotsSound
  /\ ItemsSound
  /\ ComparedWithAll

-----------------------------------------------------------------------------
(* Types.                                                                  *)

LEMMA Blank ==
  /\ NoVersions \in VersionVectors
  /\ NoItem \in Items
  /\ Idle \in Calls
<1>1. NoVersions \in VersionVectors
  BY DEF NoVersions, VersionVectors
<1> QED
  BY <1>1, ReservationAssumption DEF NoItem, Items, Idle, Calls

LEMMA SnapshotType ==
  ASSUME TypeOK, NEW c \in Candidates
  PROVE  /\ VersionsOver(c) \in VersionVectors
         /\ ActiveOver(c) \in SUBSET Snapshots
         /\ MemoryOver(c) \in SUBSET Evidence
<1>1. VersionsOver(c) \in VersionVectors
  BY DEF TypeOK, VersionVectors, VersionsOver
<1>2. ASSUME NEW i \in Works, Active(i)
      PROVE  work[i].evidence \in Evidence
  BY <1>2 DEF TypeOK, Active, WorkRows, NoWork
<1>3. ActiveOver(c) \in SUBSET Snapshots
  BY <1>2 DEF ActiveOver, Snapshots
<1>4. MemoryOver(c) \in SUBSET Evidence
  BY DEF TypeOK, MemoryOver
<1> QED
  BY <1>1, <1>3, <1>4

LEMMA IdsType ==
  ASSUME NEW k \in Calls
  PROVE  Ids(k) \subseteq Works
BY DEF Calls, Ids, Snapshots

\* A call's next record is a record of a call.
LEMMA DecidedType ==
  ASSUME NEW k \in Calls, NEW over \in SUBSET (Works \cup Evidence),
         NEW decision \in {"create", "block", "merge"}
  PROVE  Decided(k, decision, over) \in Calls
<1> DEFINE pc == IF decision = "merge" THEN "merge" ELSE "reserve"
           next == [k EXCEPT !.pc = pc, !.decision = decision, !.over = over]
<1>1. pc \in {"merge", "reserve"}
  OBVIOUS
<1>2. Decided(k, decision, over) \in {next, Idle}
  BY DEF Decided
<1> HIDE DEF pc
<1>3. next \in Calls
  BY <1>1 DEF Calls
<1> QED
  BY <1>2, <1>3, Blank

LEMMA AgainType ==
  ASSUME NEW k \in Calls
  PROVE  Again(k) \in Calls
<1>1. CASE k.tries < Attempts
  <2>1. k.tries + 1 \in 0..Attempts /\ k.cand \in Candidates \cup {None}
    BY <1>1, ReservationAssumption DEF Calls
  <2> QED
    BY <1>1, <2>1, Blank DEF Again, Calls, Idle
<1>2. CASE ~(k.tries < Attempts)
  BY <1>2, Blank DEF Again
<1> QED
  BY <1>1, <1>2

\* What the language model may answer names what it was shown.
LEMMA AnswerType ==
  ASSUME NEW k \in Calls, NEW a \in Answers(k)
  PROVE  /\ a.answer \in {"create", "block", "reopen", "merge"}
         /\ a.over \in SUBSET (Works \cup Evidence)
         /\ a.answer = "merge" => a.over \subseteq Ids(k)
<1>1. Ids(k) \subseteq Works /\ k.memory \subseteq Evidence
  BY IdsType DEF Calls
<1> QED
  BY <1>1 DEF Answers, NonEmpty

LEMMA ComparedType ==
  ASSUME NEW k \in Calls, NEW a \in Answers(k)
  PROVE  \E decision \in {"create", "block", "merge"}, over \in SUBSET (Works \cup Evidence) :
           /\ Compared(k, a.answer, a.over) = Decided(k, decision, over)
           /\ decision = "merge" => over \subseteq Ids(k)
<1>1. Dependencies(k) \in SUBSET Works
  BY IdsType DEF Dependencies
<1>2. CASE a.answer = "create"
  <2> DEFINE decision == IF Hard(k.cand, Dependencies(k)) THEN "block" ELSE "create"
  <2>1. Compared(k, a.answer, a.over) = Decided(k, decision, a.over \cup Dependencies(k))
    BY <1>2 DEF Compared
  <2>2. decision \in {"create", "block"} /\ a.over \cup Dependencies(k) \in SUBSET (Works \cup Evidence)
    BY <1>1, AnswerType
  <2> QED
    BY <2>1, <2>2
<1>3. CASE a.answer = "reopen"
  <2>1. Compared(k, a.answer, a.over) = Decided(k, "create", a.over)
    BY <1>3 DEF Compared
  <2> QED
    BY <2>1, AnswerType
<1>4. CASE a.answer \in {"block", "merge"}
  <2>1. Compared(k, a.answer, a.over) = Decided(k, a.answer, a.over)
    BY <1>4 DEF Compared
  <2> QED
    BY <1>4, <2>1, AnswerType
<1> QED
  BY <1>2, <1>3, <1>4, AnswerType

LEMMA EvidenceType ==
  ASSUME TypeOK, CallsSound, NEW w \in Workers, call[w].pc \notin {"idle", "versions"}
  PROVE  EvidenceOf(call[w]) \in Evidence /\ call[w].cand \in Candidates
BY DEF CallsSound, Sound, EvidenceOf, Evidence

LEMMA BumpedType ==
  ASSUME TypeOK, NEW c \in Candidates
  PROVE  Bumped(c) \in VersionVectors
BY DEF TypeOK, VersionVectors, Bumped

\* A step of one call that writes nothing else.
LEMMA CallStepType ==
  ASSUME TypeOK, NEW w \in Workers, NEW k \in Calls, Goes(w, k)
  PROVE  call' \in [Workers -> Calls]
BY DEF TypeOK, Goes

LEMMA DecideType ==
  ASSUME TypeOK, NEW w \in Workers, Decide(w)
  PROVE  \E k \in Calls : Goes(w, k)
<1>1. call[w] \in Calls
  BY DEF TypeOK
<1>2. CASE Suppress(w) \/ Refuse(w) \/ Hold(w)
  BY <1>2, Blank DEF Suppress, Refuse, Hold
<1>3. CASE DecideExact(w)
  <2>1. PICK i \in Exact(call[w]) : Goes(w, Decided(call[w], "merge", {i}))
    BY <1>3 DEF DecideExact
  <2>2. {i} \in SUBSET (Works \cup Evidence)
    BY <1>1, IdsType DEF Exact
  <2> QED
    BY <1>1, <2>1, <2>2, DecidedType
<1>4. CASE DecideSafe(w)
  <2>1. Goes(w, Decided(call[w], "create", {}))
    BY <1>4 DEF DecideSafe
  <2> QED
    BY <1>1, <2>1, DecidedType
<1>5. CASE DecideCompared(w)
  <2>1. PICK a \in Answers(call[w]) : Goes(w, Compared(call[w], a.answer, a.over))
    BY <1>5 DEF DecideCompared
  <2>2. Compared(call[w], a.answer, a.over) \in Calls
    BY <1>1, ComparedType, DecidedType
  <2> QED
    BY <2>1, <2>2
<1> QED
  BY <1>2, <1>3, <1>4, <1>5 DEF Decide

LEMMA ProceedType ==
  ASSUME TypeOK, CallsSound, NEW w \in Workers, Proceed(w)
  PROVE  \E k \in Calls : Goes(w, k)
<1>1. call[w] \in Calls
  BY DEF TypeOK
<1>2. ASSUME At(w, "versions") \/ At(w, "works") \/ At(w, "memory")
      PROVE  /\ call[w].cand \in Candidates
             /\ edition[call[w].cand] \in Editions
             /\ VersionsOver(call[w].cand) \in VersionVectors
             /\ ActiveOver(call[w].cand) \in SUBSET Snapshots
             /\ MemoryOver(call[w].cand) \in SUBSET Evidence
  <2>1. call[w].cand \in Candidates
    BY <1>2 DEF At, CallsSound, Sound
  <2> QED
    BY <2>1, SnapshotType DEF TypeOK
<1>3. CASE ReadVersions(w)
  <2> DEFINE k == [call[w] EXCEPT !.pc = "works", !.edition = edition[call[w].cand],
                                  !.versions = VersionsOver(call[w].cand)]
  <2>1. Goes(w, k)
    BY <1>3 DEF ReadVersions
  <2>2. k \in Calls
    BY <1>1, <1>2, <1>3 DEF ReadVersions, Calls
  <2> QED
    BY <2>1, <2>2
<1>4. CASE ReadWorks(w)
  <2> DEFINE k == [call[w] EXCEPT !.pc = "memory", !.works = ActiveOver(call[w].cand)]
  <2>1. Goes(w, k)
    BY <1>4 DEF ReadWorks
  <2>2. k \in Calls
    BY <1>1, <1>2, <1>4 DEF ReadWorks, Calls
  <2> QED
    BY <2>1, <2>2
<1>5. CASE ReadMemory(w)
  <2> DEFINE k == [call[w] EXCEPT !.pc = "decide", !.memory = MemoryOver(call[w].cand)]
  <2>1. Goes(w, k)
    BY <1>5 DEF ReadMemory
  <2>2. k \in Calls
    BY <1>1, <1>2, <1>5 DEF ReadMemory, Calls
  <2> QED
    BY <2>1, <2>2
<1>6. CASE Decide(w)
  BY <1>6, DecideType
<1>7. CASE (\E i \in Works : Reserve(w, i)) \/ MergeGrowth(w) \/ MergeDoctor(w)
  BY <1>7, Blank DEF Reserve, MergeGrowth, MergeDoctor
<1>8. CASE Stale(w) \/ MergeStale(w)
  BY <1>1, <1>8, AgainType DEF Stale, MergeStale
<1> QED
  BY <1>3, <1>4, <1>5, <1>6, <1>7, <1>8 DEF Proceed

\* A step in which only calls move.
LEMMA QuietType ==
  ASSUME TypeOK, CallsOnly, call' \in [Workers -> Calls]
  PROVE  TypeOK'
BY DEF TypeOK, CallsOnly, Items, Calls, VersionVectors, WorkRows, NoWork, NoEvidence, Snapshots, Evidence

LEMMA ReservedType ==
  ASSUME TypeOK, CallsSound, NEW w \in Workers, NEW i \in Works, Reserve(w, i)
  PROVE  /\ version' \in VersionVectors
         /\ work' \in [Works -> WorkRows \cup {NoWork}]
<1>1. call[w] \in Calls /\ call[w].cand \in Candidates /\ EvidenceOf(call[w]) \in Evidence
  BY EvidenceType DEF TypeOK, Reserve, At
<1>2. version' \in VersionVectors
  BY <1>1, BumpedType DEF Reserve
<1> DEFINE row == [state |-> "active", from |-> EvidenceOf(call[w]),
                   evidence |-> EvidenceOf(call[w]), against |-> call[w].works]
<1>3. row \in WorkRows
  BY <1>1 DEF WorkRows, Calls
<1>4. work' = [work EXCEPT ![i] = row]
  BY DEF Reserve
<1> HIDE DEF row
<1>5. work' \in [Works -> WorkRows \cup {NoWork}]
  BY <1>3, <1>4 DEF TypeOK
<1> QED
  BY <1>2, <1>5

LEMMA MergedType ==
  ASSUME TypeOK, CallsSound, NEW w \in Workers, MergeGrowth(w)
  PROVE  /\ version' \in VersionVectors
         /\ work' \in [Works -> WorkRows \cup {NoWork}]
<1>1. call[w].cand \in Candidates /\ EvidenceOf(call[w]) \in Evidence
  BY EvidenceType DEF MergeGrowth, At
<1>2. version' \in VersionVectors
  BY <1>1, BumpedType DEF MergeGrowth, TypeOK
<1> DEFINE i == CHOOSE i \in call[w].over : TRUE
<1>3. CASE ~Active(i)
  BY <1>3 DEF MergeGrowth, TypeOK
<1>4. CASE Active(i)
  <2> DEFINE e == EvidenceOf(call[w])
  <2>1. work' = [work EXCEPT ![i].evidence = e]
    BY <1>4 DEF MergeGrowth
  <2> HIDE DEF e, i
  <2>2. ASSUME i \in Works
        PROVE  work[i] \in WorkRows
    BY <1>4, <2>2 DEF TypeOK, Active, NoWork
  <2>3. e \in Evidence
    BY <1>1 DEF e
  <2>4. ASSUME i \in Works
        PROVE  [work[i] EXCEPT !.evidence = e] \in WorkRows
    BY <2>2, <2>3, <2>4 DEF WorkRows
  <2>5. work' \in [Works -> WorkRows \cup {NoWork}]
    BY <2>1, <2>4 DEF TypeOK
  <2> QED
    BY <1>2, <2>5
<1> QED
  BY <1>2, <1>3, <1>4 DEF TypeOK

LEMMA ReleasedType ==
  ASSUME TypeOK, NEW i \in Works, Active(i)
  PROVE  /\ Of(i) \in Candidates
         /\ [work EXCEPT ![i].state = "released"] \in [Works -> WorkRows \cup {NoWork}]
<1>1. work[i] \in WorkRows
  BY DEF TypeOK, Active, NoWork
<1>2. [work[i] EXCEPT !.state = "released"] \in WorkRows
  BY <1>1 DEF WorkRows
<1> QED
  BY <1>1, <1>2 DEF TypeOK, Of, WorkRows, Evidence

LEMMA ResolvedType ==
  ASSUME TypeOK, NEW c \in Candidates, Resolve(c)
  PROVE  memory' \in SUBSET Evidence /\ item' \in [Candidates -> Items] /\ version' \in VersionVectors
<1>1. [cand |-> c, edition |-> edition[c]] \in Evidence
  BY DEF TypeOK, Evidence
<1>2. memory' \in SUBSET Evidence
  BY <1>1 DEF TypeOK, Resolve
<1>3. item' \in [Candidates -> Items]
  BY Blank DEF TypeOK, Resolve
<1> QED
  BY <1>2, <1>3, BumpedType DEF Resolve

LEMMA NextType ==
  ASSUME TypeOK, CallsSound, Next
  PROVE  TypeOK'
<1> DEFINE Rows == [Works -> WorkRows \cup {NoWork}]
<1>1. ASSUME NEW w \in Workers, NEW c \in Candidates, NEW e \in Editions, Begin(w, c, e)
      PROVE  TypeOK'
  <2> DEFINE k == [Idle EXCEPT !.pc = "versions", !.cand = c, !.tries = 1]
  <2>1. 1 \in 0..Attempts
    BY ReservationAssumption
  <2>2. k \in Calls
    BY <2>1, Blank DEF Calls
  <2>3. call' \in [Workers -> Calls]
    BY <1>1, <2>2, CallStepType DEF Begin
  <2>4. edition' \in [Candidates -> Editions]
    BY <1>1 DEF Begin, TypeOK
  <2> QED
    BY <1>1, <2>3, <2>4 DEF Begin, TypeOK
<1>2. ASSUME NEW w \in Workers, Proceed(w) \/ Dies(w), CallsOnly
      PROVE  TypeOK'
  <2>1. call' \in [Workers -> Calls]
    BY <1>2, ProceedType, CallStepType, Blank DEF Dies
  <2> QED
    BY <1>2, <2>1, QuietType
<1>3. ASSUME NEW w \in Workers, Proceed(w), ~CallsOnly
      PROVE  TypeOK'
  <2>1. call' \in [Workers -> Calls]
    BY <1>3, ProceedType, CallStepType
  <2>2. CASE \E i \in Works : Reserve(w, i)
    BY <2>1, <2>2, ReservedType DEF Reserve, TypeOK
  <2>3. CASE MergeGrowth(w)
    BY <2>1, <2>3, MergedType DEF MergeGrowth, TypeOK
  <2>4. CASE MergeDoctor(w)
    <3>1. call[w].cand \in Candidates
      BY <2>4, EvidenceType DEF MergeDoctor, At
    <3> QED
      BY <2>1, <2>4, <3>1, BumpedType DEF MergeDoctor, TypeOK
  <2>5. CASE Hold(w)
    <3>1. call[w] \in Calls /\ call[w].cand \in Candidates
      BY <2>5, EvidenceType DEF Hold, Open, At, TypeOK
    <3>2. [edition |-> call[w].edition, versions |-> call[w].versions] \in Items
      BY <3>1 DEF Calls, Items
    <3>3. item' \in [Candidates -> Items]
      BY <2>5, <3>2 DEF Hold, TypeOK
    <3> QED
      BY <2>1, <2>5, <3>3 DEF Hold, TypeOK
  <2> QED
    BY <1>3, <2>2, <2>3, <2>4, <2>5
    DEF Proceed, ReadVersions, ReadWorks, ReadMemory, Decide, DecideExact, Suppress, DecideSafe,
        DecideCompared, Refuse, Stale, MergeStale
<1>4. ASSUME NEW i \in Works, Release(i) \/ Advance(i)
      PROVE  TypeOK'
  BY <1>4, ReleasedType, BumpedType DEF Release, Advance, Doctors, TypeOK
<1>5. ASSUME NEW c \in Candidates, Resolve(c)
      PROVE  TypeOK'
  BY <1>5, ResolvedType DEF Resolve, TypeOK
<1>6. ASSUME NEW w \in Workers, Dies(w)
      PROVE  TypeOK'
  BY <1>2, <1>6 DEF Dies
<1> QED
  BY <1>1, <1>2, <1>3, <1>4, <1>5, <1>6 DEF Next, World

-----------------------------------------------------------------------------
(* The discipline of the bucket versions.                                  *)

Moved(d) == \E b \in Keys[d] : version[b] < version'[b]

\* docs/PRD-CiteLoop-Doctor-Opportunities-Two-Line-Optimization.md:916: what
\* changes the active work in a bucket moves the bucket's version.
Discipline ==
  /\ \A b \in Buckets : version[b] <= version'[b]
  /\ \A d \in Candidates : Moved(d) \/ \A i \in Works : ActiveOn(i, d)' <=> ActiveOn(i, d)

\* A signature that has been written stays, and stays what it is for.
Kept ==
  \A i \in Works :
    work[i].state # "none" => work'[i].state # "none" /\ work'[i].from = work[i].from

LEMMA Bumping ==
  ASSUME TypeOK, NEW c \in Candidates, version' = Bumped(c)
  PROVE  \A b \in Buckets :
           /\ version[b] <= version'[b]
           /\ b \in Keys[c] => version[b] < version'[b]
BY DEF TypeOK, VersionVectors, Bumped

LEMMA BumpingMoves ==
  ASSUME TypeOK, NEW c \in Candidates, version' = Bumped(c), NEW d \in Candidates, Meet(c, d)
  PROVE  Moved(d)
<1>1. PICK b \in Keys[c] : b \in Keys[d]
  BY DEF Meet
<1>2. b \in Buckets
  BY <1>1, ReservationAssumption
<1> QED
  BY <1>1, <1>2, Bumping DEF Moved

\* No work changes, and versions only grow.
LEMMA SameWork ==
  ASSUME TypeOK, \A b \in Buckets : version[b] <= version'[b],
         \A i \in Works : work'[i].state = work[i].state /\ work'[i].from = work[i].from
  PROVE  Discipline /\ Kept
BY DEF Discipline, Kept, ActiveOn, Active, Of, Meet

LEMMA SameVersionsGrow ==
  ASSUME TypeOK
  PROVE  \A b \in Buckets : version[b] <= version[b]
BY DEF TypeOK, VersionVectors

LEMMA ReserveDiscipline ==
  ASSUME TypeOK, CallsSound, NEW w \in Workers, NEW i \in Works, Reserve(w, i)
  PROVE  /\ Discipline /\ Kept
         /\ Of(i)' = call[w].cand
         /\ \A j \in Works \ {i} : work'[j] = work[j]
<1> DEFINE row == [state |-> "active", from |-> EvidenceOf(call[w]),
                   evidence |-> EvidenceOf(call[w]), against |-> call[w].works]
<1>1. /\ call[w].cand \in Candidates
      /\ version' = Bumped(call[w].cand)
  BY EvidenceType DEF Reserve, At
<1>2. work[i].state = "none"
  BY DEF Reserve, NoWork
<1>3. work' = [work EXCEPT ![i] = row]
  BY DEF Reserve
<1>4. row.from.cand = call[w].cand
  BY DEF EvidenceOf
<1> HIDE DEF row
<1>5. work'[i] = row /\ \A j \in Works \ {i} : work'[j] = work[j]
  BY <1>3 DEF TypeOK
<1>6. Of(i)' = call[w].cand
  BY <1>4, <1>5 DEF Of
<1>7. ASSUME NEW e \in Candidates, ~Moved(e), NEW j \in Works
      PROVE  ActiveOn(j, e)' <=> ActiveOn(j, e)
  <2>1. CASE j # i
    BY <1>5, <2>1 DEF ActiveOn, Active, Of, Meet
  <2>2. CASE j = i
    <3>1. ~Meet(call[w].cand, e)
      BY <1>1, <1>7, BumpingMoves
    <3>2. ~Active(i) /\ ~(Meet(Of(i), e))'
      BY <1>2, <1>6, <3>1 DEF Active, Meet
    <3> QED
      BY <2>2, <3>2 DEF ActiveOn
  <2> QED
    BY <2>1, <2>2
<1>8. Discipline
  BY <1>1, <1>7, Bumping DEF Discipline
<1>9. Kept
  BY <1>2, <1>5 DEF Kept
<1> QED
  BY <1>5, <1>6, <1>8, <1>9

LEMMA MergeDiscipline ==
  ASSUME TypeOK, CallsSound, NEW w \in Workers, MergeGrowth(w)
  PROVE  /\ Discipline /\ Kept
         /\ \A j \in Works : /\ work'[j].state = work[j].state
                             /\ work'[j].from = work[j].from
                             /\ work'[j].against = work[j].against
<1> DEFINE e == EvidenceOf(call[w])
           i == CHOOSE x \in call[w].over : TRUE
<1>1. call[w].cand \in Candidates /\ (version' = Bumped(call[w].cand) \/ version' = version)
  BY EvidenceType DEF MergeGrowth, At
<1>2. work' = [work EXCEPT ![i].evidence = e] \/ work' = work
  BY DEF MergeGrowth
<1>3. i \in Works => (Active(i) => work[i] \in WorkRows) /\ (~Active(i) => work' = work)
  BY DEF TypeOK, Active, NoWork, MergeGrowth
<1> HIDE DEF e, i
<1>4. ASSUME NEW j \in Works
      PROVE  /\ work'[j].state = work[j].state
             /\ work'[j].from = work[j].from
             /\ work'[j].against = work[j].against
  BY <1>2, <1>3 DEF TypeOK, WorkRows, NoWork
<1>5. \A b \in Buckets : version[b] <= version'[b]
  BY <1>1, Bumping, SameVersionsGrow
<1> QED
  BY <1>4, <1>5, SameWork

LEMMA ReleaseDiscipline ==
  ASSUME TypeOK, NEW i \in Works, Release(i)
  PROVE  /\ Discipline /\ Kept
         /\ ~Active(i)'
         /\ \A j \in Works \ {i} : work'[j] = work[j]
<1>1. /\ Active(i) /\ Of(i) \in Candidates /\ work[i] \in WorkRows
      /\ version' = Bumped(Of(i))
      /\ work' = [work EXCEPT ![i].state = "released"]
  BY ReleasedType DEF Release, Doctors, TypeOK, Active, NoWork
<1>2. /\ work'[i].state = "released" /\ work'[i].from = work[i].from
      /\ \A j \in Works \ {i} : work'[j] = work[j]
  BY <1>1 DEF TypeOK, WorkRows
<1>3. ASSUME NEW e \in Candidates, ~Moved(e), NEW j \in Works
      PROVE  ActiveOn(j, e)' <=> ActiveOn(j, e)
  <2>1. CASE j # i
    BY <1>2, <2>1 DEF ActiveOn, Active, Of, Meet
  <2>2. CASE j = i
    <3>1. ~Meet(Of(i), e)
      BY <1>1, <1>3, BumpingMoves
    <3> QED
      BY <1>2, <2>2, <3>1 DEF ActiveOn, Active
  <2> QED
    BY <2>1, <2>2
<1>4. Discipline
  BY <1>1, <1>3, Bumping DEF Discipline
<1> QED
  BY <1>1, <1>2, <1>4 DEF Kept, Active

LEMMA NextDiscipline ==
  ASSUME TypeOK, CallsSound, [Next]_vars
  PROVE  Discipline /\ Kept
<1>1. CASE UNCHANGED <<version, work>>
  BY <1>1, SameVersionsGrow, SameWork
<1>2. ASSUME UNCHANGED work, NEW c \in Candidates, version' \in {version, Bumped(c)}
      PROVE  Discipline /\ Kept
  BY <1>2, SameVersionsGrow, Bumping, SameWork
<1>3. CASE \E w \in Workers : Proceed(w)
  <2>1. PICK w \in Workers : Proceed(w)
    BY <1>3
  <2>2. CASE UNCHANGED <<version, work>>
    BY <1>1, <2>2
  <2>3. CASE MergeDoctor(w)
    <3>1. call[w].cand \in Candidates
      BY <2>3, EvidenceType DEF MergeDoctor, At
    <3> QED
      BY <1>2, <2>3, <3>1 DEF MergeDoctor
  <2> QED
    BY <2>1, <2>2, <2>3, ReserveDiscipline, MergeDiscipline
    DEF Proceed, ReadVersions, ReadWorks, ReadMemory, Decide, DecideExact, Suppress, DecideSafe,
        DecideCompared, Refuse, Hold, Stale, MergeStale, CallsOnly
<1>4. CASE \E i \in Works : Release(i) \/ Advance(i)
  <2>1. PICK i \in Works : Release(i) \/ Advance(i)
    BY <1>4
  <2>2. CASE Advance(i)
    BY <1>2, <2>2, ReleasedType DEF Advance, Doctors
  <2> QED
    BY <2>1, <2>2, ReleaseDiscipline
<1>5. CASE \E c \in Candidates : Resolve(c)
  BY <1>2, <1>5 DEF Resolve
<1>6. CASE \E w \in Workers : Dies(w) \/ \E c \in Candidates, e \in Editions : Begin(w, c, e)
  BY <1>1, <1>6 DEF Dies, Begin, CallsOnly
<1> QED
  BY <1>1, <1>3, <1>4, <1>5, <1>6 DEF Next, World, vars

-----------------------------------------------------------------------------
(* What a call does by itself.                                             *)

\* A call's record keeps what is known of its snapshot.
Keeps(k, old) ==
  /\ k.versions = old.versions /\ k.works = old.works /\ k.cand = old.cand
  /\ old.pc \in Late

LEMMA IdleSound == Sound(Idle) /\ Idle.versions = NoVersions /\ Idle.pc \notin Late
BY DEF Sound, Idle, Late

LEMMA AgainSound ==
  ASSUME NEW k \in Calls, Sound(k), k.pc # "idle"
  PROVE  Sound(Again(k)) /\ Again(k).versions = NoVersions /\ Again(k).pc \notin Late
<1> DEFINE n == [Idle EXCEPT !.pc = "versions", !.cand = k.cand, !.tries = k.tries + 1]
<1>1. Again(k) \in {n, Idle}
  BY DEF Again
<1>2. n.pc = "versions" /\ n.cand = k.cand /\ n.works = {} /\ n.versions = NoVersions
  BY DEF Idle
<1>3. Sound(n) /\ n.pc \notin Late
  BY <1>2 DEF Sound, Late
<1> QED
  BY <1>1, <1>2, <1>3, IdleSound

LEMMA DecidedSound ==
  ASSUME NEW k \in Calls, Sound(k), k.pc = "decide", NEW decision, NEW over,
         decision # "merge" => ~Dismissed(k),
         decision = "merge" => over \subseteq Ids(k)
  PROVE  LET n == Decided(k, decision, over)
         IN  Sound(n) /\ (n = Idle \/ Keeps(n, k))
<1> DEFINE pc == IF decision = "merge" THEN "merge" ELSE "reserve"
           n == [k EXCEPT !.pc = pc, !.decision = decision, !.over = over]
<1>1. Decided(k, decision, over) \in {n, Idle}
  BY DEF Decided
<1>2. /\ n.pc = pc /\ n.cand = k.cand /\ n.works = k.works /\ n.over = over
      /\ n.versions = k.versions /\ n.edition = k.edition /\ n.memory = k.memory
  BY DEF Calls
<1> HIDE DEF n
<1>3. Sound(n)
  BY <1>2 DEF Sound, Dismissed, EvidenceOf, Ids
<1>4. Keeps(n, k)
  BY <1>2 DEF Keeps, Late
<1> QED
  BY <1>1, <1>3, <1>4, IdleSound

LEMMA DecideSound ==
  ASSUME TypeOK, CallsSound, NEW w \in Workers, Decide(w)
  PROVE  \E k \in Calls : Goes(w, k) /\ Sound(k) /\ (k = Idle \/ Keeps(k, call[w]))
<1>1. call[w] \in Calls /\ Sound(call[w]) /\ call[w].pc = "decide"
  BY DEF TypeOK, CallsSound, Decide, DecideExact, Suppress, DecideSafe, DecideCompared, Refuse, Hold,
         Open, At
<1>2. CASE Suppress(w) \/ Refuse(w) \/ Hold(w)
  BY <1>2, Blank, IdleSound DEF Suppress, Refuse, Hold
<1>3. CASE DecideExact(w)
  <2>1. PICK i \in Exact(call[w]) : Goes(w, Decided(call[w], "merge", {i}))
    BY <1>3 DEF DecideExact
  <2>2. {i} \subseteq Ids(call[w]) /\ {i} \in SUBSET (Works \cup Evidence)
    BY <1>1, IdsType DEF Exact
  <2> QED
    BY <1>1, <2>1, <2>2, DecidedType, DecidedSound
<1>4. CASE DecideSafe(w)
  <2>1. Goes(w, Decided(call[w], "create", {})) /\ ~Dismissed(call[w])
    BY <1>4 DEF DecideSafe, Open
  <2> QED
    BY <1>1, <2>1, DecidedType, DecidedSound
<1>5. CASE DecideCompared(w)
  <2>1. PICK a \in Answers(call[w]) : Goes(w, Compared(call[w], a.answer, a.over))
    BY <1>5 DEF DecideCompared
  <2>2. PICK decision \in {"create", "block", "merge"}, over \in SUBSET (Works \cup Evidence) :
          /\ Compared(call[w], a.answer, a.over) = Decided(call[w], decision, over)
          /\ decision = "merge" => over \subseteq Ids(call[w])
    BY <1>1, ComparedType
  <2>3. ~Dismissed(call[w])
    BY <1>5 DEF DecideCompared, Open
  <2> QED
    BY <1>1, <2>1, <2>2, <2>3, DecidedType, DecidedSound
<1> QED
  BY <1>2, <1>3, <1>4, <1>5 DEF Decide

\* A step of a call, but the one that looks for active work: its snapshot is kept,
\* or there is none yet.
Step(w, k) ==
  /\ k \in Calls /\ Goes(w, k) /\ Sound(k)
  /\ Behind(k.versions)
  /\ k.pc \in Late => Keeps(k, call[w]) \/ (Sees(k) /\ CallsOnly)

LEMMA NoVersionsBehind ==
  ASSUME TypeOK
  PROVE  Behind(NoVersions)
BY DEF TypeOK, VersionVectors, Behind, NoVersions

LEMMA ActiveOverIds ==
  ASSUME TypeOK, NEW c \in Candidates, NEW k, k.works = ActiveOver(c)
  PROVE  /\ \A i \in Works : i \in Ids(k) <=> ActiveOn(i, c)
         /\ \A s \in k.works : work[s.id].state # "none"
<1>1. \A s \in ActiveOver(c) : s.id \in Works /\ ActiveOn(s.id, c)
  BY DEF ActiveOver, ActiveOn
<1>2. ASSUME NEW i \in Works, ActiveOn(i, c)
      PROVE  \E s \in ActiveOver(c) : s.id = i
  <2>1. [id |-> i, evidence |-> work[i].evidence] \in ActiveOver(c)
    BY <1>2 DEF ActiveOver, ActiveOn
  <2> QED
    BY <2>1
<1> QED
  BY <1>1, <1>2 DEF Ids, ActiveOn, Active

LEMMA ProceedStep ==
  ASSUME TypeOK, CallsSound, VersionsBehind, NEW w \in Workers, Proceed(w)
  PROVE  \E k : Step(w, k)
<1>1. call[w] \in Calls /\ Sound(call[w]) /\ Behind(call[w].versions)
  BY DEF TypeOK, CallsSound, VersionsBehind
<1>2. CASE ReadVersions(w)
  <2> DEFINE k == [call[w] EXCEPT !.pc = "works", !.edition = edition[call[w].cand],
                                  !.versions = VersionsOver(call[w].cand)]
  <2>1. call[w].cand \in Candidates
    BY <1>1, <1>2 DEF ReadVersions, At, Sound
  <2>2. /\ k.pc = "works" /\ k.edition \in Editions /\ k.cand = call[w].cand
        /\ k.works = call[w].works /\ k.versions = VersionsOver(call[w].cand)
        /\ k \in Calls
    BY <1>1, <2>1, SnapshotType DEF Calls, TypeOK
  <2>3. Goes(w, k)
    BY <1>2 DEF ReadVersions
  <2> HIDE DEF k
  <2>4. Sound(k)
    BY <1>1, <2>1, <2>2 DEF Sound
  <2>5. Behind(k.versions)
    BY <2>2 DEF Behind, VersionsOver, TypeOK, VersionVectors
  <2> QED
    BY <2>2, <2>3, <2>4, <2>5 DEF Step, Late
<1>3. CASE ReadWorks(w)
  <2> DEFINE k == [call[w] EXCEPT !.pc = "memory", !.works = ActiveOver(call[w].cand)]
  <2>1. call[w].cand \in Candidates /\ call[w].edition \in Editions
    BY <1>1, <1>3 DEF ReadWorks, At, Sound
  <2>2. /\ k.pc = "memory" /\ k.edition = call[w].edition /\ k.cand = call[w].cand
        /\ k.works = ActiveOver(call[w].cand) /\ k.versions = call[w].versions
        /\ k \in Calls
    BY <1>1, <2>1, SnapshotType DEF Calls
  <2>3. Goes(w, k) /\ CallsOnly
    BY <1>3 DEF ReadWorks
  <2> HIDE DEF k
  <2>4. Sound(k) /\ Sees(k)
    BY <2>1, <2>2, ActiveOverIds DEF Sound, Sees
  <2> QED
    BY <1>1, <2>2, <2>3, <2>4 DEF Step
<1>4. CASE ReadMemory(w)
  <2> DEFINE k == [call[w] EXCEPT !.pc = "decide", !.memory = MemoryOver(call[w].cand)]
  <2>1. call[w].cand \in Candidates /\ call[w].edition \in Editions /\ call[w].pc = "memory"
    BY <1>1, <1>4 DEF ReadMemory, At, Sound
  <2>2. /\ k.pc = "decide" /\ k.edition = call[w].edition /\ k.cand = call[w].cand
        /\ k.works = call[w].works /\ k.versions = call[w].versions
        /\ k \in Calls
    BY <1>1, <2>1, SnapshotType DEF Calls
  <2>3. Goes(w, k)
    BY <1>4 DEF ReadMemory
  <2> HIDE DEF k
  <2>4. Sound(k) /\ Keeps(k, call[w])
    BY <1>1, <2>1, <2>2 DEF Sound, Keeps, Late
  <2> QED
    BY <1>1, <2>2, <2>3, <2>4 DEF Step
<1>5. CASE Decide(w)
  BY <1>1, <1>5, DecideSound, Blank, IdleSound, NoVersionsBehind DEF Step, Keeps
<1>6. CASE (\E i \in Works : Reserve(w, i)) \/ MergeGrowth(w) \/ MergeDoctor(w)
  <2>1. Goes(w, Idle)
    BY <1>6 DEF Reserve, MergeGrowth, MergeDoctor
  <2> QED
    BY <2>1, Blank, IdleSound, NoVersionsBehind DEF Step
<1>7. CASE Stale(w) \/ MergeStale(w)
  <2>1. Goes(w, Again(call[w])) /\ call[w].pc # "idle"
    BY <1>7 DEF Stale, MergeStale, At
  <2> QED
    BY <1>1, <2>1, AgainType, AgainSound, NoVersionsBehind DEF Step
<1> QED
  BY <1>2, <1>3, <1>4, <1>5, <1>6, <1>7 DEF Proceed

-----------------------------------------------------------------------------
(* The invariant.                                                          *)

LEMMA SoundKept ==
  ASSUME TypeOK, Kept, NEW k \in Calls, Sound(k)
  PROVE  Sound(k)'
<1>1. \A s \in k.works : work'[s.id].state # "none"
  <2> SUFFICES ASSUME NEW s \in k.works
               PROVE  work'[s.id].state # "none"
    OBVIOUS
  <2>1. s.id \in Works /\ work[s.id].state # "none"
    BY DEF Calls, Snapshots, Sound
  <2> QED
    BY <2>1 DEF Kept
<1> QED
  BY <1>1 DEF Sound, Dismissed, EvidenceOf, Ids

LEMMA BehindKept ==
  ASSUME TypeOK, TypeOK', Discipline, NEW vs \in VersionVectors, Behind(vs)
  PROVE  Behind(vs)'
BY DEF TypeOK, VersionVectors, Discipline, Behind

\* Versions that are current after the step were current before it, and the work is
\* as it was.
LEMMA StillQuiet ==
  ASSUME TypeOK, TypeOK', Discipline, NEW d \in Candidates, NEW vs \in VersionVectors,
         Behind(vs), vs = VersionsOver(d)'
  PROVE  /\ vs = VersionsOver(d)
         /\ \A i \in Works : ActiveOn(i, d)' <=> ActiveOn(i, d)
<1>1. ASSUME NEW b \in Keys[d]
      PROVE  b \in Buckets /\ version[b] = version'[b]
  <2>1. b \in Buckets
    BY ReservationAssumption
  <2>2. vs[b] = version'[b]
    BY <2>1 DEF VersionsOver
  <2>3. vs[b] <= version[b] /\ version[b] <= version'[b]
    BY <2>1 DEF Behind, Discipline
  <2> QED
    BY <2>1, <2>2, <2>3 DEF TypeOK, VersionVectors
<1>2. VersionsOver(d)' = VersionsOver(d)
  BY <1>1 DEF VersionsOver
<1>3. ~Moved(d)
  BY <1>1 DEF Moved, TypeOK, VersionVectors
<1> QED
  BY <1>2, <1>3 DEF Discipline

LEMMA SeesKept ==
  ASSUME TypeOK, TypeOK', Discipline, NEW k \in Calls, k.cand \in Candidates,
         Behind(k.versions), k.versions = VersionsOver(k.cand)',
         k.versions = VersionsOver(k.cand) => Sees(k)
  PROVE  Sees(k)'
<1>1. k.versions \in VersionVectors
  BY DEF Calls
<1>2. /\ k.versions = VersionsOver(k.cand)
      /\ \A i \in Works : ActiveOn(i, k.cand)' <=> ActiveOn(i, k.cand)
  BY <1>1, StillQuiet
<1>3. \A i \in Works : i \in Ids(k) <=> ActiveOn(i, k.cand)'
  BY <1>2 DEF Sees
<1> QED
  BY <1>3 DEF Sees, Ids

Snap(k) == k.pc \in Late /\ k.versions = VersionsOver(k.cand) => Sees(k)

\* The record a call steps to is as sound as those that do not step.
LEMMA StepKeeps ==
  ASSUME TypeOK, TypeOK', CallsSound, SnapshotsSound, VersionsBehind, Discipline, Kept,
         NEW w \in Workers, NEW k, Step(w, k)
  PROVE  Sound(k)' /\ Behind(k.versions)' /\ Snap(k)'
<1>1. k \in Calls /\ Sound(k) /\ Behind(k.versions) /\ k.versions \in VersionVectors
  BY DEF Step, Calls
<1>2. Sound(k)' /\ Behind(k.versions)'
  BY <1>1, SoundKept, BehindKept
<1>3. ASSUME k.pc \in Late, k.versions = VersionsOver(k.cand)'
      PROVE  Sees(k)'
  <2>1. k.cand \in Candidates
    BY <1>1, <1>3 DEF Sound, Late
  <2>2. CASE Keeps(k, call[w])
    <3>1. k.versions = VersionsOver(k.cand) => Sees(call[w])
      BY <2>2 DEF SnapshotsSound, Keeps
    <3>2. Sees(call[w]) => Sees(k)
      BY <2>2 DEF Sees, Ids, Keeps
    <3> QED
      BY <1>1, <1>3, <2>1, <3>1, <3>2, SeesKept
  <2>3. CASE Sees(k)
    BY <1>1, <1>3, <2>1, <2>3, SeesKept
  <2> QED
    BY <1>3, <2>2, <2>3 DEF Step
<1> QED
  BY <1>2, <1>3 DEF Snap

\* So is a record that nobody touches.
LEMMA RestKeeps ==
  ASSUME TypeOK, TypeOK', Discipline, Kept, NEW k \in Calls, Sound(k), Behind(k.versions), Snap(k)
  PROVE  Sound(k)' /\ Behind(k.versions)' /\ Snap(k)'
<1>1. k.versions \in VersionVectors
  BY DEF Calls
<1>2. ASSUME k.pc \in Late, k.versions = VersionsOver(k.cand)'
      PROVE  Sees(k)'
  <2>1. k.cand \in Candidates
    BY <1>2 DEF Sound, Late
  <2> QED
    BY <1>2, <2>1, SeesKept DEF Snap
<1> QED
  BY <1>1, <1>2, SoundKept, BehindKept DEF Snap

LEMMA CallsNext ==
  ASSUME TypeOK, TypeOK', CallsSound, SnapshotsSound, VersionsBehind, [Next]_vars
  PROVE  /\ CallsSound' /\ SnapshotsSound'
         /\ \A w \in Workers : Behind(call[w].versions)'
<1> USE NextDiscipline
<1>1. ASSUME NEW v \in Workers
      PROVE  \/ \E k : Step(v, k)
             \/ call'[v] = call[v]
             \/ \E k \in Calls : /\ call'[v] = k /\ Sound(k) /\ k.pc \notin Late
                                 /\ k.versions = NoVersions
  <2>1. CASE call' = call
    BY <2>1
  <2>2. CASE \E w \in Workers : Proceed(w)
    <3>1. PICK w \in Workers : Proceed(w)
      BY <2>2
    <3>2. PICK k : Step(w, k)
      BY <3>1, ProceedStep
    <3> QED
      BY <3>2 DEF Step, Goes, TypeOK
  <2>3. CASE \E w \in Workers : Dies(w)
    <3>1. PICK w \in Workers : Goes(w, Idle)
      BY <2>3 DEF Dies
    <3> QED
      BY <3>1, Blank, IdleSound DEF Goes, TypeOK
  <2>4. CASE \E w \in Workers, c \in Candidates, e \in Editions : Begin(w, c, e)
    <3>1. PICK w \in Workers, c \in Candidates :
            Goes(w, [Idle EXCEPT !.pc = "versions", !.cand = c, !.tries = 1])
      BY <2>4 DEF Begin
    <3> DEFINE k == [Idle EXCEPT !.pc = "versions", !.cand = c, !.tries = 1]
    <3>2. k.pc = "versions" /\ k.cand = c /\ k.works = {} /\ k.versions = NoVersions
      BY DEF Idle
    <3>3. 1 \in 0..Attempts
      BY ReservationAssumption
    <3>4. k \in Calls
      BY <3>3, Blank DEF Calls
    <3>5. Goes(w, k)
      BY <3>1
    <3> HIDE DEF k
    <3>6. Sound(k) /\ k.pc \notin Late
      BY <3>2 DEF Sound, Late
    <3> QED
      BY <3>2, <3>4, <3>5, <3>6 DEF Goes, TypeOK
  <2> QED
    BY <2>1, <2>2, <2>3, <2>4 DEF Next, World, Release, Advance, Resolve, vars
<1>2. ASSUME NEW v \in Workers
      PROVE  \E k \in Calls : call'[v] = k /\ Sound(k)' /\ Behind(k.versions)' /\ Snap(k)'
  <2>1. CASE \E k : Step(v, k)
    <3>1. PICK k : Step(v, k)
      BY <2>1
    <3>2. call'[v] = k /\ k \in Calls
      BY <3>1 DEF Step, Goes, TypeOK
    <3> QED
      BY <3>1, <3>2, StepKeeps
  <2>2. CASE call'[v] = call[v]
    <3>1. call[v] \in Calls /\ Sound(call[v]) /\ Behind(call[v].versions) /\ Snap(call[v])
      BY DEF TypeOK, CallsSound, VersionsBehind, SnapshotsSound, Snap
    <3>2. PICK k \in Calls : k = call[v]
      BY <3>1
    <3> QED
      BY <2>2, <3>1, <3>2, RestKeeps
  <2>3. CASE \E k \in Calls : /\ call'[v] = k /\ Sound(k) /\ k.pc \notin Late
                              /\ k.versions = NoVersions
    <3>1. PICK k \in Calls : call'[v] = k /\ Sound(k) /\ k.pc \notin Late /\ k.versions = NoVersions
      BY <2>3
    <3>2. Behind(k.versions) /\ Snap(k)
      BY <3>1, NoVersionsBehind DEF Snap
    <3> QED
      BY <3>1, <3>2, RestKeeps
  <2> QED
    BY <1>1, <2>1, <2>2, <2>3
<1> QED
  BY <1>2 DEF CallsSound, SnapshotsSound, Snap

\* A candidate whose snapshot is current, and holds no work of its signature, can
\* be sure that nobody has it.
LEMMA NobodyHasIt ==
  ASSUME TypeOK, NEW k \in Calls, k.cand \in Candidates, Sees(k), Exact(k) = {}
  PROVE  ~Claimed(k.cand)
<1> SUFFICES ASSUME NEW i \in Works, Active(i), Hash[Of(i)] = Hash[k.cand]
             PROVE  FALSE
  BY DEF Claimed
<1>1. Of(i) \in Candidates
  BY DEF TypeOK, Active, Of, NoWork, WorkRows, Evidence
<1>2. Meet(Of(i), k.cand)
  BY <1>1, ReservationAssumption DEF Meet
<1>3. i \in Ids(k)
  BY <1>2 DEF Sees, ActiveOn
<1> QED
  BY <1>3 DEF Exact

LEMMA ClaimedKept ==
  ASSUME TypeOK, TypeOK', Kept, NEW c \in Candidates,
         \A i \in Works : ActiveOn(i, c)' <=> ActiveOn(i, c),
         ~Claimed(c)
  PROVE  ~Claimed(c)'
<1> SUFFICES ASSUME NEW i \in Works, Active(i)', Hash[Of(i)'] = Hash[c]
             PROVE  FALSE
  BY DEF Claimed
<1>1. Of(i)' \in Candidates
  BY DEF TypeOK, Active, Of, NoWork, WorkRows, Evidence
<1>2. ActiveOn(i, c)'
  BY <1>1, ReservationAssumption DEF ActiveOn, Meet
<1>3. Active(i)
  BY <1>2 DEF ActiveOn
<1>4. Of(i)' = Of(i)
  BY <1>3 DEF Active, Kept, Of
<1> QED
  BY <1>3, <1>4 DEF Claimed

LEMMA ItemsNext ==
  ASSUME Inv, TypeOK', Discipline, Kept, [Next]_vars
  PROVE  ItemsSound' /\ \A c \in Candidates : Behind(item[c].versions)'
<1> USE DEF Inv
<1>1. ASSUME NEW c \in Candidates
      PROVE  \/ item'[c] = item[c]
             \/ item'[c] = NoItem
             \/ \E w \in Workers : Hold(w) /\ c = call[w].cand
                                   /\ item'[c] = [edition |-> call[w].edition, versions |-> call[w].versions]
  <2>1. CASE \E w \in Workers : Proceed(w)
    <3>1. PICK w \in Workers : Proceed(w)
      BY <2>1
    <3>2. CASE Hold(w)
      BY <3>2 DEF Hold, TypeOK
    <3> QED
      BY <3>1, <3>2
      DEF Proceed, ReadVersions, ReadWorks, ReadMemory, Decide, DecideExact, Suppress, DecideSafe,
          DecideCompared, Refuse, Reserve, Stale, MergeGrowth, MergeStale, MergeDoctor, CallsOnly
  <2>2. CASE \E e \in Candidates : Resolve(e)
    BY <2>2 DEF Resolve, TypeOK
  <2> QED
    BY <2>1, <2>2 DEF Next, World, Release, Advance, Dies, Begin, CallsOnly, vars
<1>2. ASSUME NEW c \in Candidates
      PROVE  /\ Behind(item'[c].versions)
             /\ item'[c].edition # 0 /\ item'[c].versions = VersionsOver(c) => ~Claimed(c)
  <2>1. CASE item'[c] = item[c]
    BY <2>1 DEF VersionsBehind, ItemsSound
  <2>2. CASE item'[c] = NoItem
    BY <2>2, NoVersionsBehind DEF NoItem
  <2>3. ASSUME NEW w \in Workers, Hold(w), c = call[w].cand,
               item'[c] = [edition |-> call[w].edition, versions |-> call[w].versions]
        PROVE  /\ Behind(item'[c].versions)
               /\ item'[c].edition # 0 /\ item'[c].versions = VersionsOver(c) => ~Claimed(c)
    <3>1. call[w] \in Calls /\ call[w].pc \in Late /\ Exact(call[w]) = {}
      BY <2>3 DEF Hold, Open, At, Late, TypeOK
    <3>2. Behind(item'[c].versions)
      BY <2>3 DEF VersionsBehind
    <3>3. call[w].versions = VersionsOver(c) => Sees(call[w])
      BY <2>3, <3>1 DEF SnapshotsSound
    <3> QED
      BY <2>3, <3>1, <3>2, <3>3, NobodyHasIt
  <2> QED
    BY <1>1, <2>1, <2>2, <2>3
<1>3. ASSUME NEW c \in Candidates
      PROVE  /\ Behind(item[c].versions)'
             /\ (item[c].edition # 0 /\ item[c].versions = VersionsOver(c) => ~Claimed(c))'
  <2>1. PICK vs \in VersionVectors : vs = item'[c].versions
    BY DEF TypeOK, Items
  <2>2. Behind(vs) /\ Behind(vs)'
    BY <1>2, <2>1, BehindKept
  <2>3. ASSUME item'[c].edition # 0, vs = VersionsOver(c)'
        PROVE  ~Claimed(c)'
    <3>1. vs = VersionsOver(c) /\ \A i \in Works : ActiveOn(i, c)' <=> ActiveOn(i, c)
      BY <2>2, <2>3, StillQuiet
    <3>2. ~Claimed(c)
      BY <1>2, <2>1, <2>3, <3>1
    <3> QED
      BY <3>1, <3>2, ClaimedKept
  <2> QED
    BY <2>1, <2>2, <2>3
<1> QED
  BY <1>3 DEF ItemsSound

LEMMA ComparedNext ==
  ASSUME Inv, TypeOK', Kept, [Next]_vars
  PROVE  ComparedWithAll'
<1> USE DEF Inv
<1>1. ASSUME \A i \in Works : /\ Active(i)' => Active(i)
                              /\ Active(i) => /\ work'[i].from = work[i].from
                                              /\ work'[i].against = work[i].against
      PROVE  ComparedWithAll'
  <2> SUFFICES ASSUME NEW i \in Works, NEW j \in Works, Active(i)', Active(j)', i # j,
                      Meet(Of(i), Of(j))'
               PROVE  (\E s \in work'[j].against : s.id = i) \/ (\E s \in work'[i].against : s.id = j)
    BY DEF ComparedWithAll
  <2>1. Active(i) /\ Active(j) /\ Meet(Of(i), Of(j))
    BY <1>1 DEF Of, Meet
  <2> QED
    BY <1>1, <2>1 DEF ComparedWithAll
<1>2. ASSUME NEW w \in Workers, NEW n \in Works, Reserve(w, n)
      PROVE  ComparedWithAll'
  <2>1. /\ call[w].cand \in Candidates /\ call[w].works = ActiveOver(call[w].cand)
        /\ work'[n].against = call[w].works
        /\ Of(n)' = call[w].cand
        /\ \A j \in Works \ {n} : work'[j] = work[j]
    BY <1>2, EvidenceType, ReserveDiscipline DEF Reserve, Reservable, StillCurrent, At, TypeOK
  <2>2. ASSUME NEW j \in Works, j # n, Active(j)', Meet(Of(j), Of(n))'
        PROVE  \E s \in work'[n].against : s.id = j
    <3>1. Active(j) /\ Meet(Of(j), call[w].cand)
      BY <2>1, <2>2 DEF Active, Of, Meet
    <3>2. j \in Ids(call[w])
      BY <2>1, <3>1, ActiveOverIds DEF ActiveOn
    <3> QED
      BY <2>1, <3>2 DEF Ids
  <2> SUFFICES ASSUME NEW i \in Works, NEW j \in Works, Active(i)', Active(j)', i # j,
                      Meet(Of(i), Of(j))'
               PROVE  (\E s \in work'[j].against : s.id = i) \/ (\E s \in work'[i].against : s.id = j)
    BY DEF ComparedWithAll
  <2>3. CASE i = n \/ j = n
    <3>1. Meet(Of(j), Of(i))'
      BY DEF Meet
    <3> QED
      BY <2>2, <2>3, <3>1
  <2>4. CASE i # n /\ j # n
    <3>1. Active(i) /\ Active(j) /\ Meet(Of(i), Of(j)) /\ work'[i] = work[i] /\ work'[j] = work[j]
      BY <2>1, <2>4 DEF Active, Of, Meet
    <3> QED
      BY <3>1 DEF ComparedWithAll
  <2> QED
    BY <2>3, <2>4
<1>3. CASE work' = work
  BY <1>1, <1>3 DEF Active
<1>4. ASSUME NEW w \in Workers, Proceed(w)
      PROVE  ComparedWithAll'
  <2>1. CASE MergeGrowth(w)
    BY <1>1, <2>1, MergeDiscipline DEF Active
  <2> QED
    BY <1>2, <1>3, <1>4, <2>1
    DEF Proceed, ReadVersions, ReadWorks, ReadMemory, Decide, DecideExact, Suppress, DecideSafe,
        DecideCompared, Refuse, Hold, Stale, MergeStale, MergeDoctor, CallsOnly
<1>5. ASSUME NEW i \in Works, Release(i)
      PROVE  ComparedWithAll'
  <2>1. /\ ~Active(i)' /\ \A j \in Works \ {i} : work'[j] = work[j]
        /\ work'[i].from = work[i].from /\ work'[i].against = work[i].against
        /\ Active(i)
    <3>1. Active(i) /\ work[i] \in WorkRows
      BY <1>5 DEF Release, Doctors, TypeOK, Active, NoWork
    <3> QED
      BY <1>5, <3>1, ReleaseDiscipline DEF Release, TypeOK, WorkRows
  <2> QED
    BY <1>1, <2>1 DEF Active
<1> QED
  BY <1>3, <1>4, <1>5 DEF Next, World, Advance, Resolve, Dies, Begin, CallsOnly, vars

LEMMA Initially == Init => Inv
<1> SUFFICES ASSUME Init
             PROVE  Inv
  OBVIOUS
<1>1. TypeOK
  BY Blank, ReservationAssumption DEF Init, TypeOK, NoWork
<1>2. CallsSound /\ SnapshotsSound
  BY IdleSound DEF Init, CallsSound, SnapshotsSound
<1>3. VersionsBehind
  BY <1>1, IdleSound, NoVersionsBehind DEF Init, VersionsBehind, NoItem
<1>4. ItemsSound /\ ComparedWithAll
  BY DEF Init, ItemsSound, ComparedWithAll, NoItem, Active, NoWork
<1> QED
  BY <1>1, <1>2, <1>3, <1>4 DEF Inv

LEMMA Inductive ==
  ASSUME Inv, [Next]_vars
  PROVE  Inv'
<1> USE DEF Inv
<1>1. TypeOK'
  <2>1. CASE UNCHANGED vars
    BY <2>1 DEF vars, TypeOK, Items, Calls, VersionVectors, WorkRows, NoWork, NoEvidence, Snapshots,
                Evidence
  <2> QED
    BY <2>1, NextType
<1>2. Discipline /\ Kept
  BY NextDiscipline
<1>3. CallsSound' /\ SnapshotsSound' /\ \A w \in Workers : Behind(call[w].versions)'
  BY <1>1, CallsNext
<1>4. ItemsSound' /\ \A c \in Candidates : Behind(item[c].versions)'
  BY <1>1, <1>2, ItemsNext
<1>5. ComparedWithAll'
  BY <1>1, <1>2, ComparedNext
<1> QED
  BY <1>1, <1>3, <1>4, <1>5 DEF VersionsBehind

\* The inductive invariant holds: versions that are current vouch for the snapshot they
\* were read with.
THEOREM Invariance == Spec => []Inv
BY Initially, Inductive, PTL DEF Spec

-----------------------------------------------------------------------------
(* What follows.                                                           *)

\* Every variable keeps its type.
THEOREM TypeCorrect == Spec => []TypeOK
BY Invariance, PTL DEF Inv

\* No two active pieces of work that share a bucket were reserved without one of
\* them having been compared with the other, for any number of calls.
THEOREM ComparedWithAllHolds == Spec => []ComparedWithAll
BY Invariance, PTL DEF Inv

\* A growth merge whose versions are current has an active target.
LEMMA MergeFinds == Inv => MergeFindsItsWork
<1> SUFFICES ASSUME Inv, NEW w \in Workers, At(w, "merge"), SameVersions(call[w]),
                    NEW i \in call[w].over
             PROVE  Active(i)
  BY DEF MergeFindsItsWork
<1>1. call[w] \in Calls /\ Sound(call[w]) /\ call[w].pc \in Late
  BY DEF Inv, TypeOK, CallsSound, At, Late
<1>2. Sees(call[w])
  BY <1>1 DEF Inv, SnapshotsSound, SameVersions
<1>3. i \in Ids(call[w]) /\ i \in Works
  BY <1>1, IdsType DEF Sound, At
<1> QED
  BY <1>2, <1>3 DEF Sees, ActiveOn

\* What versions alone are asked of: a merge that compares them needs no fingerprint.
THEOREM MergeFindsItsWorkHolds == Spec => []MergeFindsItsWork
BY Invariance, MergeFinds, PTL

\* Every change of the active work in a bucket moves the bucket's version.
THEOREM DisciplineHolds == Spec => [][Discipline]_vars
<1>1. Inv /\ [Next]_vars => [Discipline]_vars
  BY NextDiscipline DEF Inv
<1> QED
  BY <1>1, Invariance, PTL DEF Spec

-----------------------------------------------------------------------------
(* Refinement.                                                             *)

\* Nobody dismisses work that somebody has.
LEMMA ResolveFree ==
  ASSUME Inv, NEW c \in Candidates, Resolve(c)
  PROVE  ~Claimed(c)
<1>1. item[c].edition = edition[c] /\ item[c].versions = VersionsOver(c)
  BY DEF Resolve, ItemCurrent
<1>2. item[c].edition # 0
  BY <1>1, ReservationAssumption DEF Inv, TypeOK
<1> QED
  BY <1>1, <1>2 DEF Inv, ItemsSound

LEMMA SameClaims ==
  ASSUME NEW c
  PROVE  Claimed(c) <=> Atomic!Claimed(c)
BY DEF Claimed, Atomic!Claimed, Active, Atomic!Active, Of

LEMMA SameActive ==
  ASSUME NEW c
  PROVE  ActiveOver(c) = Atomic!ActiveOver(c)
BY DEF ActiveOver, Atomic!ActiveOver, Active, Atomic!Active, Of, Meet

LEMMA ReserveImplements ==
  ASSUME Inv, NEW w \in Workers, NEW i \in Works, Reserve(w, i)
  PROVE  \E e \in Evidence : Atomic!Reserve(i, e)
<1> DEFINE e == EvidenceOf(call[w])
<1>1. call[w].cand \in Candidates /\ e \in Evidence /\ Sound(call[w])
  BY EvidenceType DEF Inv, Reserve, At, CallsSound
<1>2. e.cand = call[w].cand
  BY DEF EvidenceOf
<1>3. e \notin memory
  <2>1. ~Dismissed(call[w]) /\ call[w].memory = MemoryOver(call[w].cand)
    BY <1>1 DEF Sound, Reserve, At, Reservable, StillCurrent
  <2>2. Meet(e.cand, call[w].cand)
    BY <1>1, <1>2, ReservationAssumption DEF Meet
  <2> QED
    BY <2>1, <2>2 DEF Dismissed, MemoryOver
<1>4. call[w].works = Atomic!ActiveOver(call[w].cand) /\ ~Atomic!Claimed(call[w].cand)
  BY SameActive, SameClaims DEF Reserve, Reservable, StillCurrent
<1>5. /\ work[i] = NoWork /\ UNCHANGED memory
      /\ work' = [work EXCEPT ![i] = [state |-> "active", from |-> e, evidence |-> e,
                                      against |-> call[w].works]]
  BY DEF Reserve
<1> HIDE DEF e
<1>6. Atomic!Reserve(i, e)
  BY <1>2, <1>3, <1>4, <1>5 DEF Atomic!Reserve
<1> QED
  BY <1>1, <1>6

LEMMA MergeImplements ==
  ASSUME Inv, NEW w \in Workers, MergeGrowth(w)
  PROVE  \/ \E i \in Works, e \in Evidence : Atomic!Merge(i, e)
         \/ UNCHANGED <<work, memory>>
<1> DEFINE e == EvidenceOf(call[w])
           i == CHOOSE x \in call[w].over : TRUE
<1>1. /\ call[w] \in Calls /\ Sound(call[w]) /\ call[w].pc = "merge" /\ e \in Evidence
      /\ call[w].over = {i}
  BY EvidenceType DEF Inv, TypeOK, MergeGrowth, At, CallsSound
<1>2. i \in Works
  BY <1>1, IdsType DEF Sound
<1>3. UNCHANGED memory
  BY DEF MergeGrowth
<1>4. CASE ~Active(i)
  BY <1>3, <1>4 DEF MergeGrowth
<1>5. CASE Active(i)
  <2>1. work' = [work EXCEPT ![i].evidence = e]
    BY <1>5 DEF MergeGrowth
  <2> HIDE DEF e, i
  <2>2. Atomic!Merge(i, e)
    BY <1>3, <1>5, <2>1 DEF Atomic!Merge, Atomic!Active, Active
  <2> QED
    BY <1>1, <1>2, <2>2
<1> QED
  BY <1>4, <1>5

LEMMA StepImplements ==
  ASSUME Inv, [Next]_vars
  PROVE  [Atomic!Next]_<<work, memory>>
<1>1. ASSUME NEW w \in Workers, Proceed(w)
      PROVE  [Atomic!Next]_<<work, memory>>
  <2>1. CASE \E i \in Works : Reserve(w, i)
    BY <2>1, ReserveImplements DEF Atomic!Next
  <2>2. CASE MergeGrowth(w)
    BY <2>2, MergeImplements DEF Atomic!Next
  <2> QED
    BY <1>1, <2>1, <2>2
    DEF Proceed, ReadVersions, ReadWorks, ReadMemory, Decide, DecideExact, Suppress, DecideSafe,
        DecideCompared, Refuse, Hold, Stale, MergeStale, MergeDoctor, CallsOnly
<1>2. ASSUME NEW i \in Works, Release(i)
      PROVE  Atomic!Next
  <2>1. Atomic!Release(i)
    BY <1>2 DEF Release, Doctors, Atomic!Release, Atomic!Active, Active
  <2> QED
    BY <2>1 DEF Atomic!Next
<1>3. ASSUME NEW c \in Candidates, Resolve(c)
      PROVE  [Atomic!Next]_<<work, memory>>
  <2> DEFINE e == [cand |-> c, edition |-> edition[c]]
  <2>1. e \in Evidence /\ e.cand = c
    BY DEF Inv, TypeOK, Evidence
  <2>2. ~Atomic!Claimed(c)
    BY <1>3, ResolveFree, SameClaims
  <2>3. UNCHANGED work /\ memory' \in {memory, {m \in memory : Hash[m.cand] # Hash[c]} \cup {e}}
    BY <1>3 DEF Resolve
  <2> HIDE DEF e
  <2>4. CASE memory' = memory
    BY <2>3, <2>4
  <2>5. CASE memory' = {m \in memory : Hash[m.cand] # Hash[c]} \cup {e}
    <3>1. Atomic!Dismiss(e)
      BY <2>1, <2>2, <2>3, <2>5 DEF Atomic!Dismiss
    <3> QED
      BY <2>1, <3>1 DEF Atomic!Next
  <2> QED
    BY <2>3, <2>4, <2>5
<1> QED
  BY <1>1, <1>2, <1>3 DEF Next, World, Advance, Dies, Begin, CallsOnly, vars

\* Two phases, their snapshots and retries do what arbitration in one step does.
THEOREM ImplementsArbitration == Spec => IsAtomic
<1>1. Init => Atomic!Init
  BY DEF Init, Atomic!Init
<1>2. Inv /\ [Next]_vars => [Atomic!Next]_<<work, memory>>
  BY StepImplements
<1> QED
  BY <1>1, <1>2, Invariance, PTL DEF Spec, IsAtomic, Atomic!Spec
=============================================================================
