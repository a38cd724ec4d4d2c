------------------------- MODULE MCWorkReservation -------------------------
(***************************************************************************)
(* WorkReservation for TLC, with budgets of calls, of what the rest of the *)
(* system does meanwhile, and of calls that die.                           *)
(***************************************************************************)
EXTENDS WorkReservation, TLC

CONSTANTS MaxCalls,  \* bound: calls in a behaviour
          MaxOps,    \* bound: steps of fixes and reviewers in a behaviour
          MaxDeaths, \* bound: calls that die in a behaviour
          g, h, d    \* two growth candidates and one of Doctor

\* h shares a bucket with each of the others, which share none.
MCLine == g :> "growth" @@ h :> "growth" @@ d :> "doctor"
MCHash == g :> g @@ h :> h @@ d :> d
MCKeys == g :> {"b1"} @@ h :> {"b1", "b2"} @@ d :> {"b2"}
MCDependency ==
  [c \in Candidates |-> [e \in Candidates |-> IF c = h /\ e = d THEN "hard" ELSE "none"]]

VARIABLES calls, ops, deaths

mcVars == <<vars, calls, ops, deaths>>

MCInit == Init /\ calls = 0 /\ ops = 0 /\ deaths = 0

\* Ids are drawn anew for each signature, so any one that is free will do.
Free == {i \in Works : work[i] = NoWork}
Fresh == IF Free = {} THEN {} ELSE {CHOOSE i \in Free : TRUE}

\* What w does by itself once it has begun.
Runs(w) ==
  /\ \/ ReadVersions(w) \/ ReadWorks(w) \/ ReadMemory(w) \/ Decide(w)
     \/ \E i \in Fresh : Reserve(w, i)
     \/ Stale(w) \/ MergeGrowth(w) \/ MergeStale(w) \/ MergeDoctor(w)
  /\ UNCHANGED <<calls, ops, deaths>>

MCNext ==
  \/ \E w \in Workers : Runs(w)
  \/ /\ calls < MaxCalls /\ calls' = calls + 1 /\ UNCHANGED <<ops, deaths>>
     /\ \E w \in Workers, c \in Candidates, e \in Editions : Begin(w, c, e)
  \/ /\ ops < MaxOps /\ ops' = ops + 1 /\ UNCHANGED <<calls, deaths>>
     /\ World
  \/ /\ deaths < MaxDeaths /\ deaths' = deaths + 1 /\ UNCHANGED <<calls, ops>>
     /\ \E w \in Workers : Dies(w)

\* A call is one goroutine, its statements and its request to the model have
\* deadlines, so it goes on until it ends.
Fairness == \A w \in Workers : WF_mcVars(Runs(w))

MCSpec == MCInit /\ [][MCNext]_mcVars /\ Fairness

\* Every call ends, however often its snapshot turns out to be stale.
CallsEnd == \A w \in Workers : call[w] # Idle ~> call[w] = Idle

\* docs/PRD-CiteLoop-Doctor-Opportunities-Two-Line-Optimization.md:916 has phase B
\* go back to phase A where the snapshot is no longer that of phase A: blocked work
\* whose snapshot has not changed, and whose overlaps the creator accepts, is not
\* told that it is stale.
Unchanged(k) == SameVersions(k) /\ k.works = ActiveOver(k.cand) /\ k.memory = MemoryOver(k.cand)

BlockedIsReserved ==
  [][\A w \in Workers :
       At(w, "reserve") /\ call[w].decision = "block" /\ Unchanged(call[w]) /\ Relates(call[w])
         => ~Stale(w)]_vars
=============================================================================
