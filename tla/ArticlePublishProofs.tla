------------------------ MODULE ArticlePublishProofs ------------------------
(***************************************************************************)
(* Proofs about ArticlePublish, for any articles, paths, ticks and delays. *)
(*                                                                         *)
(* A row gets its path once.  So every copy a tick works from, and every   *)
(* row an open transaction has staged, agrees with the row on the path,    *)
(* however old it is; and that is all the unconditional marks rely on.     *)
(***************************************************************************)
EXTENDS ArticlePublish, TLAPS

Held(k) == k.todo \cup k.cur

\* What was committed has a path; what was verified is live.
RowOK(r) ==
  /\ r.result \/ r.status \in {"pending_url_verification", "published"} => r.path \in Paths
  /\ r.url \/ r.status = "published" => r.path \in live

RowsSound ==
  /\ \A a \in Articles : RowOK(art[a])
  /\ \A a \in DOMAIN staged : RowOK(staged[a]) /\ staged[a].path = art[a].path

CopiesFollow ==
  \A w \in Workers : \A c \in Held(call[w]) : art[c.article].path = c.path

MarksLive ==
  \A w \in Workers : call[w].pc = "marking" => \A c \in call[w].cur : c.path \in live

\* The loop has one article in hand.
OneInHand == \A w \in Workers : \A c, d \in call[w].cur : c = d

LiveIsCommitted == \A p \in live : file[p] # NoArticle

LockHeld == \A w \in Workers : call[w].pc = "checking" => lock = w

StagedUnderLock == lock = NoOne => DOMAIN staged = {}

Inv == /\ TypeOK /\ RowsSound /\ CopiesFollow /\ OneInHand /\ MarksLive
       /\ LiveIsCommitted /\ LockHeld /\ StagedUnderLock /\ OneFile /\ VariantNeverAhead

\* Paths are given once.
PathsStay == \A a \in Articles : art[a].path \in Paths => art'[a].path = art[a].path

-----------------------------------------------------------------------------
(* The table and the calls, one change at a time.                          *)

\* Backoff times are times.
LEMMA DelayType ==
  ASSUME NEW n \in 0 .. Len(Delays) + 1
  PROVE  Delay(n) \in Times
BY PublishAssumption DEF Delay, Times

\* A copy's fields.
LEMMA CopyFields ==
  ASSUME NEW c \in Copies
  PROVE  /\ c.article \in Articles /\ c.path \in Paths /\ c.retry \in Times
         /\ c.attempts \in 0 .. Len(Delays) + 1 /\ c.status \in Statuses
BY DEF Copies

\* Only the call of w changes, to k.
LEMMA CallChange ==
  ASSUME TypeOK, CopiesFollow, OneInHand, MarksLive, LockHeld, PathsStay,
         live \subseteq live',
         NEW w \in Workers, NEW k \in Calls, call' = [call EXCEPT ![w] = k],
         \A v \in Workers \ {w} : lock = v => lock' = v,
         \A c \in Held(k) : art'[c.article].path = c.path, \A c, d \in k.cur : c = d,
         k.pc = "marking" => \A c \in k.cur : c.path \in live',
         k.pc = "checking" => lock' = w
  PROVE  /\ call' \in [Workers -> Calls]
         /\ CopiesFollow' /\ OneInHand' /\ MarksLive' /\ LockHeld'
<1>1. call \in [Workers -> Calls]
  BY DEF TypeOK
<1>2. \A v \in Workers : call'[v] = IF v = w THEN k ELSE call[v]
  BY <1>1
<1>3. call' \in [Workers -> Calls]
  BY <1>1
<1>4. ASSUME NEW v \in Workers, NEW c \in Held(call'[v]) PROVE art'[c.article].path = c.path
  <2>1. CASE v = w
    BY <2>1, <1>2, <1>4
  <2>2. CASE v # w
    <3>1. c \in Held(call[v])
      BY <2>2, <1>2, <1>4
    <3>2. c \in Copies
      BY <3>1, <1>1 DEF Held, Calls
    <3>3. c.article \in Articles /\ c.path \in Paths
      BY <3>2, CopyFields
    <3>4. art[c.article].path = c.path
      BY <3>1 DEF CopiesFollow
    <3>. QED BY <3>3, <3>4 DEF PathsStay
  <2>. QED BY <2>1, <2>2
<1>5. CopiesFollow'
  BY <1>4 DEF CopiesFollow, Held
<1>6. MarksLive'
  BY <1>2 DEF MarksLive
<1>7. LockHeld'
  BY <1>2 DEF LockHeld
<1>8. OneInHand'
  BY <1>2 DEF OneInHand
<1>. QED BY <1>3, <1>5, <1>6, <1>7, <1>8

\* Only the row of a changes, to r, outside any transaction.
LEMMA RowChange ==
  ASSUME TypeOK, RowsSound, OneFile, LiveIsCommitted, StagedUnderLock, VariantNeverAhead,
         NEW a \in Articles, NEW r \in Rows, Updates(a, r), UNCHANGED <<webVars, txVars>>,
         RowOK(r), art[a].path \in Paths => r.path = art[a].path
  PROVE  /\ art' \in [Articles -> Rows] /\ PathsStay
         /\ RowsSound' /\ OneFile' /\ LiveIsCommitted' /\ StagedUnderLock'
         /\ VariantNeverAhead'
<1>. USE DEF webVars, txVars
<1>1. art \in [Articles -> Rows] /\ DOMAIN staged \subseteq Articles
      /\ file \in [Paths -> Articles \cup {NoArticle}]
  BY DEF TypeOK
<1>2. a \notin DOMAIN staged /\ art' = [art EXCEPT ![a] = r]
  BY DEF Updates
<1>3. \A b \in Articles : art'[b] = IF b = a THEN r ELSE art[b]
  BY <1>1, <1>2
<1>4. art' \in [Articles -> Rows]
  BY <1>1, <1>2
<1>5. PathsStay
  BY <1>3 DEF PathsStay
<1>6. RowsSound'
  BY <1>1, <1>2, <1>3 DEF RowsSound, RowOK
<1>7. OneFile'
  BY <1>3, <1>5 DEF OneFile, PathsStay
<1>8. LiveIsCommitted' /\ StagedUnderLock'
  BY DEF LiveIsCommitted, StagedUnderLock
<1>9. VariantNeverAhead'
  BY <1>5 DEF VariantNeverAhead, PathsStay, Updates, TypeOK
<1>. QED BY <1>4, <1>5, <1>6, <1>7, <1>8, <1>9

\* Only the repository changes: at most it gets the text of the copy c.
LEMMA WebChange ==
  ASSUME Inv, UNCHANGED <<rowVars, txVars>>, NEW c \in Copies,
         UNCHANGED webVars \/ (Commits(c) /\ art[c.article].path = c.path)
  PROVE  /\ PathsStay /\ live' = live /\ file' \in [Paths -> Articles \cup {NoArticle}]
         /\ RowsSound' /\ OneFile' /\ LiveIsCommitted' /\ StagedUnderLock'
         /\ VariantNeverAhead'
<1>. USE DEF rowVars, txVars, webVars, Inv
<1>1. live' = live /\ UNCHANGED <<art, slug, variant, lock, staged>>
  BY DEF Commits
<1>2. PathsStay /\ RowsSound' /\ StagedUnderLock' /\ VariantNeverAhead'
  BY <1>1 DEF PathsStay, RowsSound, RowOK, StagedUnderLock, VariantNeverAhead
<1>3. CASE UNCHANGED webVars
  BY <1>1, <1>2, <1>3 DEF OneFile, LiveIsCommitted, TypeOK
<1>4. CASE Commits(c) /\ art[c.article].path = c.path
  <2>1. c.article \in Articles /\ c.path \in Paths /\ c.article # NoArticle
    BY CopyFields, PublishAssumption
  <2>2. file \in [Paths -> Articles \cup {NoArticle}] /\ live \subseteq Paths
    BY DEF TypeOK
  <2>3. \A p \in Paths : file'[p] = IF p = c.path THEN c.article ELSE file[p]
    BY <1>4, <2>2 DEF Commits
  <2>4. file' \in [Paths -> Articles \cup {NoArticle}]
    BY <1>4, <2>1, <2>2 DEF Commits
  <2>5. OneFile'
    BY <1>1, <1>4, <2>3 DEF OneFile
  <2>6. LiveIsCommitted'
    BY <1>1, <2>1, <2>2, <2>3 DEF LiveIsCommitted
  <2>. QED BY <1>1, <1>2, <2>4, <2>5, <2>6
<1>. QED BY <1>3, <1>4

\* A step of w's call that writes no row.
LEMMA CallStep ==
  ASSUME Inv, UNCHANGED <<rowVars, webVars, txVars>>,
         NEW w \in Workers, NEW k \in Calls, call' = [call EXCEPT ![w] = k],
         \A c \in Held(k) : art[c.article].path = c.path, \A c, d \in k.cur : c = d,
         k.pc = "marking" => \A c \in k.cur : c.path \in live,
         k.pc # "checking"
  PROVE  Inv'
<1>. USE DEF rowVars, txVars, webVars, Inv
<1>1. PathsStay
  BY DEF PathsStay
<1>2. call' \in [Workers -> Calls] /\ CopiesFollow' /\ OneInHand' /\ MarksLive' /\ LockHeld'
  BY <1>1, CallChange
<1>3. TypeOK'
  BY <1>2 DEF TypeOK
<1>4. /\ RowsSound' /\ OneFile' /\ LiveIsCommitted' /\ StagedUnderLock'
      /\ VariantNeverAhead'
  BY DEF RowsSound, RowOK, OneFile, LiveIsCommitted, StagedUnderLock, VariantNeverAhead
<1>. QED BY <1>2, <1>3, <1>4

\* A step of w's call that sends the text of the copy c, or does not.
LEMMA WriteStep ==
  ASSUME Inv, UNCHANGED <<rowVars, txVars>>, NEW w \in Workers, NEW c \in call[w].cur,
         UNCHANGED webVars \/ Commits(c), NEW k \in Calls, call' = [call EXCEPT ![w] = k],
         Held(k) \subseteq Held(call[w]), k.cur \subseteq call[w].cur,
         k.pc \notin {"marking", "checking"}
  PROVE  Inv'
<1>. USE DEF Inv
<1>1. call[w] \in Calls /\ c \in Copies /\ art[c.article].path = c.path
  BY DEF TypeOK, Calls, CopiesFollow, Held
<1>2. /\ PathsStay /\ live' = live /\ file' \in [Paths -> Articles \cup {NoArticle}]
      /\ RowsSound' /\ OneFile' /\ LiveIsCommitted' /\ StagedUnderLock'
      /\ VariantNeverAhead'
  BY <1>1, WebChange
<1>3. (\A d \in Held(k) : art'[d.article].path = d.path) /\ \A d, e \in k.cur : d = e
  BY DEF CopiesFollow, OneInHand, rowVars
<1>4. call' \in [Workers -> Calls] /\ CopiesFollow' /\ OneInHand' /\ MarksLive' /\ LockHeld'
  BY <1>2, <1>3, CallChange DEF txVars
<1>5. TypeOK'
  BY <1>2, <1>4 DEF TypeOK, rowVars, txVars
<1>. QED BY <1>2, <1>4, <1>5

\* A step that writes the row of a, and moves the call of w to k.
LEMMA RowStep ==
  ASSUME Inv, NEW a \in Articles, NEW r \in Rows, Updates(a, r),
         UNCHANGED <<webVars, txVars>>, RowOK(r),
         art[a].path \in Paths => r.path = art[a].path,
         NEW w \in Workers, NEW k \in Calls, call' = [call EXCEPT ![w] = k],
         Held(k) \subseteq Held(call[w]), k.cur \subseteq call[w].cur,
         k.pc \notin {"marking", "checking"}
  PROVE  Inv'
<1>. USE DEF Inv
<1>1. /\ art' \in [Articles -> Rows] /\ PathsStay /\ RowsSound' /\ OneFile'
      /\ LiveIsCommitted' /\ StagedUnderLock' /\ VariantNeverAhead'
  BY RowChange
<1>2. \A d \in Held(k) : art'[d.article].path = d.path
  <2>. SUFFICES ASSUME NEW d \in Held(k) PROVE art'[d.article].path = d.path
    OBVIOUS
  <2>1. art[d.article].path = d.path /\ d \in Copies
    BY DEF CopiesFollow, Held, Calls
  <2>2. d.article \in Articles /\ d.path \in Paths
    BY <2>1, CopyFields
  <2>. QED BY <1>1, <2>1, <2>2 DEF PathsStay
<1>3. \A d, e \in k.cur : d = e
  BY DEF OneInHand
<1>4. call' \in [Workers -> Calls] /\ CopiesFollow' /\ OneInHand' /\ MarksLive' /\ LockHeld'
  BY <1>1, <1>2, <1>3, CallChange DEF webVars, txVars
<1>5. TypeOK'
  BY <1>1, <1>4 DEF TypeOK, Updates, webVars, txVars
<1>. QED BY <1>1, <1>4, <1>5

-----------------------------------------------------------------------------
(* The loop of publishForProject.                                          *)

\* Nothing is held when a behaviour starts.
LEMMA InitInv == Init => Inv
<1>. SUFFICES ASSUME Init PROVE Inv
  OBVIOUS
<1>1. TypeOK
  BY PublishAssumption DEF Init, TypeOK, Idle, NoRows, Rows, Calls, Statuses, Times
<1>2. RowsSound /\ OneFile /\ LiveIsCommitted /\ VariantNeverAhead
  BY PublishAssumption DEF Init, RowsSound, RowOK, NoRows, OneFile, LiveIsCommitted,
                           VariantNeverAhead
<1>3. CopiesFollow /\ OneInHand /\ MarksLive /\ LockHeld /\ StagedUnderLock
  BY DEF Init, CopiesFollow, OneInHand, MarksLive, LockHeld, StagedUnderLock, Idle, Held, NoRows
<1>. QED BY <1>1, <1>2, <1>3 DEF Inv

\* The idle call.
LEMMA IdleType ==
  /\ Idle \in Calls /\ Held(Idle) = {} /\ Idle.cur = {} /\ Idle.pc = "idle"
  /\ \A p \in {"idle", "reconciling", "unlocking"}, t \in BOOLEAN :
       LET k == [Idle EXCEPT !.pc = p, !.tick = t] IN
       k \in Calls /\ Held(k) = {} /\ k.cur = {} /\ k.pc = p
BY DEF Idle, Calls, Held

\* A tick prepares what is due: rows get a path, and it copies them with it.
LEMMA PrepareInv ==
  ASSUME Inv, NEW w \in Workers, Prepare(w)
  PROVE  Inv'
<1>. DEFINE due == {a \in Articles : IsDue(a)}
            todo == {Copy(a, Prepared(a)) : a \in due}
            pc   == IF due = {} THEN "reconciling" ELSE "connecting"
            k    == [Idle EXCEPT !.pc = pc, !.todo = todo]
<1>. USE DEF Inv
<1>1. /\ art' = [a \in Articles |-> IF a \in due THEN Prepared(a) ELSE art[a]]
      /\ call' = [call EXCEPT ![w] = k]
      /\ UNCHANGED <<slug, variant, file, live, lock, staged>> /\ lock = NoOne
  BY DEF Prepare, webVars, txVars
<1>2. art \in [Articles -> Rows] /\ slug \in [Articles -> Paths]
  BY DEF TypeOK
<1>3. ASSUME NEW a \in Articles
      PROVE  /\ Prepared(a) \in Rows /\ Prepared(a).path \in Paths
             /\ art[a].path \in Paths => Prepared(a).path = art[a].path
             /\ Prepared(a).status = art[a].status /\ Prepared(a).url = art[a].url
  <2>1. art[a] \in Rows /\ slug[a] \in Paths
    BY <1>2
  <2>2. /\ Resolve(a) \in Paths
        /\ art[a].path \in Paths => Resolve(a) = art[a].path
    BY <2>1, PublishAssumption DEF Resolve, Rows
  <2>3. Attempted(art[a].attempts) \in 0 .. Len(Delays) + 1
    <3>1. art[a].attempts \in 0 .. Len(Delays) + 1 /\ Len(Delays) \in Nat
      BY <2>1, PublishAssumption DEF Rows
    <3>. QED BY <3>1 DEF Attempted
  <2>4. Prepared(a) = [art[a] EXCEPT !.path = Resolve(a),
                         !.attempts = Attempted(art[a].attempts), !.retry = Never]
    BY DEF Prepared
  <2>5. Resolve(a) \in Paths \cup {NoPath} /\ Never \in Times
    BY <2>2 DEF Times
  <2>. QED BY <2>1, <2>2, <2>3, <2>4, <2>5 DEF Rows
<1>4. ASSUME NEW a \in Articles PROVE Copy(a, Prepared(a)) \in Copies
  <2>1. Prepared(a) \in Rows /\ Prepared(a).path \in Paths
    BY <1>3
  <2>. QED BY <2>1 DEF Copy, Copies, Rows
<1>. HIDE DEF due
<1>5. due \subseteq Articles
  BY DEF due
<1>6. /\ todo \subseteq Copies /\ k \in Calls /\ Held(k) = todo /\ k.cur = {}
      /\ k.pc \in {"reconciling", "connecting"}
  <2>1. todo \subseteq Copies
    BY <1>4, <1>5
  <2>2. pc \in {"reconciling", "connecting"}
    OBVIOUS
  <2>. HIDE DEF todo, pc
  <2>. QED BY <2>1, <2>2 DEF Idle, Calls, Held
<1>7. \A a \in Articles : art'[a] = IF a \in due THEN Prepared(a) ELSE art[a]
  BY <1>1
<1>8. PathsStay /\ art' \in [Articles -> Rows]
  BY <1>1, <1>2, <1>3, <1>7 DEF PathsStay
<1>9. ASSUME NEW c \in Held(k) PROVE art'[c.article].path = c.path
  <2>1. c \in todo
    BY <1>6, <1>9
  <2>2. PICK a \in due : c = Copy(a, Prepared(a))
    BY <2>1
  <2>3. c.article = a /\ c.path = Prepared(a).path
    BY <2>2 DEF Copy
  <2>. HIDE DEF k, todo
  <2>. QED BY <2>3, <1>5, <1>7
<1>. HIDE DEF k, todo, pc
<1>10. call' \in [Workers -> Calls] /\ CopiesFollow' /\ OneInHand' /\ MarksLive' /\ LockHeld'
  BY <1>1, <1>6, <1>8, <1>9, CallChange
<1>11. TypeOK'
  BY <1>1, <1>8, <1>10 DEF TypeOK
<1>12. RowsSound'
  <2>1. DOMAIN staged' = {}
    BY <1>1 DEF StagedUnderLock
  <2>2. ASSUME NEW a \in Articles PROVE RowOK(art[a])'
    <3>1. RowOK(art[a])
      BY DEF RowsSound
    <3>2. CASE a \in due
      BY <3>1, <3>2, <1>1, <1>3, <1>7 DEF RowOK, TypeOK
    <3>3. CASE a \notin due
      BY <3>1, <3>3, <1>1, <1>7 DEF RowOK
    <3>. QED BY <3>2, <3>3
  <2>. QED BY <2>1, <2>2 DEF RowsSound
<1>13. OneFile'
  BY <1>1, <1>8 DEF OneFile, PathsStay
<1>14. LiveIsCommitted' /\ StagedUnderLock' /\ VariantNeverAhead'
  BY <1>1, <1>8 DEF LiveIsCommitted, StagedUnderLock, VariantNeverAhead, PathsStay, TypeOK
<1>. QED BY <1>10, <1>11, <1>12, <1>13, <1>14

\* Steps between the calls, and the look at the repository.
LEMMA ReadInv ==
  ASSUME Inv, NEW w \in Workers, Connect(w) \/ StartWrite(w) \/ Verify(w) \/ ReconcileNow(w)
  PROVE  Inv'
<1>. USE DEF Inv
<1>1. call[w] \in Calls /\ file \in [Paths -> Articles \cup {NoArticle}]
      /\ call \in [Workers -> Calls]
  BY DEF TypeOK
<1>2. /\ \A c \in Held(call[w]) : art[c.article].path = c.path
      /\ \A c, d \in call[w].cur : c = d
  BY DEF CopiesFollow, OneInHand
<1>3. CASE Connect(w)
  <2>. DEFINE k == [call[w] EXCEPT !.pc = "publishing"]
  <2>1. k \in Calls /\ Held(k) = Held(call[w]) /\ k.cur = call[w].cur
        /\ k.pc = "publishing"
    BY <1>1 DEF Calls, Held
  <2>2. call' = [call EXCEPT ![w] = k]
    BY <1>1, <1>3 DEF Connect
  <2>. HIDE DEF k
  <2>3. /\ \A d \in Held(k) : art[d.article].path = d.path
        /\ \A d, e \in k.cur : d = e
    BY <1>2, <2>1
  <2>4. UNCHANGED <<rowVars, webVars, txVars>>
    BY <1>3 DEF Connect
  <2>. QED BY <2>1, <2>2, <2>3, <2>4, CallStep
<1>4. CASE StartWrite(w)
  <2>1. UNCHANGED <<rowVars, webVars, txVars>>
    BY <1>4 DEF StartWrite
  <2>2. ASSUME NEW c \in call[w].todo,
               call' = [call EXCEPT ![w].pc = "writing", ![w].todo = @ \ {c},
                                    ![w].cur = {c}, ![w].seen = file[c.path]]
        PROVE  Inv'
    <3>. DEFINE k == [call[w] EXCEPT !.pc = "writing", !.todo = call[w].todo \ {c},
                                     !.cur = {c}, !.seen = file[c.path]]
    <3>1. c \in Copies
      BY <1>1 DEF Calls
    <3>2. file[c.path] \in Articles \cup {NoArticle}
      BY <1>1, <3>1, CopyFields
    <3>3. k \in Calls
      BY <1>1, <3>1, <3>2 DEF Calls
    <3>4. Held(k) \subseteq Held(call[w]) /\ k.cur = {c} /\ k.pc = "writing"
      BY <1>1 DEF Calls, Held
    <3>5. call' = [call EXCEPT ![w] = k]
      BY <1>1, <2>2
    <3>. HIDE DEF k
    <3>6. /\ \A d \in Held(k) : art[d.article].path = d.path
          /\ \A d, e \in k.cur : d = e
      BY <1>2, <3>4
    <3>. QED BY <2>1, <3>3, <3>4, <3>5, <3>6, CallStep
  <2>3. CASE call' = [call EXCEPT ![w].pc = "reconciling"]
    <3>. DEFINE k == [call[w] EXCEPT !.pc = "reconciling"]
    <3>1. k \in Calls /\ Held(k) = Held(call[w]) /\ k.cur = call[w].cur
          /\ k.pc = "reconciling"
      BY <1>1 DEF Calls, Held
    <3>2. call' = [call EXCEPT ![w] = k]
      BY <1>1, <2>3
    <3>. HIDE DEF k
    <3>3. /\ \A d \in Held(k) : art[d.article].path = d.path
          /\ \A d, e \in k.cur : d = e
      BY <1>2, <3>1
    <3>. QED BY <2>1, <3>1, <3>2, <3>3, CallStep
  <2>. QED BY <1>4, <2>2, <2>3 DEF StartWrite
<1>5. CASE Verify(w)
  <2>1. UNCHANGED <<rowVars, webVars, txVars>>
    BY <1>5 DEF Verify
  <2>2. PICK c \in call[w].cur : IF c.path \in live THEN Goes(w, "marking")
                                                   ELSE Turns(w, "publishing")
    BY <1>5 DEF Verify
  <2>3. CASE c.path \in live
    <3>. DEFINE k == [call[w] EXCEPT !.pc = "marking"]
    <3>1. k \in Calls /\ Held(k) = Held(call[w]) /\ k.pc = "marking" /\ k.cur = call[w].cur
      BY <1>1 DEF Calls, Held
    <3>2. call' = [call EXCEPT ![w] = k]
      BY <1>1, <2>2, <2>3 DEF Goes
    <3>3. \A d \in k.cur : d.path \in live
      BY <1>2, <2>3, <3>1
    <3>. HIDE DEF k
    <3>. QED BY <1>2, <2>1, <3>1, <3>2, <3>3, CallStep
  <2>4. CASE c.path \notin live
    <3>. DEFINE k == [call[w] EXCEPT !.pc = "publishing", !.cur = {}, !.seen = NoArticle]
    <3>1. k \in Calls /\ Held(k) \subseteq Held(call[w]) /\ k.cur = {}
          /\ k.pc = "publishing"
      BY <1>1 DEF Calls, Held
    <3>2. call' = [call EXCEPT ![w] = k]
      BY <1>1, <2>2, <2>4 DEF Turns
    <3>. HIDE DEF k
    <3>. QED BY <1>2, <2>1, <3>1, <3>2, CallStep
  <2>. QED BY <2>3, <2>4
<1>6. CASE ReconcileNow(w)
  <2>. DEFINE k == [Idle EXCEPT !.pc = "reconciling", !.tick = FALSE]
  <2>1. k \in Calls /\ Held(k) = {} /\ k.cur = {} /\ k.pc = "reconciling"
    BY IdleType
  <2>2. call' = [call EXCEPT ![w] = k]
    BY <1>6 DEF ReconcileNow
  <2>. HIDE DEF k
  <2>. QED BY <1>6, <2>1, <2>2, CallStep DEF ReconcileNow
<1>. QED BY <1>3, <1>4, <1>5, <1>6

\* Program counters.
PCs == {"idle", "connecting", "publishing", "writing", "recording", "hookFailed",
        "verifying", "marking", "failing", "reconciling", "checking", "unlocking", "rewriting"}

\* The call with another program counter.
LEMMA GoesType ==
  ASSUME TypeOK, NEW w \in Workers, NEW p \in PCs
  PROVE  LET k == [call[w] EXCEPT !.pc = p] IN
         /\ k \in Calls /\ Held(k) = Held(call[w]) /\ k.cur = call[w].cur /\ k.pc = p
         /\ Goes(w, p) => call' = [call EXCEPT ![w] = k]
<1>. DEFINE k == [call[w] EXCEPT !.pc = p]
<1>1. call[w] \in Calls /\ call \in [Workers -> Calls]
  BY DEF TypeOK
<1>2. k \in Calls /\ Held(k) = Held(call[w]) /\ k.cur = call[w].cur /\ k.pc = p
  BY <1>1 DEF Calls, Held, PCs
<1>3. Goes(w, p) => call' = [call EXCEPT ![w] = k]
  BY <1>1 DEF Goes
<1>. QED BY <1>2, <1>3

\* The call back in the loop.
LEMMA TurnsType ==
  ASSUME TypeOK, NEW w \in Workers
  PROVE  LET k == [call[w] EXCEPT !.pc = "publishing", !.cur = {}, !.seen = NoArticle] IN
         /\ k \in Calls /\ Held(k) \subseteq Held(call[w]) /\ k.cur = {}
         /\ k.pc = "publishing"
         /\ Turns(w, "publishing") => call' = [call EXCEPT ![w] = k]
<1>. DEFINE k == [call[w] EXCEPT !.pc = "publishing", !.cur = {}, !.seen = NoArticle]
<1>1. call[w] \in Calls /\ call \in [Workers -> Calls]
  BY DEF TypeOK
<1>2. k \in Calls /\ Held(k) \subseteq Held(call[w]) /\ k.cur = {} /\ k.pc = "publishing"
  BY <1>1 DEF Calls, Held
<1>3. Turns(w, "publishing") => call' = [call EXCEPT ![w] = k]
  BY <1>1 DEF Turns
<1>. QED BY <1>2, <1>3

\* What the queries make of a row is a row, at the path of the copy.
LEMMA MadeType ==
  ASSUME NEW r \in Rows, NEW c \in Copies, c.path = r.path, NEW t \in Times, RowOK(r)
  PROVE  /\ Recorded(r, c, t) \in Rows /\ Recorded(r, c, t).path = r.path
         /\ RowOK(Recorded(r, c, t))
         /\ MadeFailed(r, c) \in Rows /\ MadeFailed(r, c).path = r.path
         /\ RowOK(MadeFailed(r, c))
         /\ MadePublished(r, c) \in Rows /\ MadePublished(r, c).path = r.path
         /\ c.path \in live => RowOK(MadePublished(r, c))
<1>1. /\ c.path \in Paths /\ c.attempts \in 0 .. Len(Delays) + 1
      /\ Delay(c.attempts) \in Times /\ Never \in Times
  BY CopyFields, DelayType DEF Times
<1>2. Recorded(r, c, t) \in Rows /\ Recorded(r, c, t).path = r.path /\ RowOK(Recorded(r, c, t))
  <2>1. Recorded(r, c, t) \in Rows
    BY <1>1 DEF Recorded, Rows, Statuses
  <2>2. /\ Recorded(r, c, t).path = c.path /\ Recorded(r, c, t).url = r.url
        /\ Recorded(r, c, t).status = "pending_url_verification"
    BY DEF Recorded, Rows
  <2>. QED BY <1>1, <2>1, <2>2 DEF RowOK
<1>3. MadeFailed(r, c) \in Rows /\ MadeFailed(r, c).path = r.path /\ RowOK(MadeFailed(r, c))
  <2>1. MadeFailed(r, c) \in Rows
    BY <1>1 DEF MadeFailed, Rows, Statuses
  <2>2. /\ MadeFailed(r, c).path = r.path /\ MadeFailed(r, c).url = r.url
        /\ MadeFailed(r, c).status = "publish_failed" /\ MadeFailed(r, c).result = r.result
    BY DEF MadeFailed, Rows
  <2>. QED BY <1>1, <2>1, <2>2 DEF RowOK
<1>4. /\ MadePublished(r, c) \in Rows /\ MadePublished(r, c).path = r.path
      /\ c.path \in live => RowOK(MadePublished(r, c))
  <2>1. MadePublished(r, c) \in Rows
    BY <1>1 DEF MadePublished, Rows, Statuses
  <2>2. MadePublished(r, c).path = c.path
    BY DEF MadePublished, Rows
  <2>. QED BY <1>1, <2>1, <2>2 DEF RowOK
<1>. QED BY <1>2, <1>3, <1>4

\* The copy in hand, and the row it is of.
LEMMA InHand ==
  ASSUME Inv, NEW w \in Workers, NEW c \in Held(call[w])
  PROVE  /\ c \in Copies /\ c.article \in Articles /\ c.path \in Paths
         /\ art[c.article] \in Rows /\ art[c.article].path = c.path
         /\ RowOK(art[c.article])
<1>1. call[w] \in Calls
  BY DEF Inv, TypeOK
<1>2. c \in Copies
  BY <1>1 DEF Calls, Held
<1>3. c.article \in Articles /\ c.path \in Paths
  BY <1>2, CopyFields
<1>. QED BY <1>2, <1>3 DEF Inv, TypeOK, CopiesFollow, RowsSound

\* The PUT, and the errors after which the call goes on with the same copy.
LEMMA WriteInv ==
  ASSUME Inv, NEW w \in Workers, EndWrite(w)
  PROVE  Inv'
<1>1. PICK c \in call[w].cur :
        \/ Commits(c) /\ Goes(w, "recording")
        \/ UNCHANGED webVars /\ Goes(w, "failing")
  BY DEF EndWrite
<1>2. UNCHANGED <<rowVars, txVars>> /\ TypeOK
  BY DEF EndWrite, Inv
<1>3. ASSUME NEW p \in {"recording", "failing"}, Goes(w, p), UNCHANGED webVars \/ Commits(c)
      PROVE  Inv'
  <2>. DEFINE k == [call[w] EXCEPT !.pc = p]
  <2>0. p \in PCs
    BY DEF PCs
  <2>1. /\ k \in Calls /\ Held(k) = Held(call[w]) /\ k.cur = call[w].cur /\ k.pc = p
        /\ call' = [call EXCEPT ![w] = k]
    BY <1>2, <1>3, <2>0, GoesType
  <2>. HIDE DEF k
  <2>. QED BY <1>2, <1>3, <2>1, WriteStep
<1>. QED BY <1>1, <1>3

\* The updates of the loop, by id and from the copy.
LEMMA MarkInv ==
  ASSUME Inv, NEW w \in Workers,
         Record(w) \/ RecordHookFailure(w) \/ MarkPublished(w) \/ MarkPublishFailed(w)
  PROVE  Inv'
<1>1. UNCHANGED <<webVars, txVars>> /\ TypeOK
  BY DEF Inv, Record, RecordHookFailure, MarkPublished, MarkPublishFailed
<1>2. ASSUME NEW c \in call[w].cur, NEW r \in Rows, Updates(c.article, r), RowOK(r),
             r.path = art[c.article].path,
             \/ \E p \in {"verifying", "failing"} : Goes(w, p)
             \/ Turns(w, "publishing")
      PROVE  Inv'
  <2>1. c.article \in Articles
    BY InHand DEF Held
  <2>2. ASSUME NEW p \in {"verifying", "failing"}, Goes(w, p) PROVE Inv'
    <3>. DEFINE k == [call[w] EXCEPT !.pc = p]
    <3>0. p \in PCs
      BY DEF PCs
    <3>1. /\ k \in Calls /\ Held(k) = Held(call[w]) /\ k.cur = call[w].cur /\ k.pc = p
          /\ call' = [call EXCEPT ![w] = k]
      BY <1>1, <2>2, <3>0, GoesType
    <3>. HIDE DEF k
    <3>. QED BY <1>1, <1>2, <2>1, <3>1, RowStep
  <2>3. CASE Turns(w, "publishing")
    <3>. DEFINE k == [call[w] EXCEPT !.pc = "publishing", !.cur = {}, !.seen = NoArticle]
    <3>1. /\ k \in Calls /\ Held(k) \subseteq Held(call[w]) /\ k.cur = {}
          /\ k.pc = "publishing" /\ call' = [call EXCEPT ![w] = k]
      BY <1>1, <2>3, TurnsType
    <3>. HIDE DEF k
    <3>. QED BY <1>1, <1>2, <2>1, <3>1, RowStep
  <2>. QED BY <1>2, <2>2, <2>3
<1>3. ASSUME NEW c \in call[w].cur, NEW t \in Times
      PROVE  LET r == art[c.article] IN
             /\ Recorded(r, c, t) \in Rows /\ Recorded(r, c, t).path = r.path
             /\ RowOK(Recorded(r, c, t))
             /\ MadeFailed(r, c) \in Rows /\ MadeFailed(r, c).path = r.path
             /\ RowOK(MadeFailed(r, c))
             /\ MadePublished(r, c) \in Rows /\ MadePublished(r, c).path = r.path
             /\ c.path \in live => RowOK(MadePublished(r, c))
  <2>1. c \in Copies /\ art[c.article] \in Rows /\ art[c.article].path = c.path
        /\ RowOK(art[c.article])
    BY InHand DEF Held
  <2>. QED BY <1>3, <2>1, MadeType
<1>4. 1 \in Times /\ \A c \in call[w].cur : Delay(c.attempts) \in Times
  BY InHand, CopyFields, DelayType DEF Held, Times
<1>5. CASE Record(w)
  <2>1. PICK c \in call[w].cur : Updates(c.article, Recorded(art[c.article], c, 1))
    BY <1>5 DEF Record
  <2>. QED BY <1>2, <1>3, <1>4, <1>5, <2>1 DEF Record
<1>6. CASE RecordHookFailure(w)
  <2>1. PICK c \in call[w].cur :
          Updates(c.article, Recorded(art[c.article], c, Delay(c.attempts)))
    BY <1>6 DEF RecordHookFailure
  <2>. QED BY <1>2, <1>3, <1>4, <1>6, <2>1 DEF RecordHookFailure
<1>7. CASE MarkPublished(w)
  <2>1. PICK c \in call[w].cur : Updates(c.article, MadePublished(art[c.article], c))
    BY <1>7 DEF MarkPublished
  <2>2. c.path \in live
    BY <1>7 DEF Inv, MarksLive, MarkPublished
  <2>. QED BY <1>2, <1>3, <1>4, <1>7, <2>1, <2>2 DEF MarkPublished
<1>8. CASE MarkPublishFailed(w)
  <2>1. PICK c \in call[w].cur : Updates(c.article, MadeFailed(art[c.article], c))
    BY <1>8 DEF MarkPublishFailed
  <2>. QED BY <1>2, <1>3, <1>4, <1>8, <2>1 DEF MarkPublishFailed
<1>. QED BY <1>5, <1>6, <1>7, <1>8

\* The errors of the loop.
LEMMA ErrorInv ==
  ASSUME Inv, NEW w \in Workers, PublishError(w)
  PROVE  Inv'
<1>1. call[w] \in Calls /\ call \in [Workers -> Calls] /\ TypeOK
  BY DEF Inv, TypeOK
<1>2. UNCHANGED <<rowVars, txVars>>
  BY DEF PublishError
<1>3. /\ \A c \in Held(call[w]) : art[c.article].path = c.path
      /\ \A c, d \in call[w].cur : c = d
  BY DEF Inv, CopiesFollow, OneInHand
<1>4. ASSUME NEW k \in Calls, Held(k) \subseteq Held(call[w]), k.cur \subseteq call[w].cur,
             k.pc \notin {"marking", "checking"}, call' = [call EXCEPT ![w] = k],
             UNCHANGED webVars
      PROVE  Inv'
  <2>1. /\ \A d \in Held(k) : art[d.article].path = d.path
        /\ \A d, e \in k.cur : d = e
    BY <1>3, <1>4
  <2>2. UNCHANGED <<rowVars, webVars, txVars>>
    BY <1>2, <1>4
  <2>. QED BY <1>4, <2>1, <2>2, CallStep
<1>5. CASE UNCHANGED webVars /\ call' = [call EXCEPT ![w].pc = "reconciling", ![w].todo = {}]
  <2>. DEFINE k == [call[w] EXCEPT !.pc = "reconciling", !.todo = {}]
  <2>1. /\ k \in Calls /\ Held(k) \subseteq Held(call[w]) /\ k.cur = call[w].cur
        /\ k.pc = "reconciling"
    BY <1>1 DEF Calls, Held
  <2>2. call' = [call EXCEPT ![w] = k]
    BY <1>1, <1>5
  <2>. HIDE DEF k
  <2>. QED BY <1>4, <1>5, <2>1, <2>2
<1>6. ASSUME NEW p \in {"failing", "hookFailed"}, Goes(w, p),
             UNCHANGED webVars \/ \E c \in call[w].cur : Commits(c)
      PROVE  Inv'
  <2>. DEFINE k == [call[w] EXCEPT !.pc = p]
  <2>1. p \in PCs
    BY DEF PCs
  <2>2. /\ k \in Calls /\ Held(k) = Held(call[w]) /\ k.cur = call[w].cur /\ k.pc = p
        /\ call' = [call EXCEPT ![w] = k]
    BY <1>1, <1>6, <2>1, GoesType
  <2>. HIDE DEF k
  <2>3. CASE UNCHANGED webVars
    BY <1>4, <2>2, <2>3
  <2>4. ASSUME NEW c \in call[w].cur, Commits(c) PROVE Inv'
    BY <1>2, <2>2, <2>4, WriteStep
  <2>. QED BY <1>6, <2>3, <2>4
<1>7. CASE UNCHANGED webVars /\ Turns(w, "publishing")
  <2>. DEFINE k == [call[w] EXCEPT !.pc = "publishing", !.cur = {}, !.seen = NoArticle]
  <2>1. /\ k \in Calls /\ Held(k) \subseteq Held(call[w]) /\ k.cur = {}
        /\ k.pc = "publishing" /\ call' = [call EXCEPT ![w] = k]
    BY <1>1, <1>7, TurnsType
  <2>. HIDE DEF k
  <2>. QED BY <1>4, <1>7, <2>1
<1>. QED BY <1>5, <1>6, <1>7 DEF PublishError

-----------------------------------------------------------------------------
(* Operators and the world outside.                                        *)

\* No call moves, and rows keep their paths.
LEMMA CallsStand ==
  ASSUME Inv, UNCHANGED <<call, lock>>, PathsStay, live \subseteq live'
  PROVE  /\ call' \in [Workers -> Calls]
         /\ CopiesFollow' /\ OneInHand' /\ MarksLive' /\ LockHeld'
<1>1. ASSUME NEW w \in Workers, NEW c \in Held(call[w]) PROVE art'[c.article].path = c.path
  BY InHand DEF PathsStay
<1>2. CopiesFollow'
  BY <1>1 DEF CopiesFollow, Held
<1>. QED BY <1>2 DEF Inv, TypeOK, OneInHand, MarksLive, LockHeld

\* Operators and the clock write a row, but neither its path nor what is
\* recorded of a publication; none makes an article published.
LEMMA OperatorRow ==
  ASSUME Inv, NEW a \in Articles, NEW s \in Statuses \ {"pending_url_verification", "published"},
         NEW d \in BOOLEAN, NEW t \in Times, UNCHANGED <<webVars, call, txVars>>,
         \/ Updates(a, [art[a] EXCEPT !.status = s, !.due = d])
         \/ Updates(a, [art[a] EXCEPT !.status = s])
         \/ Updates(a, [art[a] EXCEPT !.due = d])
         \/ Updates(a, [art[a] EXCEPT !.retry = t])
  PROVE  Inv'
<1>1. art[a] \in Rows /\ RowOK(art[a])
  BY DEF Inv, TypeOK, RowsSound
<1>2. ASSUME NEW r \in Rows, Updates(a, r), RowOK(r), r.path = art[a].path
      PROVE  Inv'
  <2>1. /\ art' \in [Articles -> Rows] /\ PathsStay /\ RowsSound' /\ OneFile'
        /\ LiveIsCommitted' /\ StagedUnderLock' /\ VariantNeverAhead'
    BY <1>2, RowChange DEF Inv
  <2>2. /\ call' \in [Workers -> Calls]
        /\ CopiesFollow' /\ OneInHand' /\ MarksLive' /\ LockHeld'
    BY <2>1, CallsStand DEF webVars, txVars
  <2>3. TypeOK'
    BY <1>2, <2>1, <2>2 DEF Inv, TypeOK, Updates, webVars, txVars
  <2>. QED BY <2>1, <2>2, <2>3 DEF Inv
<1>3. CASE Updates(a, [art[a] EXCEPT !.status = s, !.due = d])
  <2>. DEFINE r == [art[a] EXCEPT !.status = s, !.due = d]
  <2>1. r \in Rows
    BY <1>1 DEF Rows
  <2>2. /\ r.path = art[a].path /\ r.status = s /\ r.url = art[a].url
        /\ r.result = art[a].result
    BY <1>1 DEF Rows
  <2>. HIDE DEF r
  <2>3. RowOK(r)
    BY <1>1, <2>2 DEF RowOK
  <2>. QED BY <1>2, <1>3, <2>1, <2>2, <2>3 DEF r
<1>4. CASE Updates(a, [art[a] EXCEPT !.status = s])
  <2>. DEFINE r == [art[a] EXCEPT !.status = s]
  <2>1. r \in Rows
    BY <1>1 DEF Rows
  <2>2. /\ r.path = art[a].path /\ r.status = s /\ r.url = art[a].url
        /\ r.result = art[a].result
    BY <1>1 DEF Rows
  <2>. HIDE DEF r
  <2>3. RowOK(r)
    BY <1>1, <2>2 DEF RowOK
  <2>. QED BY <1>2, <1>4, <2>1, <2>2, <2>3 DEF r
<1>5. CASE Updates(a, [art[a] EXCEPT !.due = d])
  BY <1>1, <1>2, <1>5 DEF Rows, RowOK
<1>6. CASE Updates(a, [art[a] EXCEPT !.retry = t])
  BY <1>1, <1>2, <1>6 DEF Rows, RowOK
<1>. QED BY <1>3, <1>4, <1>5, <1>6

\* What operators do, a slot's time and a build of the site.
LEMMA OutsideInv ==
  ASSUME Inv,
         \/ \E a \in Articles : \/ Approve(a) \/ Reject(a) \/ Retry(a)
                                \/ EditSlug(a) \/ Distribute(a) \/ SlotReached(a)
         \/ \E p \in Paths : Deploy(p)
  PROVE  Inv'
<1>1. ASSUME NEW a \in Articles, Approve(a) \/ Reject(a) \/ Retry(a) \/ SlotReached(a)
      PROVE  Inv'
  <2>1. /\ {"approved", "rejected"} \subseteq Statuses \ {"pending_url_verification", "published"}
        /\ 0 \in Times
    BY DEF Statuses, Times
  <2>2. ASSUME NEW d \in BOOLEAN, UNCHANGED <<webVars, call, txVars>>,
               Updates(a, [art[a] EXCEPT !.status = "approved", !.due = d])
        PROVE  Inv'
    BY <2>1, <2>2, OperatorRow
  <2>3. CASE Reject(a)
    BY <2>1, <2>3, OperatorRow DEF Reject
  <2>4. CASE Retry(a)
    BY <2>1, <2>4, OperatorRow DEF Retry
  <2>5. CASE SlotReached(a)
    BY <2>1, <2>5, OperatorRow DEF SlotReached
  <2>. QED BY <1>1, <2>2, <2>3, <2>4, <2>5 DEF Approve
<1>2. ASSUME UNCHANGED <<art, file, staged, lock, call>>, live \subseteq live',
             slug' \in [Articles -> Paths], live' \subseteq Paths, LiveIsCommitted',
             variant' \in [Articles -> {"approved", "ready_to_distribute", "distributed"}],
             \A a \in Articles :
               variant'[a] = "ready_to_distribute" => variant[a] = "ready_to_distribute"
      PROVE  Inv'
  <2>1. PathsStay
    BY <1>2 DEF PathsStay
  <2>2. /\ call' \in [Workers -> Calls]
        /\ CopiesFollow' /\ OneInHand' /\ MarksLive' /\ LockHeld'
    BY <1>2, <2>1, CallsStand
  <2>3. TypeOK'
    BY <1>2, <2>2 DEF Inv, TypeOK
  <2>4. RowsSound'
    <3>1. /\ \A a \in Articles : RowOK(art[a])'
          /\ \A a \in DOMAIN staged : RowOK(staged[a])'
      BY <1>2 DEF Inv, RowsSound, RowOK
    <3>. QED BY <1>2, <3>1 DEF Inv, RowsSound
  <2>5. OneFile' /\ StagedUnderLock' /\ VariantNeverAhead'
    BY <1>2 DEF Inv, OneFile, StagedUnderLock, VariantNeverAhead
  <2>. QED BY <1>2, <2>2, <2>3, <2>4, <2>5 DEF Inv
<1>3. ASSUME NEW a \in Articles, EditSlug(a) PROVE Inv'
  BY <1>2, <1>3 DEF EditSlug, Inv, TypeOK, LiveIsCommitted, webVars, txVars
<1>4. ASSUME NEW a \in Articles, Distribute(a) PROVE Inv'
  BY <1>2, <1>4 DEF Distribute, Inv, TypeOK, LiveIsCommitted, webVars, txVars
<1>5. ASSUME NEW p \in Paths, Deploy(p) PROVE Inv'
  BY <1>2, <1>5 DEF Deploy, Inv, TypeOK, LiveIsCommitted, rowVars, txVars
<1>. QED BY <1>1, <1>3, <1>4, <1>5

-----------------------------------------------------------------------------
(* The reconcile and its transaction.                                      *)

\* The copies of committed rows, and of published ones, have their paths.
LEMMA CopyType ==
  ASSUME Inv, NEW a \in Articles, art[a].path \in Paths
  PROVE  /\ Copy(a, art[a]) \in Copies
         /\ Copy(a, art[a]).article = a /\ Copy(a, art[a]).path = art[a].path
BY DEF Copy, Copies, Inv, TypeOK, Rows

\* Rows are selected into the call of w, which changes in nothing else but its
\* counter and, for the reconcile, with the lock.
LEMMA SelectStep ==
  ASSUME Inv, NEW w \in Workers, NEW p \in {"checking", "rewriting"},
         NEW A \in SUBSET Articles, \A a \in A : art[a].path \in Paths,
         call' = [call EXCEPT ![w].pc = p, ![w].todo = {Copy(a, art[a]) : a \in A}],
         UNCHANGED <<rowVars, webVars, staged>>,
         \/ p = "rewriting" /\ lock' = lock
         \/ lock = NoOne /\ lock' = w
  PROVE  Inv'
<1>. DEFINE todo == {Copy(a, art[a]) : a \in A}
            k == [call[w] EXCEPT !.pc = p, !.todo = todo]
<1>1. call[w] \in Calls /\ call \in [Workers -> Calls] /\ lock \in Workers \cup {NoOne}
  BY DEF Inv, TypeOK
<1>2. \A c \in todo : c \in Copies /\ art[c.article].path = c.path
  BY CopyType
<1>3. call' = [call EXCEPT ![w] = k]
  BY <1>1
<1>. HIDE DEF todo
<1>4. k \in Calls /\ Held(k) = todo \cup call[w].cur /\ k.cur = call[w].cur /\ k.pc = p
  <2>1. todo \in SUBSET Copies
    BY <1>2
  <2>. QED BY <1>1, <2>1 DEF Calls, Held
<1>. HIDE DEF k
<1>5. UNCHANGED <<art, slug, variant, file, live, staged>> /\ PathsStay
  BY DEF rowVars, webVars, PathsStay
<1>6. /\ \A c \in Held(k) : art'[c.article].path = c.path
      /\ \A c, d \in k.cur : c = d
  <2>1. \A c \in call[w].cur : art[c.article].path = c.path
    BY DEF Inv, CopiesFollow, Held
  <2>2. \A c, d \in call[w].cur : c = d
    BY DEF Inv, OneInHand
  <2>. QED BY <1>2, <1>4, <1>5, <2>1, <2>2
<1>7. /\ \A v \in Workers \ {w} : lock = v => lock' = v
      /\ k.pc = "checking" => lock' = w
      /\ k.pc # "marking" /\ lock' \in Workers \cup {NoOne} /\ lock' = NoOne => lock = NoOne
  BY <1>1, <1>4, PublishAssumption
<1>8. /\ call' \in [Workers -> Calls]
      /\ CopiesFollow' /\ OneInHand' /\ MarksLive' /\ LockHeld'
  BY <1>3, <1>4, <1>5, <1>6, <1>7, CallChange DEF Inv
<1>9. TypeOK'
  BY <1>1, <1>5, <1>7, <1>8 DEF Inv, TypeOK
<1>10. /\ RowsSound' /\ OneFile' /\ LiveIsCommitted' /\ StagedUnderLock'
       /\ VariantNeverAhead'
  BY <1>1, <1>5, PublishAssumption
     DEF Inv, RowsSound, RowOK, OneFile, LiveIsCommitted, StagedUnderLock, VariantNeverAhead
<1>. QED BY <1>8, <1>9, <1>10 DEF Inv

\* What a reconcile or an unlock selects was published, or committed at least.
LEMMA SelectInv ==
  ASSUME Inv, NEW w \in Workers, BeginReconcile(w) \/ SelectVariants(w)
  PROVE  Inv'
<1>1. CASE BeginReconcile(w)
  <2>. DEFINE A == {b \in Articles : Reconcilable(b)}
  <2>1. \A a \in A : art[a].path \in Paths
    BY DEF Inv, RowsSound, RowOK, Reconcilable
  <2>2. A \in SUBSET Articles /\ lock = NoOne /\ lock' = w
        /\ UNCHANGED <<rowVars, webVars, staged>>
        /\ call' = [call EXCEPT ![w].pc = "checking",
                                ![w].todo = {Copy(a, art[a]) : a \in A}]
    BY <1>1 DEF BeginReconcile
  <2>. HIDE DEF A
  <2>. QED BY <2>1, <2>2, SelectStep
<1>2. CASE SelectVariants(w)
  <2>. DEFINE A == {b \in Articles : Unlockable(b)}
  <2>1. \A a \in A : art[a].path \in Paths
    BY DEF Inv, RowsSound, RowOK, Unlockable
  <2>2. A \in SUBSET Articles /\ lock' = lock
        /\ UNCHANGED <<rowVars, webVars, staged>>
        /\ call' = [call EXCEPT ![w].pc = "rewriting",
                                ![w].todo = {Copy(a, art[a]) : a \in A}]
    BY <1>2 DEF SelectVariants, txVars
  <2>. HIDE DEF A
  <2>. QED BY <2>1, <2>2, SelectStep
<1>. QED BY <1>1, <1>2

\* A candidate is checked and its row, if it changes, staged.
LEMMA CheckInv ==
  ASSUME Inv, NEW w \in Workers, Check(w) \/ CheckError(w)
  PROVE  Inv'
<1>1. PICK c \in call[w].todo :
        /\ Checked(w, c)
        /\ \/ c.path \in live /\ Stage(c, MadePublished(art[c.article], c))
           \/ Stage(c, MadeFailed(art[c.article], c))
           \/ UNCHANGED staged
  BY DEF Check, CheckError
<1>2. /\ UNCHANGED <<art, slug, variant, file, live, lock>> /\ call[w].pc = "checking"
  BY DEF Check, CheckError, rowVars, webVars
<1>3. /\ call[w] \in Calls /\ call \in [Workers -> Calls] /\ lock = w
  BY <1>2 DEF Inv, TypeOK, LockHeld
<1>4. /\ c \in Copies /\ c.article \in Articles /\ art[c.article] \in Rows
      /\ art[c.article].path = c.path /\ RowOK(art[c.article])
  BY InHand DEF Held
<1>5. /\ call' \in [Workers -> Calls]
      /\ CopiesFollow' /\ OneInHand' /\ MarksLive' /\ LockHeld'
  <2>. DEFINE k == [call[w] EXCEPT !.todo = call[w].todo \ {c}]
  <2>1. /\ k \in Calls /\ Held(k) \subseteq Held(call[w]) /\ k.cur = call[w].cur
        /\ k.pc = "checking"
    BY <1>2, <1>3 DEF Calls, Held
  <2>2. call' = [call EXCEPT ![w] = k]
    BY <1>1, <1>3 DEF Checked
  <2>. HIDE DEF k
  <2>3. PathsStay
    BY <1>2 DEF PathsStay
  <2>4. /\ \A d \in Held(k) : art'[d.article].path = d.path
        /\ \A d, e \in k.cur : d = e
    BY <1>2, <2>1 DEF Inv, CopiesFollow, OneInHand
  <2>. QED BY <1>2, <1>3, <2>1, <2>2, <2>3, <2>4, CallChange DEF Inv
<1>6. ASSUME NEW r \in Rows, Stage(c, r), RowOK(r), r.path = art[c.article].path
      PROVE  /\ DOMAIN staged' \subseteq Articles
             /\ \A a \in DOMAIN staged' :
                  staged'[a] \in Rows /\ RowOK(staged'[a]) /\ staged'[a].path = art[a].path
  <2>1. /\ DOMAIN staged \subseteq Articles
        /\ \A a \in DOMAIN staged :
             staged[a] \in Rows /\ RowOK(staged[a]) /\ staged[a].path = art[a].path
    BY DEF Inv, TypeOK, RowsSound
  <2>2. /\ DOMAIN staged' = DOMAIN staged \cup {c.article}
        /\ \A a \in DOMAIN staged' : staged'[a] = IF a = c.article THEN r ELSE staged[a]
    BY <1>6 DEF Stage
  <2>. QED BY <1>4, <1>6, <2>1, <2>2
<1>7. /\ MadeFailed(art[c.article], c) \in Rows /\ RowOK(MadeFailed(art[c.article], c))
      /\ MadeFailed(art[c.article], c).path = art[c.article].path
      /\ MadePublished(art[c.article], c) \in Rows
      /\ MadePublished(art[c.article], c).path = art[c.article].path
      /\ c.path \in live => RowOK(MadePublished(art[c.article], c))
  <2>1. 0 \in Times
    BY DEF Times
  <2>. QED BY <1>4, <2>1, MadeType
<1>8. /\ DOMAIN staged' \subseteq Articles
      /\ \A a \in DOMAIN staged' :
           staged'[a] \in Rows /\ RowOK(staged'[a]) /\ staged'[a].path = art[a].path
  <2>1. CASE UNCHANGED staged
    BY <2>1 DEF Inv, TypeOK, RowsSound
  <2>. QED BY <1>1, <1>6, <1>7, <2>1
<1>9. TypeOK'
  BY <1>2, <1>5, <1>8 DEF Inv, TypeOK
<1>10. RowsSound'
  <2>1. \A a \in Articles : RowOK(art[a])'
    BY <1>2 DEF Inv, RowsSound, RowOK
  <2>2. \A a \in DOMAIN staged' : RowOK(staged[a])' /\ staged'[a].path = art'[a].path
    BY <1>2, <1>8 DEF RowOK
  <2>. QED BY <2>1, <2>2 DEF RowsSound
<1>11. OneFile' /\ LiveIsCommitted' /\ StagedUnderLock' /\ VariantNeverAhead'
  BY <1>2, <1>3, PublishAssumption
     DEF Inv, OneFile, LiveIsCommitted, StagedUnderLock, VariantNeverAhead
<1>. QED BY <1>5, <1>9, <1>10, <1>11 DEF Inv

\* The call of w is idle, or on its way to the variants; what a transaction of
\* its own had locked is free.  Rows are as they were, or as it left them.
LEMMA EndStep ==
  ASSUME Inv, NEW w \in Workers, NEW k \in Calls, Held(k) = {}, k.cur = {},
         k.pc \in {"idle", "unlocking"}, call' = [call EXCEPT ![w] = k],
         \/ lock = w /\ lock' = NoOne /\ staged' = NoRows
         \/ UNCHANGED txVars,
         \/ art' = art
         \/ /\ art' = [a \in Articles |-> IF a \in DOMAIN staged THEN staged[a] ELSE art[a]]
            /\ staged' = NoRows,
         UNCHANGED <<slug, variant>>,
         \/ UNCHANGED webVars
         \/ art' = art /\ \E c \in call[w].cur : Commits(c)
  PROVE  Inv'
<1>1. /\ PathsStay /\ art' \in [Articles -> Rows]
      /\ \A a \in Articles : art'[a].path = art[a].path
      /\ \A a \in Articles : RowOK(art'[a])
  <2>1. CASE art' = art
    BY <2>1 DEF Inv, TypeOK, PathsStay, RowsSound
  <2>2. CASE art' = [a \in Articles |-> IF a \in DOMAIN staged THEN staged[a] ELSE art[a]]
    BY <2>2 DEF Inv, TypeOK, PathsStay, RowsSound
  <2>. QED BY <2>1, <2>2
<1>2. /\ live' = live /\ file' \in [Paths -> Articles \cup {NoArticle}]
      /\ LiveIsCommitted' /\ OneFile'
  <2>1. CASE UNCHANGED webVars
    BY <1>1, <2>1 DEF Inv, TypeOK, LiveIsCommitted, OneFile, webVars
  <2>2. ASSUME NEW c \in call[w].cur, Commits(c), art' = art
        PROVE  /\ live' = live /\ file' \in [Paths -> Articles \cup {NoArticle}]
               /\ LiveIsCommitted' /\ OneFile'
    <3>1. /\ c.article \in Articles /\ c.path \in Paths /\ c.article # NoArticle
          /\ art[c.article].path = c.path
      BY InHand, PublishAssumption DEF Held
    <3>2. /\ file \in [Paths -> Articles \cup {NoArticle}] /\ live \subseteq Paths
      BY DEF Inv, TypeOK
    <3>3. \A p \in Paths : file'[p] = IF p = c.path THEN c.article ELSE file[p]
      BY <2>2, <3>2 DEF Commits
    <3>4. file' \in [Paths -> Articles \cup {NoArticle}] /\ live' = live
      BY <2>2, <3>1, <3>2 DEF Commits
    <3>5. OneFile'
      BY <2>2, <3>1, <3>3 DEF Inv, OneFile
    <3>6. LiveIsCommitted'
      BY <3>1, <3>2, <3>3, <3>4 DEF Inv, LiveIsCommitted
    <3>. QED BY <3>4, <3>5, <3>6
  <2>. QED BY <2>1, <2>2
<1>3. /\ lock' \in Workers \cup {NoOne} /\ StagedUnderLock'
      /\ \A v \in Workers \ {w} : lock = v => lock' = v
  BY PublishAssumption DEF Inv, TypeOK, StagedUnderLock, txVars, NoRows
<1>4. /\ call' \in [Workers -> Calls]
      /\ CopiesFollow' /\ OneInHand' /\ MarksLive' /\ LockHeld'
  BY <1>1, <1>2, <1>3, CallChange DEF Inv
<1>5. /\ DOMAIN staged' \subseteq Articles
      /\ \A a \in DOMAIN staged' :
           staged'[a] \in Rows /\ RowOK(staged'[a]) /\ staged'[a].path = art[a].path
  <2>1. CASE staged' = staged
    BY <2>1 DEF Inv, TypeOK, RowsSound
  <2>2. CASE staged' = NoRows
    BY <2>2 DEF NoRows
  <2>. QED BY <2>1, <2>2 DEF txVars
<1>6. TypeOK'
  BY <1>1, <1>2, <1>3, <1>4, <1>5 DEF Inv, TypeOK
<1>7. RowsSound'
  <2>1. (\A a \in Articles : RowOK(art[a])') /\ \A a \in DOMAIN staged' : RowOK(staged[a])'
    BY <1>1, <1>2, <1>5 DEF RowOK
  <2>. QED BY <1>1, <1>5, <2>1 DEF RowsSound
<1>8. VariantNeverAhead'
  BY <1>1, <1>2 DEF Inv, VariantNeverAhead
<1>. QED BY <1>2, <1>3, <1>4, <1>6, <1>7, <1>8 DEF Inv

\* The transaction ends, or the process does.
LEMMA EndInv ==
  ASSUME Inv, NEW w \in Workers, Commit(w) \/ Rollback(w) \/ Crash(w)
  PROVE  Inv'
<1>1. call[w].pc = "checking" => lock = w
  BY DEF Inv, LockHeld
<1>2. ASSUME AfterReconcile(w)
      PROVE  \E k \in Calls : /\ Held(k) = {} /\ k.cur = {} /\ k.pc \in {"idle", "unlocking"}
                              /\ call' = [call EXCEPT ![w] = k]
  <2>1. call \in [Workers -> Calls]
    BY DEF Inv, TypeOK
  <2>2. call' = [call EXCEPT ![w] = IF call[w].tick THEN [Idle EXCEPT !.pc = "unlocking"] ELSE Idle]
    BY <1>2 DEF AfterReconcile
  <2>3. LET k == [Idle EXCEPT !.pc = "unlocking"] IN
        k \in Calls /\ Held(k) = {} /\ k.cur = {} /\ k.pc = "unlocking"
    BY DEF Idle, Calls, Held
  <2>. QED BY <2>2, <2>3, IdleType
<1>3. CASE Commit(w)
  BY <1>1, <1>2, <1>3, EndStep DEF Commit
<1>4. CASE Rollback(w)
  BY <1>1, <1>2, <1>4, EndStep DEF Rollback, rowVars
<1>5. CASE Crash(w)
  BY <1>5, IdleType, EndStep DEF Crash, rowVars
<1>. QED BY <1>3, <1>4, <1>5

\* Unlocking the variants: only that of an article with a URL.
LEMMA UnlockInv ==
  ASSUME Inv, NEW w \in Workers, Unlock(w)
  PROVE  Inv'
<1>1. call[w] \in Calls /\ call \in [Workers -> Calls]
  BY DEF Inv, TypeOK
<1>2. UNCHANGED <<art, slug, file, live, lock, staged>> /\ call[w].pc = "rewriting"
  BY DEF Unlock, webVars, txVars
<1>3. ASSUME NEW k \in Calls, Held(k) \subseteq Held(call[w]), k.cur \subseteq call[w].cur,
             k.pc \notin {"marking", "checking"}, call' = [call EXCEPT ![w] = k]
      PROVE  /\ call' \in [Workers -> Calls]
             /\ CopiesFollow' /\ OneInHand' /\ MarksLive' /\ LockHeld'
  <2>1. PathsStay
    BY <1>2 DEF PathsStay
  <2>2. /\ \A d \in Held(k) : art'[d.article].path = d.path
        /\ \A d, e \in k.cur : d = e
    BY <1>2, <1>3 DEF Inv, CopiesFollow, OneInHand
  <2>. QED BY <1>2, <1>3, <2>1, <2>2, CallChange DEF Inv
<1>4. /\ call' \in [Workers -> Calls]
      /\ CopiesFollow' /\ OneInHand' /\ MarksLive' /\ LockHeld'
  <2>1. ASSUME NEW c \in call[w].todo, Checked(w, c)
        PROVE  /\ call' \in [Workers -> Calls]
               /\ CopiesFollow' /\ OneInHand' /\ MarksLive' /\ LockHeld'
    <3>. DEFINE k == [call[w] EXCEPT !.todo = call[w].todo \ {c}]
    <3>1. /\ k \in Calls /\ Held(k) \subseteq Held(call[w]) /\ k.cur = call[w].cur
          /\ k.pc = "rewriting"
      BY <1>1, <1>2 DEF Calls, Held
    <3>2. call' = [call EXCEPT ![w] = k]
      BY <1>1, <2>1 DEF Checked
    <3>. HIDE DEF k
    <3>. QED BY <1>3, <3>1, <3>2
  <2>2. CASE call' = [call EXCEPT ![w] = Idle]
    BY <1>3, <2>2, IdleType
  <2>. QED BY <2>1, <2>2 DEF Unlock
<1>5. /\ variant' \in [Articles -> {"approved", "ready_to_distribute", "distributed"}]
      /\ VariantNeverAhead'
  <2>1. variant \in [Articles -> {"approved", "ready_to_distribute", "distributed"}]
    BY DEF Inv, TypeOK
  <2>2. CASE UNCHANGED variant
    BY <1>2, <2>1, <2>2 DEF Inv, VariantNeverAhead
  <2>3. ASSUME NEW c \in call[w].todo, art[c.article].url,
               variant' = [variant EXCEPT ![c.article] = "ready_to_distribute"]
        PROVE  /\ variant' \in [Articles -> {"approved", "ready_to_distribute", "distributed"}]
               /\ VariantNeverAhead'
    <3>1. c.article \in Articles /\ RowOK(art[c.article])
      BY InHand DEF Held
    <3>2. art[c.article].path \in live
      BY <2>3, <3>1 DEF RowOK
    <3>3. \A a \in Articles : variant'[a] = IF a = c.article THEN "ready_to_distribute"
                                                            ELSE variant[a]
      BY <2>1, <2>3
    <3>4. variant' \in [Articles -> {"approved", "ready_to_distribute", "distributed"}]
      BY <2>1, <2>3
    <3>. QED BY <1>2, <3>2, <3>3, <3>4 DEF Inv, VariantNeverAhead
  <2>. QED BY <2>2, <2>3 DEF Unlock
<1>6. TypeOK'
  BY <1>2, <1>4, <1>5 DEF Inv, TypeOK
<1>7. RowsSound' /\ OneFile' /\ LiveIsCommitted' /\ StagedUnderLock'
  BY <1>2 DEF Inv, RowsSound, RowOK, OneFile, LiveIsCommitted, StagedUnderLock
<1>. QED BY <1>4, <1>5, <1>6, <1>7 DEF Inv

-----------------------------------------------------------------------------
(* Time.                                                                   *)

\* Time left is a time, and nothing else in a row or a copy changes.
LEMMA SoonerType ==
  /\ \A r \in Rows : /\ Sooner(r) \in Rows /\ Sooner(r).path = r.path
                     /\ RowOK(r) => RowOK(Sooner(r))
  /\ \A c \in Copies : /\ Sooner(c) \in Copies /\ Sooner(c).path = c.path
                       /\ Sooner(c).article = c.article
<1>1. \A t \in Times : Less(t) \in Times
  BY PublishAssumption DEF Less, Times
<1>2. ASSUME NEW r \in Rows
      PROVE  /\ Sooner(r) \in Rows /\ Sooner(r).path = r.path
             /\ RowOK(r) => RowOK(Sooner(r))
  <2>1. r.retry \in Times
    BY DEF Rows
  <2>2. Less(r.retry) \in Times
    BY <1>1, <2>1
  <2>3. Sooner(r) \in Rows
    BY <2>2 DEF Sooner, Rows
  <2>4. /\ Sooner(r).path = r.path /\ Sooner(r).status = r.status
        /\ Sooner(r).url = r.url /\ Sooner(r).result = r.result
    BY DEF Sooner, Rows
  <2>. QED BY <2>3, <2>4 DEF RowOK
<1>3. ASSUME NEW c \in Copies
      PROVE  /\ Sooner(c) \in Copies /\ Sooner(c).path = c.path
             /\ Sooner(c).article = c.article
  <2>1. Less(c.retry) \in Times
    BY <1>1, CopyFields
  <2>. QED BY <2>1 DEF Sooner, Copies
<1>. QED BY <1>2, <1>3

\* Five minutes pass.
LEMMA PassInv ==
  ASSUME Inv, Pass
  PROVE  Inv'
<1>1. /\ \A a \in Articles : art'[a] = Sooner(art[a])
      /\ DOMAIN staged' = DOMAIN staged
      /\ \A a \in DOMAIN staged : staged'[a] = Sooner(staged[a])
      /\ UNCHANGED <<slug, variant, file, live, lock>>
  BY DEF Pass, webVars
<1>2. /\ art \in [Articles -> Rows] /\ call \in [Workers -> Calls]
      /\ DOMAIN staged \subseteq Articles /\ \A a \in DOMAIN staged : staged[a] \in Rows
  BY DEF Inv, TypeOK
<1>3. \A a \in Articles : art'[a] \in Rows /\ art'[a].path = art[a].path
  BY <1>1, <1>2, SoonerType
<1>4. art' \in [Articles -> Rows]
  BY <1>3 DEF Pass
<1>5. ASSUME NEW w \in Workers
      PROVE  /\ call'[w] \in Calls /\ call'[w].pc = call[w].pc
             /\ call'[w].cur = {Sooner(c) : c \in call[w].cur}
             /\ Held(call'[w]) = {Sooner(c) : c \in Held(call[w])}
  <2>. DEFINE todo == {Sooner(c) : c \in call[w].todo}
              cur  == {Sooner(c) : c \in call[w].cur}
  <2>1. call[w] \in Calls
    BY <1>2
  <2>2. call'[w] = [call[w] EXCEPT !.todo = todo, !.cur = cur]
    BY DEF Pass
  <2>3. todo \in SUBSET Copies /\ cur \in SUBSET Copies
    BY <2>1, SoonerType DEF Calls
  <2>4. todo \cup cur = {Sooner(c) : c \in Held(call[w])}
    BY DEF Held
  <2>. HIDE DEF todo, cur
  <2>5. /\ call'[w] \in Calls /\ call'[w].pc = call[w].pc
        /\ call'[w].todo = todo /\ call'[w].cur = cur
    BY <2>1, <2>2, <2>3 DEF Calls
  <2>. QED BY <2>4, <2>5 DEF Held, cur
<1>6. call' \in [Workers -> Calls]
  <2>1. DOMAIN call' = Workers /\ call' = [w \in Workers |-> call'[w]]
    BY DEF Pass
  <2>. QED BY <1>5, <2>1
<1>7. CopiesFollow'
  <2>1. ASSUME NEW w \in Workers, NEW d \in Held(call'[w]) PROVE art'[d.article].path = d.path
    <3>1. PICK c \in Held(call[w]) : d = Sooner(c)
      BY <1>5, <2>1
    <3>2. c \in Copies /\ c.article \in Articles /\ art[c.article].path = c.path
      BY InHand
    <3>. QED BY <1>3, <3>1, <3>2, SoonerType
  <2>. QED BY <2>1 DEF CopiesFollow, Held
<1>8. OneInHand'
  BY <1>5 DEF Inv, OneInHand
<1>9. MarksLive'
  <2>1. ASSUME NEW w \in Workers, call'[w].pc = "marking", NEW d \in call'[w].cur
        PROVE  d.path \in live
    <3>1. PICK c \in call[w].cur : d = Sooner(c)
      BY <1>5, <2>1
    <3>2. c \in Copies /\ c.path \in live
      BY <1>5, <2>1, InHand DEF Held, Inv, MarksLive
    <3>. QED BY <3>1, <3>2, SoonerType
  <2>. QED BY <1>1, <2>1 DEF MarksLive
<1>10. LockHeld' /\ StagedUnderLock'
  BY <1>1, <1>5 DEF Inv, LockHeld, StagedUnderLock
<1>11. TypeOK'
  <2>1. DOMAIN staged' \subseteq Articles /\ \A a \in DOMAIN staged' : staged'[a] \in Rows
    BY <1>1, <1>2, SoonerType
  <2>. QED BY <1>1, <1>4, <1>6, <2>1 DEF Inv, TypeOK
<1>12. RowsSound'
  <2>1. ASSUME NEW a \in Articles PROVE RowOK(art'[a])
    BY <1>1, <1>2, SoonerType DEF Inv, RowsSound
  <2>2. ASSUME NEW a \in DOMAIN staged
        PROVE  RowOK(staged'[a]) /\ staged'[a].path = art'[a].path
    BY <1>1, <1>2, <1>3, SoonerType DEF Inv, RowsSound
  <2>. QED BY <1>1, <2>1, <2>2 DEF RowsSound, RowOK
<1>13. OneFile' /\ LiveIsCommitted' /\ VariantNeverAhead'
  BY <1>1, <1>3 DEF Inv, OneFile, LiveIsCommitted, VariantNeverAhead
<1>. QED BY <1>7, <1>8, <1>9, <1>10, <1>11, <1>12, <1>13 DEF Inv

-----------------------------------------------------------------------------
(* The theorems.                                                           *)

\* Every step keeps the invariant.
LEMMA StepInv ==
  ASSUME Inv, [Next]_vars
  PROVE  Inv'
<1>1. ASSUME NEW w \in Workers, Tick(w) \/ Fault(w) \/ ReconcileNow(w) PROVE Inv'
  <2>1. CASE Prepare(w)
    BY <2>1, PrepareInv
  <2>2. CASE Connect(w) \/ StartWrite(w) \/ Verify(w) \/ ReconcileNow(w)
    BY <2>2, ReadInv
  <2>3. CASE EndWrite(w)
    BY <2>3, WriteInv
  <2>4. CASE Record(w) \/ RecordHookFailure(w) \/ MarkPublished(w) \/ MarkPublishFailed(w)
    BY <2>4, MarkInv
  <2>5. CASE PublishError(w)
    BY <2>5, ErrorInv
  <2>6. CASE BeginReconcile(w) \/ SelectVariants(w)
    BY <2>6, SelectInv
  <2>7. CASE Check(w) \/ CheckError(w)
    BY <2>7, CheckInv
  <2>8. CASE Commit(w) \/ Rollback(w) \/ Crash(w)
    BY <2>8, EndInv
  <2>9. CASE Unlock(w)
    BY <2>9, UnlockInv
  <2>. QED BY <1>1, <2>1, <2>2, <2>3, <2>4, <2>5, <2>6, <2>7, <2>8, <2>9 DEF Tick, Fault
<1>2. CASE Operator \/ World
  BY <1>1, <1>2, OutsideInv, PassInv DEF Operator, World
<1>3. CASE UNCHANGED vars
  BY <1>3 DEF vars, Inv, TypeOK, RowsSound, RowOK, CopiesFollow, OneInHand, MarksLive, LockHeld,
              LiveIsCommitted, StagedUnderLock, OneFile, VariantNeverAhead
<1>. QED BY <1>1, <1>2, <1>3 DEF Next

\* The invariant holds throughout, for any number of articles, paths and ticks.
LEMMA Invariance == Spec => []Inv
BY InitInv, StepInv, PTL DEF Spec

\* Every variable has its type: every copy a tick of publishForProject works
\* from has a path, and no query of articles.sql writes an unknown status.
THEOREM TypeCorrect == Spec => []TypeOK
<1>1. Inv => TypeOK
  BY DEF Inv
<1>. QED BY <1>1, Invariance, PTL

\* An article shown as published is in the repository and answers at its URL,
\* however many ticks overlap in publishForProject and reconcilePublishForProject,
\* crash, roll back or mark it from an old copy.
THEOREM PublishedStaysLive == Spec => []PublishedIsLive
<1>1. Inv => PublishedIsLive
  BY DEF Inv, PublishedIsLive, RowsSound, RowOK, LiveIsCommitted
<1>. QED BY <1>1, Invariance, PTL

\* BlogPublisher.Resolve keeps the first path of an article, so retries and edits
\* of its slug never commit a second file of it.
THEOREM OneFileOnly == Spec => []OneFile
<1>1. Inv => OneFile
  BY DEF Inv
<1>. QED BY <1>1, Invariance, PTL

\* unlockVariants hands out a variant only when its canonical's URL has answered,
\* whatever happened to either since the variant was selected.
THEOREM VariantsFollow == Spec => []VariantNeverAhead
<1>1. Inv => VariantNeverAhead
  BY DEF Inv
<1>. QED BY <1>1, Invariance, PTL

=============================================================================
