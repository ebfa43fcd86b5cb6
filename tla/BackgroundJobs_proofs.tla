----------------------- MODULE BackgroundJobs_proofs -----------------------
(* Proofs about BackgroundJobs, for any number of rows and workers. *)
EXTENDS BackgroundJobs, TLAPS

(* What a worker has in memory, ms being the recorded matches. *)
WellFormed(m, ms) ==
    /\ m \in Memory
    /\ m.cur = None <=> m.pc \in Idle
    /\ m.pc \in {"match", "insert"} => m.cur \in Notifies
    /\ m.pc = "digest.write" => m.seen \in Digests
    /\ m.counted \subseteq ms

WorkersOK == /\ wk \in [Workers -> Memory]
             /\ \A w \in Workers : WellFormed(wk[w], matched)
RowsOK == job \in [Jobs -> Row]
MatchesOK == /\ matched \subseteq Notifies
             /\ digested \subseteq matched
             /\ reported \subseteq matched
             /\ skipped \subseteq Notifies
RestOK == /\ boot \in [Workers -> {"find", "create", "done"}]
          /\ died \in BOOLEAN
          /\ crashes \in 0..MaxCrashes
          /\ hidden \subseteq Notifies
          /\ hides \in 0..MaxHides

TypeInv == WorkersOK /\ RowsOK /\ MatchesOK /\ RestOK

(* The memory of a worker that starts over is well formed. *)
LEMMA FreshMemory == WellFormed(Fresh, matched)
  BY JobsAssumption DEF Fresh, Memory, Idle, WellFormed, PCs, Jobs

(* The memory of a worker that goes on to its next job is well formed. *)
LEMMA NextJobMemory ==
    ASSUME NEW w \in Workers, WorkersOK, wk[w].cur \in Jobs
    PROVE  WellFormed([Fresh EXCEPT !.pc = "next", !.batch = wk[w].batch,
                           !.tries = [wk[w].tries EXCEPT ![wk[w].cur] = 0]], matched)
<1>1. wk[w] \in Memory
  BY DEF WorkersOK
<1> DEFINE tries == [wk[w].tries EXCEPT ![wk[w].cur] = 0]
<1>2. tries \in [Jobs -> Nat] /\ wk[w].batch \in SUBSET Jobs
  BY <1>1 DEF Memory
<1> HIDE DEF tries
<1>3. WellFormed([Fresh EXCEPT !.pc = "next", !.batch = wk[w].batch, !.tries = tries], matched)
  BY <1>2, FreshMemory DEF Fresh, WellFormed, Memory, Idle, PCs
<1> QED BY <1>3 DEF tries

(* A worker that moves to a well-formed memory leaves the others so. *)
LEMMA WorkerMoves ==
    ASSUME WorkersOK, NEW w \in Workers, NEW m, WellFormed(m, matched'),
           wk' = [wk EXCEPT ![w] = m], matched \subseteq matched'
    PROVE  WorkersOK'
<1>1. wk' \in [Workers -> Memory]
  BY DEF WorkersOK, WellFormed
<1>2. ASSUME NEW v \in Workers PROVE WellFormed(wk'[v], matched')
  BY DEF WorkersOK, WellFormed
<1> QED BY <1>1, <1>2 DEF WorkersOK

(* A row that has just been created is well formed. *)
LEMMA NewRows == \A r \in {"due", "later"} : NewRow(r) \in Row
  BY DEF NewRow, NoRow, Row, Statuses

(* Replacing one row by a well-formed one leaves all rows well formed. *)
LEMMA Rewritten ==
    ASSUME RowsOK, NEW d \in Jobs, NEW r \in Row, job' = [job EXCEPT ![d] = r]
    PROVE  RowsOK'
  BY DEF RowsOK

(* So does writing a row off its lock. *)
LEMMA Settled ==
    ASSUME RowsOK, NEW d \in Jobs, NEW s \in Statuses, NEW n \in Nat,
           NEW r \in {"due", "later"}, Settle(d, s, n, r)
    PROVE  RowsOK'
  BY Rewritten DEF Settle, Row

(* So does creating a digest or a recurring row. *)
LEMMA Created == ASSUME RowsOK, NEW S \in SUBSET Jobs, Create(S) PROVE RowsOK'
  BY NewRows, Rewritten DEF Create, Slots

(* Some step of the loop *)
LEMMA InHand ==
    ASSUME NEW w \in Workers, WorkersOK, wk[w].pc \notin Idle
    PROVE  wk[w].cur \in Jobs /\ wk[w].tries[wk[w].cur] \in Nat
  BY DEF WorkersOK, WellFormed, Memory

(* Every step leaves the memories of the workers well formed. *)
LEMMA WorkersStep == TypeInv /\ [Next]_vars => WorkersOK'
<1> SUFFICES ASSUME TypeInv, [Next]_vars PROVE WorkersOK'
  OBVIOUS
<1> USE DEF TypeInv
<1>0. CASE UNCHANGED vars
  BY <1>0 DEF vars, matches, WorkersOK
<1>1. ASSUME NEW w \in Workers, Loop(w) PROVE WorkersOK'
  <2>1. CASE ReleaseStaleLeases(w)
    <3>1. wk[w] \in Memory /\ WellFormed(wk[w], matched)
      BY DEF WorkersOK
    <3> QED BY <2>1, <3>1, WorkerMoves DEF ReleaseStaleLeases, At, Goto, Become, WellFormed, Memory, Idle, PCs, matches
  <2>2. CASE ClaimFind(w)
    <3>1. wk[w] \in Memory /\ WellFormed(wk[w], matched)
      BY DEF WorkersOK
    <3> QED BY <2>2, <3>1, WorkerMoves DEF ClaimFind, At, Goto, Become, WellFormed, Memory, Idle, PCs, matches
  <2>3. CASE ClaimCommit(w)
    <3>1. PICK rows \in [Jobs -> Row], batch \in SUBSET Jobs :
              wk' = [wk EXCEPT ![w] = [Fresh EXCEPT !.pc = "next", !.batch = batch,
                        !.tries = [d \in Jobs |-> IF d \in batch THEN rows[d].attempts ELSE 0]]]
      <4> DEFINE rows == [d \in Jobs |-> IF d \in wk[w].found /\ job[d].status = "PENDING"
                                           THEN ClaimedRow(job[d], w) ELSE job[d]]
                 batch == {d \in wk[w].found : /\ rows[d].status = "PROCESSING"
                                               /\ rows[d].by = WorkerId(w)}
      <4>1. rows \in [Jobs -> Row]
        BY DEF RowsOK, ClaimedRow, WorkerId, Row, Statuses
      <4>2. batch \in SUBSET Jobs
        BY DEF WorkersOK, Memory
      <4>3. wk' = [wk EXCEPT ![w] = [Fresh EXCEPT !.pc = "next", !.batch = batch,
                        !.tries = [d \in Jobs |-> IF d \in batch THEN rows[d].attempts ELSE 0]]]
        BY <2>3 DEF ClaimCommit, Become
      <4> HIDE DEF rows, batch
      <4> QED BY <4>1, <4>2, <4>3
    <3> DEFINE tries == [d \in Jobs |-> IF d \in batch THEN rows[d].attempts ELSE 0]
               m == [Fresh EXCEPT !.pc = "next", !.batch = batch, !.tries = tries]
    <3>2. tries \in [Jobs -> Nat]
      BY DEF Row
    <3> HIDE DEF tries
    <3>3. WellFormed(m, matched)
      BY <3>2, FreshMemory DEF Fresh, WellFormed, Memory, Idle, PCs
    <3>4. wk' = [wk EXCEPT ![w] = m]
      BY <3>1 DEF tries
    <3>5. matched' = matched
      BY <2>3 DEF ClaimCommit, matches
    <3> HIDE DEF m
    <3> QED BY <3>3, <3>4, <3>5, WorkerMoves
  <2>4. CASE BatchDone(w)
    BY <2>4, FreshMemory, WorkerMoves DEF BatchDone, Become, matches
  <2>5. ASSUME NEW d \in Jobs, ProcessOne(w, d) PROVE WorkersOK'
    <3>1. wk[w] \in Memory /\ WellFormed(wk[w], matched)
      BY DEF WorkersOK
    <3>2. PICK pc \in {"match", "count", "ensure"} :
              /\ pc = "match" => d \in Notifies
              /\ wk' = [wk EXCEPT ![w] =
                          [wk[w] EXCEPT !.batch = wk[w].batch \ {d}, !.cur = d, !.pc = pc]]
      BY <2>5 DEF ProcessOne, Become
    <3>3. WellFormed([wk[w] EXCEPT !.batch = wk[w].batch \ {d}, !.cur = d, !.pc = pc], matched)
      BY <3>1, <3>2, JobsAssumption DEF WellFormed, Memory, Idle, PCs
    <3>4. matched' = matched
      BY <2>5 DEF ProcessOne, matches
    <3> QED BY <3>2, <3>3, <3>4, WorkerMoves
  <2>6. CASE EnsureFind(w)
    <3>1. wk[w] \in Memory /\ WellFormed(wk[w], matched)
      BY DEF WorkersOK
    <3> QED BY <2>6, <3>1, WorkerMoves DEF EnsureFind, At, Goto, Become, WellFormed, Memory, Idle, PCs, matches
  <2>7. CASE EnsureCreate(w)
    <3>1. wk[w] \in Memory /\ WellFormed(wk[w], matched)
      BY DEF WorkersOK
    <3> QED BY <2>7, <3>1, WorkerMoves DEF EnsureCreate, At, Goto, Become, WellFormed, Memory, Idle, PCs, matches
  <2>8. CASE MatchCommit(w)
    <3>1. wk[w] \in Memory /\ WellFormed(wk[w], matched)
      BY DEF WorkersOK
    <3> QED BY <2>8, <3>1, WorkerMoves DEF MatchCommit, At, Goto, Become, WellFormed, Memory, Idle, PCs, matches
  <2>8a. CASE MatchRead(w)
    <3>1. wk[w] \in Memory /\ WellFormed(wk[w], matched)
      BY DEF WorkersOK
    <3> QED BY <2>8a, <3>1, WorkerMoves DEF MatchRead, At, Goto, Become, WellFormed, Memory, Idle, PCs, matches
  <2>9. CASE DigestFind(w)
    <3>1. wk[w] \in Memory /\ WellFormed(wk[w], matched) /\ wk[w].pc = "digest.find"
      BY <2>9 DEF WorkersOK, DigestFind, At
    <3>2. \/ Goto(w, "digest.create")
          \/ Goto(w, "mark")
          \/ \E d \in Digests : Become(w, [wk[w] EXCEPT !.pc = "digest.write", !.seen = d])
      BY <2>9 DEF DigestFind
    <3>3. matched' = matched
      BY <2>9 DEF DigestFind, matches
    <3>4. ASSUME NEW pc \in {"digest.create", "mark"}
          PROVE  WellFormed([wk[w] EXCEPT !.pc = pc], matched)
      BY <3>1 DEF WellFormed, Memory, Idle, PCs
    <3>5. ASSUME NEW d \in Digests
          PROVE  WellFormed([wk[w] EXCEPT !.pc = "digest.write", !.seen = d], matched)
      BY <3>1 DEF WellFormed, Memory, Idle, PCs
    <3> QED BY <3>2, <3>3, <3>4, <3>5, WorkerMoves DEF Goto, Become
  <2>10. CASE DigestCreate(w)
    <3>1. wk[w] \in Memory /\ WellFormed(wk[w], matched)
      BY DEF WorkersOK
    <3> QED BY <2>10, <3>1, WorkerMoves DEF DigestCreate, At, Goto, Become, WellFormed, Memory, Idle, PCs, matches
  <2>11. CASE DigestWrite(w)
    <3>1. wk[w] \in Memory /\ WellFormed(wk[w], matched)
      BY DEF WorkersOK
    <3> QED BY <2>11, <3>1, WorkerMoves DEF DigestWrite, At, Goto, Become, WellFormed, Memory, Idle, PCs, matches
  <2>12. CASE DigestPostponed(w)
    <3>1. wk[w] \in Memory /\ WellFormed(wk[w], matched)
      BY DEF WorkersOK
    <3> QED BY <2>12, <3>1, WorkerMoves DEF DigestPostponed, At, Goto, Become, WellFormed, Memory, Idle, PCs, matches, Fails
  <2>13. CASE DigestCount(w)
    <3>1. wk[w] \in Memory /\ WellFormed(wk[w], matched) /\ wk[w].pc = "count"
      BY <2>13 DEF WorkersOK, DigestCount, At
    <3>2. \/ wk' = [wk EXCEPT ![w] = [wk[w] EXCEPT !.pc = "mark"]]
          \/ wk' = [wk EXCEPT ![w] = [wk[w] EXCEPT !.pc = "announce",
                                           !.counted = (matched \ digested) \ hidden,
                                           !.had = matched, !.hid = hidden]]
      BY <2>13 DEF DigestCount, Goto, Become, DigestOrder
    <3>3. matched' = matched
      BY <2>13 DEF DigestCount, matches
    <3>4. WellFormed([wk[w] EXCEPT !.pc = "mark"], matched)
      BY <3>1 DEF WellFormed, Memory, Idle, PCs
    <3>5. WellFormed([wk[w] EXCEPT !.pc = "announce", !.counted = (matched \ digested) \ hidden,
                                   !.had = matched, !.hid = hidden], matched)
      BY <3>1 DEF WellFormed, Memory, Idle, PCs, MatchesOK, RestOK
    <3> QED BY <3>2, <3>3, <3>4, <3>5, WorkerMoves
  <2>14. CASE DigestAnnounce(w)
    <3>1. wk[w] \in Memory /\ WellFormed(wk[w], matched)
      BY DEF WorkersOK
    <3> QED BY <2>14, <3>1, WorkerMoves DEF DigestAnnounce, At, Goto, Become, WellFormed, Memory, Idle, PCs, matches, DigestOrder
  <2>15. CASE DigestStamp(w)
    <3>1. wk[w] \in Memory /\ WellFormed(wk[w], matched)
      BY DEF WorkersOK
    <3> QED BY <2>15, <3>1, WorkerMoves DEF DigestStamp, At, Goto, Become, WellFormed, Memory, Idle, PCs, matches, DigestOrder
  <2>16. CASE JobFails(w)
    <3>1. wk[w] \in Memory /\ WellFormed(wk[w], matched)
      BY DEF WorkersOK
    <3> QED BY <2>16, <3>1, WorkerMoves DEF JobFails, At, Goto, Become, WellFormed, Memory, Idle, PCs, matches, Fails
  <2>17. CASE MarkSuccess(w)
    <3>1. wk[w].cur \in Jobs
      BY <2>17, InHand DEF MarkSuccess, At, Idle
    <3> QED BY <2>17, <3>1, NextJobMemory, WorkerMoves DEF MarkSuccess, NextJob, Become, matches
  <2>18. CASE Rescheduled(w)
    <3>1. wk[w].cur \in Jobs
      BY <2>18, InHand DEF Rescheduled, At, Idle
    <3> QED BY <2>18, <3>1, NextJobMemory, WorkerMoves DEF Rescheduled, NextJob, Become, matches
  <2>19. CASE Failed(w)
    <3>1. wk[w].cur \in Jobs
      BY <2>19, InHand DEF Failed, At, Idle
    <3> QED BY <2>19, <3>1, NextJobMemory, WorkerMoves DEF Failed, NextJob, Become, matches
  <2> QED BY <1>1, <2>1, <2>2, <2>3, <2>4, <2>5, <2>6, <2>7, <2>8, <2>8a, <2>9, <2>10, <2>11, <2>12, <2>13, <2>14, <2>15, <2>16, <2>17, <2>18, <2>19 DEF Loop, Body
<1>2. ASSUME NEW w \in Workers, BootFind(w) \/ BootCreate(w) \/ LoopError(w) \/ Crash(w)
      PROVE WorkersOK'
  <2>1. CASE BootFind(w)
    BY <2>1 DEF BootFind, WorkersOK, matches
  <2>2. CASE BootCreate(w)
    BY <2>2 DEF BootCreate, WorkersOK, matches
  <2>3. CASE LoopError(w)
    BY <2>3, FreshMemory, WorkerMoves DEF LoopError, Become, matches
  <2>4. CASE Crash(w)
    BY <2>4, FreshMemory, WorkerMoves DEF Crash, Become, matches
  <2> QED BY <1>2, <2>1, <2>2, <2>3, <2>4
<1>3. ASSUME NEW n \in Notifies, Enqueue(n) PROVE WorkersOK'
  BY <1>3 DEF Enqueue, WorkersOK, matches
<1>4. ASSUME NEW d \in Jobs, RunAtPasses(d) PROVE WorkersOK'
  BY <1>4 DEF RunAtPasses, WorkersOK, matches
<1>5. ASSUME NEW d \in Jobs, LeaseExpires(d) PROVE WorkersOK'
  BY <1>5 DEF LeaseExpires, WorkersOK, matches
<1>6. ASSUME NEW n \in Notifies, HideJob(n) \/ ShowJob(n) PROVE WorkersOK'
  BY <1>6 DEF HideJob, ShowJob, WorkersOK, matches
<1> QED BY <1>0, <1>1, <1>2, <1>3, <1>4, <1>5, <1>6 DEF Next

(* Every step leaves well-formed rows. *)
LEMMA RowsStep == TypeInv /\ [Next]_vars => RowsOK'
<1> SUFFICES ASSUME TypeInv, [Next]_vars PROVE RowsOK'
  OBVIOUS
<1> USE DEF TypeInv
<1>0. CASE UNCHANGED vars
  BY <1>0 DEF vars, RowsOK
<1>1. ASSUME NEW w \in Workers, Loop(w) PROVE RowsOK'
  <2>1. CASE ReleaseStaleLeases(w)
    BY <2>1 DEF ReleaseStaleLeases, RowsOK, Row, Statuses
  <2>2. CASE ClaimFind(w)
    BY <2>2 DEF ClaimFind, RowsOK
  <2>3. CASE ClaimCommit(w)
    BY <2>3, ZenonT(60) DEF ClaimCommit, ClaimedRow, WorkerId, RowsOK, Row, Statuses
  <2>4. CASE BatchDone(w)
    BY <2>4 DEF BatchDone, RowsOK
  <2>5. ASSUME NEW d \in Jobs, ProcessOne(w, d) PROVE RowsOK'
    BY <2>5 DEF ProcessOne, RowsOK
  <2>6. CASE EnsureFind(w)
    BY <2>6 DEF EnsureFind, RowsOK
  <2>7. CASE EnsureCreate(w)
    BY <2>7, Created DEF EnsureCreate, Jobs
  <2>8. CASE MatchCommit(w)
    BY <2>8 DEF MatchCommit, RowsOK
  <2>8a. CASE MatchRead(w)
    BY <2>8a DEF MatchRead, RowsOK
  <2>9. CASE DigestFind(w)
    BY <2>9 DEF DigestFind, RowsOK
  <2>10. CASE DigestCreate(w)
    BY <2>10, Created DEF DigestCreate, Jobs
  <2>11. CASE DigestWrite(w)
    <3>1. wk[w].seen \in Jobs
      BY <2>11 DEF DigestWrite, At, WorkersOK, WellFormed, Jobs
    <3> QED BY <2>11, <3>1, ZenonT(60) DEF DigestWrite, RowsOK, Row, Statuses
  <2>12. CASE DigestPostponed(w)
    BY <2>12 DEF DigestPostponed, RowsOK
  <2>13. CASE DigestCount(w)
    BY <2>13 DEF DigestCount, RowsOK
  <2>14. CASE DigestAnnounce(w)
    BY <2>14 DEF DigestAnnounce, RowsOK
  <2>15. CASE DigestStamp(w)
    BY <2>15 DEF DigestStamp, RowsOK
  <2>16. CASE JobFails(w)
    BY <2>16 DEF JobFails, RowsOK
  <2>17. CASE MarkSuccess(w)
    <3>1. wk[w].cur \in Jobs
      BY <2>17, InHand DEF MarkSuccess, At, Idle
    <3>2. job[wk[w].cur].attempts \in Nat /\ job[wk[w].cur].runAt \in {"due", "later"}
      BY <3>1 DEF RowsOK, Row
    <3> QED BY <2>17, <3>1, <3>2, Settled DEF MarkSuccess, Statuses, RowsOK
  <2>18. CASE Rescheduled(w)
    <3>1. wk[w].cur \in Jobs /\ wk[w].tries[wk[w].cur] \in Nat
      BY <2>18, InHand DEF Rescheduled, At, Idle
    <3> QED BY <2>18, <3>1, Settled DEF Rescheduled, Statuses, RowsOK
  <2>19. CASE Failed(w)
    <3>1. wk[w].cur \in Jobs /\ wk[w].tries[wk[w].cur] + 1 \in Nat
      BY <2>19, InHand DEF Failed, At, Idle
    <3> QED BY <2>19, <3>1, Settled DEF Failed, Statuses, RowsOK
  <2> QED BY <1>1, <2>1, <2>2, <2>3, <2>4, <2>5, <2>6, <2>7, <2>8, <2>8a, <2>9, <2>10, <2>11, <2>12, <2>13, <2>14, <2>15, <2>16, <2>17, <2>18, <2>19 DEF Loop, Body
<1>2. ASSUME NEW w \in Workers, BootFind(w) \/ BootCreate(w) \/ LoopError(w) \/ Crash(w)
      PROVE RowsOK'
  <2>1. CASE BootFind(w)
    BY <2>1 DEF BootFind, RowsOK
  <2>2. CASE BootCreate(w)
    BY <2>2, Created DEF BootCreate, Jobs
  <2>3. CASE LoopError(w)
    BY <2>3 DEF LoopError, RowsOK
  <2>4. CASE Crash(w)
    BY <2>4 DEF Crash, RowsOK
  <2> QED BY <1>2, <2>1, <2>2, <2>3, <2>4
<1>3. ASSUME NEW n \in Notifies, Enqueue(n) PROVE RowsOK'
  BY <1>3, NewRows, Rewritten DEF Enqueue, Jobs
<1>4. ASSUME NEW d \in Jobs, RunAtPasses(d) PROVE RowsOK'
  BY <1>4 DEF RunAtPasses, RowsOK, Row
<1>5. ASSUME NEW d \in Jobs, LeaseExpires(d) PROVE RowsOK'
  BY <1>5 DEF LeaseExpires, RowsOK, Row
<1>6. ASSUME NEW n \in Notifies, HideJob(n) \/ ShowJob(n) PROVE RowsOK'
  BY <1>6 DEF HideJob, ShowJob, RowsOK, Row
<1> QED BY <1>0, <1>1, <1>2, <1>3, <1>4, <1>5, <1>6 DEF Next

(* Only recorded matches are reported or stamped. *)
LEMMA MatchesStep == TypeInv /\ [Next]_vars => MatchesOK'
<1> SUFFICES ASSUME TypeInv, [Next]_vars PROVE MatchesOK'
  OBVIOUS
<1> USE DEF TypeInv, MatchesOK
<1>0. CASE UNCHANGED vars
  BY <1>0 DEF vars, matches
<1>1. ASSUME NEW w \in Workers, Loop(w) PROVE MatchesOK'
  <2>1. CASE ReleaseStaleLeases(w)
    BY <2>1 DEF ReleaseStaleLeases, matches
  <2>2. CASE ClaimFind(w)
    BY <2>2 DEF ClaimFind, matches
  <2>3. CASE ClaimCommit(w)
    BY <2>3 DEF ClaimCommit, matches
  <2>4. CASE BatchDone(w)
    BY <2>4 DEF BatchDone, matches
  <2>5. ASSUME NEW d \in Jobs, ProcessOne(w, d) PROVE MatchesOK'
    BY <2>5 DEF ProcessOne, matches
  <2>6. CASE EnsureFind(w)
    BY <2>6 DEF EnsureFind, matches
  <2>7. CASE EnsureCreate(w)
    BY <2>7 DEF EnsureCreate, matches
  <2>8. CASE MatchCommit(w)
    BY <2>8 DEF MatchCommit, At, WorkersOK, WellFormed, matches
  <2>8a. CASE MatchRead(w)
    BY <2>8a DEF MatchRead, At, WorkersOK, WellFormed, matches
  <2>9. CASE DigestFind(w)
    BY <2>9 DEF DigestFind, matches
  <2>10. CASE DigestCreate(w)
    BY <2>10 DEF DigestCreate, matches
  <2>11. CASE DigestWrite(w)
    BY <2>11 DEF DigestWrite, matches
  <2>12. CASE DigestPostponed(w)
    BY <2>12 DEF DigestPostponed, matches
  <2>13. CASE DigestCount(w)
    BY <2>13 DEF DigestCount, matches
  <2>14. CASE DigestAnnounce(w)
    BY <2>14 DEF DigestAnnounce, WorkersOK, WellFormed
  <2>15. CASE DigestStamp(w)
    BY <2>15 DEF DigestStamp, matches
  <2>16. CASE JobFails(w)
    BY <2>16 DEF JobFails, matches
  <2>17. CASE MarkSuccess(w)
    BY <2>17 DEF MarkSuccess, matches
  <2>18. CASE Rescheduled(w)
    BY <2>18 DEF Rescheduled, matches
  <2>19. CASE Failed(w)
    BY <2>19 DEF Failed, matches
  <2> QED BY <1>1, <2>1, <2>2, <2>3, <2>4, <2>5, <2>6, <2>7, <2>8, <2>8a, <2>9, <2>10, <2>11, <2>12, <2>13, <2>14, <2>15, <2>16, <2>17, <2>18, <2>19 DEF Loop, Body
<1>2. ASSUME NEW w \in Workers, BootFind(w) \/ BootCreate(w) \/ LoopError(w) \/ Crash(w)
      PROVE MatchesOK'
  <2>1. CASE BootFind(w)
    BY <2>1 DEF BootFind, matches
  <2>2. CASE BootCreate(w)
    BY <2>2 DEF BootCreate, matches
  <2>3. CASE LoopError(w)
    BY <2>3 DEF LoopError, matches
  <2>4. CASE Crash(w)
    BY <2>4 DEF Crash, matches
  <2> QED BY <1>2, <2>1, <2>2, <2>3, <2>4
<1>3. ASSUME NEW n \in Notifies, Enqueue(n) PROVE MatchesOK'
  BY <1>3 DEF Enqueue, matches
<1>4. ASSUME NEW d \in Jobs, RunAtPasses(d) PROVE MatchesOK'
  BY <1>4 DEF RunAtPasses, matches
<1>5. ASSUME NEW d \in Jobs, LeaseExpires(d) PROVE MatchesOK'
  BY <1>5 DEF LeaseExpires, matches
<1>6. ASSUME NEW n \in Notifies, HideJob(n) \/ ShowJob(n) PROVE MatchesOK'
  BY <1>6 DEF HideJob, ShowJob, matches
<1> QED BY <1>0, <1>1, <1>2, <1>3, <1>4, <1>5, <1>6 DEF Next

(* Every step leaves well-formed boot states and counters. *)
LEMMA RestStep == TypeInv /\ [Next]_vars => RestOK'
<1> SUFFICES ASSUME TypeInv, [Next]_vars PROVE RestOK'
  OBVIOUS
<1> USE DEF TypeInv, RestOK, screen
<1>0. CASE UNCHANGED vars
  BY <1>0 DEF vars
<1>1. ASSUME NEW w \in Workers, Loop(w) PROVE RestOK'
  <2>1. CASE ReleaseStaleLeases(w)
    BY <2>1 DEF ReleaseStaleLeases
  <2>2. CASE ClaimFind(w)
    BY <2>2 DEF ClaimFind
  <2>3. CASE ClaimCommit(w)
    BY <2>3 DEF ClaimCommit
  <2>4. CASE BatchDone(w)
    BY <2>4 DEF BatchDone
  <2>5. ASSUME NEW d \in Jobs, ProcessOne(w, d) PROVE RestOK'
    BY <2>5 DEF ProcessOne
  <2>6. CASE EnsureFind(w)
    BY <2>6 DEF EnsureFind
  <2>7. CASE EnsureCreate(w)
    BY <2>7 DEF EnsureCreate
  <2>8. CASE MatchCommit(w)
    BY <2>8 DEF MatchCommit
  <2>8a. CASE MatchRead(w)
    BY <2>8a DEF MatchRead
  <2>9. CASE DigestFind(w)
    BY <2>9 DEF DigestFind
  <2>10. CASE DigestCreate(w)
    BY <2>10 DEF DigestCreate
  <2>11. CASE DigestWrite(w)
    BY <2>11 DEF DigestWrite
  <2>12. CASE DigestPostponed(w)
    BY <2>12 DEF DigestPostponed
  <2>13. CASE DigestCount(w)
    BY <2>13 DEF DigestCount
  <2>14. CASE DigestAnnounce(w)
    BY <2>14 DEF DigestAnnounce
  <2>15. CASE DigestStamp(w)
    BY <2>15 DEF DigestStamp
  <2>16. CASE JobFails(w)
    BY <2>16 DEF JobFails
  <2>17. CASE MarkSuccess(w)
    BY <2>17 DEF MarkSuccess
  <2>18. CASE Rescheduled(w)
    BY <2>18 DEF Rescheduled
  <2>19. CASE Failed(w)
    BY <2>19 DEF Failed
  <2> QED BY <1>1, <2>1, <2>2, <2>3, <2>4, <2>5, <2>6, <2>7, <2>8, <2>8a, <2>9, <2>10, <2>11, <2>12, <2>13, <2>14, <2>15, <2>16, <2>17, <2>18, <2>19 DEF Loop, Body
<1>2. ASSUME NEW w \in Workers, BootFind(w) \/ BootCreate(w) \/ LoopError(w) \/ Crash(w)
      PROVE RestOK'
  <2>1. CASE BootFind(w)
    BY <2>1 DEF BootFind
  <2>2. CASE BootCreate(w)
    BY <2>2 DEF BootCreate
  <2>3. CASE LoopError(w)
    BY <2>3, JobsAssumption DEF LoopError
  <2>4. CASE Crash(w)
    BY <2>4, JobsAssumption DEF Crash
  <2> QED BY <1>2, <2>1, <2>2, <2>3, <2>4
<1>3. ASSUME NEW n \in Notifies, Enqueue(n) PROVE RestOK'
  BY <1>3 DEF Enqueue
<1>4. ASSUME NEW d \in Jobs, RunAtPasses(d) PROVE RestOK'
  BY <1>4 DEF RunAtPasses
<1>5. ASSUME NEW d \in Jobs, LeaseExpires(d) PROVE RestOK'
  BY <1>5 DEF LeaseExpires
<1>6. ASSUME NEW n \in Notifies, HideJob(n) \/ ShowJob(n) PROVE RestOK'
  BY <1>6, JobsAssumption DEF HideJob, ShowJob
<1> QED BY <1>0, <1>1, <1>2, <1>3, <1>4, <1>5, <1>6 DEF Next

(* TypeInv is inductive. *)
LEMMA TypeHolds == Spec => []TypeInv
<1>1. ASSUME Init PROVE TypeInv
  <2>1. WorkersOK
    BY <1>1, FreshMemory DEF Init, WorkersOK, WellFormed
  <2>2. RowsOK
    BY <1>1 DEF Init, RowsOK, Row, NoRow, Statuses
  <2>3. MatchesOK
    BY <1>1 DEF Init, MatchesOK
  <2>4. RestOK
    <3>1. 0 \in 0..MaxCrashes /\ 0 \in 0..MaxHides
      BY JobsAssumption
    <3> QED BY <1>1, <3>1 DEF Init, RestOK
  <2> QED BY <2>1, <2>2, <2>3, <2>4 DEF TypeInv
<1>2. TypeInv /\ [Next]_vars => TypeInv'
  BY WorkersStep, RowsStep, MatchesStep, RestStep DEF TypeInv
<1> QED BY <1>1, <1>2, PTL DEF Spec

(* Rows and memories keep their types, and a worker has a job in hand      *)
(* exactly while it runs one.                                              *)
THEOREM TypeCorrect == Spec => []TypeOK
<1>1. TypeInv => TypeOK
  BY DEF TypeInv, WorkersOK, RowsOK, MatchesOK, RestOK, WellFormed, TypeOK
<1> QED BY <1>1, TypeHolds, PTL

----------------------------------------------------------------------------
(* A row has an owner exactly while it is PROCESSING. *)
RunningHasOwner == \A d \in Jobs : job[d].by # None <=> job[d].status = "PROCESSING"
OwnerInv == RunningHasOwner /\ OwnedIsCurrent

HeldBy(m) == m.batch \cup ({m.cur} \ {None})

(* No row gets an owner, and a row that keeps its own keeps its attempts. *)
RowsKept ==
    \A d \in Jobs : /\ job'[d].by # None <=> job'[d].status = "PROCESSING"
                    /\ job'[d].by # None => /\ job'[d].by = job[d].by
                                            /\ job'[d].attempts = job[d].attempts

(* A worker holds rows of the table, and knows an attempts count of each. *)
LEMMA MemoryOf ==
    ASSUME WorkersOK, NEW w \in Workers
    PROVE  wk[w] \in Memory /\ Held(w) \subseteq Jobs /\ Held(w) = HeldBy(wk[w])
  BY DEF WorkersOK, Memory, Held, HeldBy

(* A worker that picks up nothing new. *)
LEMMA HandsKept ==
    ASSUME WorkersOK, OwnerInv, RowsKept, NEW w \in Workers, NEW m,
           wk' = [wk EXCEPT ![w] = m], HeldBy(m) \subseteq Held(w),
           \A d \in HeldBy(m) : m.tries[d] = wk[w].tries[d] \/ job'[d].by # w
    PROVE  OwnerInv'
<1>1. ASSUME NEW v \in Workers, NEW d \in Held(v)', job'[d].by = v
      PROVE  wk'[v].tries[d] = job'[d].attempts
  <2>1. CASE v = w
    <3>1. wk'[w] = m
      BY DEF WorkersOK
    <3>2. d \in HeldBy(m)
      BY <1>1, <2>1, <3>1 DEF Held, HeldBy
    <3>3. d \in Held(w) /\ d \in Jobs /\ m.tries[d] = wk[w].tries[d]
      BY <1>1, <2>1, <3>2, MemoryOf
    <3>4. job[d].by = w /\ job'[d].attempts = job[d].attempts
      BY <1>1, <2>1, <3>3, JobsAssumption DEF RowsKept
    <3> QED BY <2>1, <3>1, <3>3, <3>4 DEF OwnerInv, OwnedIsCurrent
  <2>2. CASE v # w
    <3>1. wk'[v] = wk[v]
      BY <2>2 DEF WorkersOK
    <3>2. d \in Held(v) /\ d \in Jobs
      BY <1>1, <3>1, MemoryOf DEF Held
    <3>3. job[d].by = v /\ job'[d].attempts = job[d].attempts
      BY <1>1, <3>2, JobsAssumption DEF RowsKept
    <3> QED BY <3>1, <3>2, <3>3 DEF OwnerInv, OwnedIsCurrent
  <2> QED BY <2>1, <2>2
<1> QED BY <1>1 DEF OwnerInv, OwnedIsCurrent, RunningHasOwner, RowsKept

(* A worker that only goes to another await keeps what it holds. *)
LEMMA GotoKeeps ==
    ASSUME WorkersOK, OwnerInv, RowsKept, NEW w \in Workers, NEW pc, Goto(w, pc)
    PROVE  OwnerInv'
<1> DEFINE m == [wk[w] EXCEPT !.pc = pc]
<1>1. HeldBy(m) = Held(w) /\ m.tries = wk[w].tries
  BY MemoryOf DEF HeldBy, Held, Memory
<1>2. wk' = [wk EXCEPT ![w] = m]
  BY DEF Goto, Become
<1> HIDE DEF m
<1> QED BY <1>1, <1>2, HandsKept

(* Steps that change no memory and hand over no row keep OwnerInv. *)
LEMMA MemoriesKept ==
    ASSUME WorkersOK, OwnerInv, RowsKept, wk' = wk
    PROVE  OwnerInv'
<1>1. ASSUME NEW v \in Workers, NEW d \in Held(v)', job'[d].by = v
      PROVE  wk'[v].tries[d] = job'[d].attempts
  <2>1. d \in Held(v) /\ d \in Jobs
    BY <1>1, MemoryOf DEF Held
  <2> QED BY <1>1, <2>1, JobsAssumption DEF RowsKept, OwnerInv, OwnedIsCurrent
<1> QED BY <1>1 DEF OwnerInv, OwnedIsCurrent, RunningHasOwner, RowsKept

(* A worker that is done with a row forgets it and keeps the others. *)
LEMMA LeavesJob ==
    ASSUME WorkersOK, OwnerInv, RowsKept, NEW w \in Workers, wk[w].cur \in Jobs,
           job'[wk[w].cur].by # w, NextJob(w)
    PROVE  OwnerInv'
<1> DEFINE tries == [wk[w].tries EXCEPT ![wk[w].cur] = 0]
           m == [Fresh EXCEPT !.pc = "next", !.batch = wk[w].batch, !.tries = tries]
<1>1. wk' = [wk EXCEPT ![w] = m]
  BY DEF NextJob, Become
<1>2. m.batch = wk[w].batch /\ m.cur = None /\ m.tries = tries
  <2> HIDE DEF tries
  <2> QED BY DEF Fresh
<1>3. \A d \in Jobs \ {wk[w].cur} : tries[d] = wk[w].tries[d]
  BY MemoryOf DEF Memory
<1> HIDE DEF m, tries
<1>4. HeldBy(m) \subseteq Held(w) /\ HeldBy(m) \subseteq Jobs
  BY <1>2, MemoryOf DEF HeldBy, Held
<1>5. \A d \in HeldBy(m) : m.tries[d] = wk[w].tries[d] \/ job'[d].by # w
  BY <1>2, <1>3, <1>4
<1> QED BY <1>1, <1>4, <1>5, HandsKept

(* Rows change hands with their attempts. *)
LEMMA OwnerStep == TypeInv /\ OwnerInv /\ [Next]_vars => OwnerInv'
<1> SUFFICES ASSUME TypeInv, OwnerInv, [Next]_vars PROVE OwnerInv'
  OBVIOUS
<1> USE JobsAssumption DEF TypeInv
<1>0. CASE UNCHANGED vars
  BY <1>0 DEF vars, Held, OwnerInv, OwnedIsCurrent, RunningHasOwner
<1>1. ASSUME NEW w \in Workers, Loop(w) PROVE OwnerInv'
  <2>1. CASE ReleaseStaleLeases(w)
    <3>1. RowsKept
      BY <2>1 DEF ReleaseStaleLeases, RowsKept, RunningHasOwner, OwnerInv, RowsOK, Row
    <3>2. \E pc : Goto(w, pc)
      BY <2>1 DEF ReleaseStaleLeases
    <3> QED BY <3>1, <3>2, GotoKeeps
  <2>2. CASE ClaimFind(w)
    <3>1. RowsKept
      BY <2>2 DEF ClaimFind, RowsKept, RunningHasOwner, OwnerInv
    <3>2. Goto(w, "release") \/ \E S : Become(w, [wk[w] EXCEPT !.pc = "claim", !.found = S])
      BY <2>2 DEF ClaimFind
    <3>3. ASSUME NEW S, Become(w, [wk[w] EXCEPT !.pc = "claim", !.found = S]) PROVE OwnerInv'
      <4> DEFINE m == [wk[w] EXCEPT !.pc = "claim", !.found = S]
      <4>1. HeldBy(m) = Held(w) /\ m.tries = wk[w].tries
        BY MemoryOf DEF HeldBy, Held, Memory
      <4>2. wk' = [wk EXCEPT ![w] = m]
        BY <3>3 DEF Become
      <4> HIDE DEF m
      <4> QED BY <3>1, <4>1, <4>2, HandsKept
    <3> QED BY <3>1, <3>2, <3>3, GotoKeeps
  <2>3. CASE ClaimCommit(w)
    <3>1. \A d \in Jobs : \/ job'[d] = job[d]
                          \/ /\ job'[d].status = "PROCESSING" /\ job'[d].by = w
                              /\ job'[d].attempts = job[d].attempts
      BY <2>3 DEF ClaimCommit, ClaimedRow, WorkerId, RowsOK, Row
    <3>2. ASSUME NEW v \in Workers, v # w PROVE wk'[v] = wk[v]
      BY <2>3, <3>2 DEF ClaimCommit, Become, WorkersOK
    <3>3. ASSUME NEW d \in Held(w)' PROVE d \in Jobs /\ wk'[w].tries[d] = job'[d].attempts
      <4> DEFINE batch == {e \in wk[w].found : /\ job'[e].status = "PROCESSING"
                                               /\ job'[e].by = WorkerId(w)}
                 tries == [e \in Jobs |-> IF e \in batch THEN job'[e].attempts ELSE 0]
      <4>1. batch \subseteq Jobs
        BY MemoryOf DEF Memory
      <4>2. wk'[w] = [Fresh EXCEPT !.pc = "next", !.batch = batch, !.tries = tries]
        BY <2>3 DEF ClaimCommit, Become, WorkersOK
      <4>3. wk'[w].batch = batch /\ wk'[w].cur = None /\ wk'[w].tries = tries
        <5> HIDE DEF batch, tries
        <5> QED BY <4>2 DEF Fresh
      <4> QED BY <3>3, <4>1, <4>3 DEF Held
    <3>4. RunningHasOwner'
      BY <3>1, JobsAssumption DEF OwnerInv, RunningHasOwner
    <3>5. ASSUME NEW v \in Workers, NEW d \in Held(v)', job'[d].by = v
          PROVE  wk'[v].tries[d] = job'[d].attempts
      <4>1. CASE v = w
        BY <3>3, <3>5, <4>1
      <4>2. CASE v # w
        <5>1. d \in Held(v) /\ d \in Jobs
          BY <3>2, <3>5, <4>2, MemoryOf DEF Held, Memory
        <5> QED BY <3>1, <3>2, <3>5, <4>2, <5>1 DEF OwnerInv, OwnedIsCurrent
      <4> QED BY <4>1, <4>2
    <3> QED BY <3>4, <3>5 DEF OwnerInv, OwnedIsCurrent
  <2>4. CASE BatchDone(w)
    <3>1. RowsKept
      BY <2>4 DEF BatchDone, RowsKept, RunningHasOwner, OwnerInv
    <3> DEFINE m == Fresh
    <3>2. wk' = [wk EXCEPT ![w] = m]
      BY <2>4 DEF BatchDone, Become
    <3>3. HeldBy(m) \subseteq Held(w) /\ \A d \in HeldBy(m) : m.tries[d] = wk[w].tries[d]
      BY <2>4, MemoryOf DEF BatchDone, HeldBy, Held, Memory, Fresh
    <3> HIDE DEF m
    <3>4. \A d \in HeldBy(m) : m.tries[d] = wk[w].tries[d] \/ job'[d].by # w
      BY <3>3
    <3> QED BY ONLY WorkersOK, OwnerInv, <3>1, <3>2, <3>3, <3>4, HandsKept
  <2>5. ASSUME NEW d \in Jobs, ProcessOne(w, d) PROVE OwnerInv'
    <3>1. RowsKept
      BY <2>5 DEF ProcessOne, RowsKept, RunningHasOwner, OwnerInv
    <3> DEFINE m == [wk[w] EXCEPT !.batch = wk[w].batch \ {d}, !.cur = d,
                     !.pc = IF d \in Notifies THEN "match"
                            ELSE IF d \in Digests THEN "count" ELSE "ensure"]
    <3>2. wk' = [wk EXCEPT ![w] = m]
      BY <2>5 DEF ProcessOne, Become
    <3>3. HeldBy(m) \subseteq Held(w) /\ \A e \in HeldBy(m) : m.tries[e] = wk[w].tries[e]
      BY <2>5, MemoryOf DEF ProcessOne, HeldBy, Held, Memory, Fresh
    <3> HIDE DEF m
    <3>4. \A e \in HeldBy(m) : m.tries[e] = wk[w].tries[e] \/ job'[e].by # w
      BY <3>3
    <3> QED BY ONLY WorkersOK, OwnerInv, <3>1, <3>2, <3>3, <3>4, HandsKept
  <2>6. CASE EnsureFind(w)
    <3>1. RowsKept
      BY <2>6 DEF EnsureFind, RowsKept, RunningHasOwner, OwnerInv
    <3>2. \E pc : Goto(w, pc)
      BY <2>6 DEF EnsureFind
    <3> QED BY <3>1, <3>2, GotoKeeps
  <2>7. CASE EnsureCreate(w)
    <3>1. RowsKept
      <4>1. PICK d \in Jobs : job' = [job EXCEPT ![d] = NewRow("later")]
        BY <2>7 DEF EnsureCreate, Create, Slots, Jobs
      <4> QED BY <4>1 DEF RowsKept, RunningHasOwner, OwnerInv, NewRow, NoRow, RowsOK
    <3>2. \E pc : Goto(w, pc)
      BY <2>7 DEF EnsureCreate
    <3> QED BY <3>1, <3>2, GotoKeeps
  <2>8. CASE MatchCommit(w)
    <3>1. RowsKept
      BY <2>8 DEF MatchCommit, RowsKept, RunningHasOwner, OwnerInv
    <3>2. \E pc : Goto(w, pc)
      BY <2>8 DEF MatchCommit
    <3> QED BY <3>1, <3>2, GotoKeeps
  <2>8a. CASE MatchRead(w)
    <3>1. RowsKept
      BY <2>8a DEF MatchRead, RowsKept, RunningHasOwner, OwnerInv
    <3>2. \E pc : Goto(w, pc)
      BY <2>8a DEF MatchRead
    <3> QED BY <3>1, <3>2, GotoKeeps
  <2>9. CASE DigestFind(w)
    <3>1. RowsKept
      BY <2>9 DEF DigestFind, RowsKept, RunningHasOwner, OwnerInv
    <3>2. (\E pc : Goto(w, pc)) \/ \E S : Become(w, [wk[w] EXCEPT !.pc = "digest.write", !.seen = S])
      BY <2>9 DEF DigestFind
    <3>3. ASSUME NEW S, Become(w, [wk[w] EXCEPT !.pc = "digest.write", !.seen = S]) PROVE OwnerInv'
      <4> DEFINE m == [wk[w] EXCEPT !.pc = "digest.write", !.seen = S]
      <4>1. HeldBy(m) = Held(w) /\ m.tries = wk[w].tries
        BY MemoryOf DEF HeldBy, Held, Memory
      <4>2. wk' = [wk EXCEPT ![w] = m]
        BY <3>3 DEF Become
      <4> HIDE DEF m
      <4> QED BY <3>1, <4>1, <4>2, HandsKept
    <3> QED BY <3>1, <3>2, <3>3, GotoKeeps
  <2>10. CASE DigestCreate(w)
    <3>1. RowsKept
      <4>1. PICK d \in Jobs : job' = [job EXCEPT ![d] = NewRow("later")]
        BY <2>10 DEF DigestCreate, Create, Slots, Jobs
      <4> QED BY <4>1 DEF RowsKept, RunningHasOwner, OwnerInv, NewRow, NoRow, RowsOK
    <3>2. \E pc : Goto(w, pc)
      BY <2>10 DEF DigestCreate
    <3> QED BY <3>1, <3>2, GotoKeeps
  <2>11. CASE DigestWrite(w)
    <3>1. RowsKept
      <4>1. wk[w].seen \in Jobs
        BY <2>11, MemoryOf DEF DigestWrite, At, WorkersOK, WellFormed, Jobs
      <4> QED BY <2>11, <4>1 DEF DigestWrite, RowsKept, RunningHasOwner, OwnerInv, RowsOK
    <3> DEFINE m == [wk[w] EXCEPT !.pc = "mark", !.seen = None]
    <3>2. wk' = [wk EXCEPT ![w] = m]
      BY <2>11 DEF DigestWrite, Become
    <3>3. HeldBy(m) \subseteq Held(w) /\ \A d \in HeldBy(m) : m.tries[d] = wk[w].tries[d]
      BY <2>11, MemoryOf DEF DigestWrite, HeldBy, Held, Memory, Fresh
    <3> HIDE DEF m
    <3>4. \A d \in HeldBy(m) : m.tries[d] = wk[w].tries[d] \/ job'[d].by # w
      BY <3>3
    <3> QED BY ONLY WorkersOK, OwnerInv, <3>1, <3>2, <3>3, <3>4, HandsKept
  <2>12. CASE DigestPostponed(w)
    <3>1. RowsKept
      BY <2>12 DEF DigestPostponed, RowsKept, RunningHasOwner, OwnerInv
    <3> DEFINE m == [wk[w] EXCEPT !.pc = "failed", !.how = "reschedule", !.seen = None,
                                  !.counted = {}, !.had = {}, !.hid = {}]
    <3>2. wk' = [wk EXCEPT ![w] = m]
      BY <2>12 DEF DigestPostponed, Become, Fails
    <3>3. HeldBy(m) \subseteq Held(w) /\ \A d \in HeldBy(m) : m.tries[d] = wk[w].tries[d]
      BY <2>12, MemoryOf DEF DigestPostponed, HeldBy, Held, Memory, Fresh
    <3> HIDE DEF m
    <3>4. \A d \in HeldBy(m) : m.tries[d] = wk[w].tries[d] \/ job'[d].by # w
      BY <3>3
    <3> QED BY ONLY WorkersOK, OwnerInv, <3>1, <3>2, <3>3, <3>4, HandsKept
  <2>13. CASE DigestCount(w)
    <3>1. RowsKept
      BY <2>13 DEF DigestCount, RowsKept, RunningHasOwner, OwnerInv
    <3>2. \/ Goto(w, "mark")
          \/ \E S : Become(w, [wk[w] EXCEPT !.pc = "announce", !.counted = S,
                                             !.had = matched, !.hid = hidden])
      BY <2>13 DEF DigestCount, DigestOrder
    <3>3. ASSUME NEW S, Become(w, [wk[w] EXCEPT !.pc = "announce", !.counted = S,
                                                !.had = matched, !.hid = hidden])
          PROVE  OwnerInv'
      <4> DEFINE m == [wk[w] EXCEPT !.pc = "announce", !.counted = S,
                                    !.had = matched, !.hid = hidden]
      <4>1. HeldBy(m) = Held(w) /\ m.tries = wk[w].tries
        BY MemoryOf DEF HeldBy, Held, Memory
      <4>2. wk' = [wk EXCEPT ![w] = m]
        BY <3>3 DEF Become
      <4> HIDE DEF m
      <4> QED BY <3>1, <4>1, <4>2, HandsKept
    <3> QED BY <3>1, <3>2, <3>3, GotoKeeps
  <2>14. CASE DigestAnnounce(w)
    <3>1. RowsKept
      BY <2>14 DEF DigestAnnounce, RowsKept, RunningHasOwner, OwnerInv
    <3> DEFINE m == [wk[w] EXCEPT !.pc = DigestOrder("announce"), !.counted = {}]
    <3>2. wk' = [wk EXCEPT ![w] = m]
      BY <2>14 DEF DigestAnnounce, Become
    <3>3. HeldBy(m) \subseteq Held(w) /\ \A d \in HeldBy(m) : m.tries[d] = wk[w].tries[d]
      BY <2>14, MemoryOf DEF DigestAnnounce, HeldBy, Held, Memory, Fresh
    <3> HIDE DEF m
    <3>4. \A d \in HeldBy(m) : m.tries[d] = wk[w].tries[d] \/ job'[d].by # w
      BY <3>3
    <3> QED BY ONLY WorkersOK, OwnerInv, <3>1, <3>2, <3>3, <3>4, HandsKept
  <2>15. CASE DigestStamp(w)
    <3>1. RowsKept
      BY <2>15 DEF DigestStamp, RowsKept, RunningHasOwner, OwnerInv
    <3> DEFINE m == [wk[w] EXCEPT !.pc = DigestOrder("stamp"), !.had = {}, !.hid = {}]
    <3>2. wk' = [wk EXCEPT ![w] = m]
      BY <2>15 DEF DigestStamp, Become
    <3>3. HeldBy(m) \subseteq Held(w) /\ \A d \in HeldBy(m) : m.tries[d] = wk[w].tries[d]
      BY <2>15, MemoryOf DEF DigestStamp, HeldBy, Held, Memory, Fresh
    <3> HIDE DEF m
    <3>4. \A d \in HeldBy(m) : m.tries[d] = wk[w].tries[d] \/ job'[d].by # w
      BY <3>3
    <3> QED BY ONLY WorkersOK, OwnerInv, <3>1, <3>2, <3>3, <3>4, HandsKept
  <2>16. CASE JobFails(w)
    <3>1. RowsKept
      BY <2>16 DEF JobFails, RowsKept, RunningHasOwner, OwnerInv
    <3> DEFINE m == [wk[w] EXCEPT !.pc = "failed", !.how = "error", !.seen = None,
                                  !.counted = {}, !.had = {}, !.hid = {}]
    <3>2. wk' = [wk EXCEPT ![w] = m]
      BY <2>16 DEF JobFails, Become, Fails
    <3>3. HeldBy(m) \subseteq Held(w) /\ \A d \in HeldBy(m) : m.tries[d] = wk[w].tries[d]
      BY <2>16, MemoryOf DEF JobFails, HeldBy, Held, Memory, Fresh
    <3> HIDE DEF m
    <3>4. \A d \in HeldBy(m) : m.tries[d] = wk[w].tries[d] \/ job'[d].by # w
      BY <3>3
    <3> QED BY ONLY WorkersOK, OwnerInv, <3>1, <3>2, <3>3, <3>4, HandsKept
  <2>17. CASE MarkSuccess(w)
    <3>1. wk[w].cur \in Jobs
      BY <2>17, InHand DEF MarkSuccess, At, Idle
    <3>2. RowsKept /\ job'[wk[w].cur].by # w
      BY <2>17, <3>1 DEF MarkSuccess, Settle, Owns, WorkerId, RowsKept, RunningHasOwner, OwnerInv, RowsOK
    <3> QED BY <2>17, <3>1, <3>2, LeavesJob DEF MarkSuccess
  <2>18. CASE Rescheduled(w)
    <3>1. wk[w].cur \in Jobs
      BY <2>18, InHand DEF Rescheduled, At, Idle
    <3>2. RowsKept /\ job'[wk[w].cur].by # w
      BY <2>18, <3>1 DEF Rescheduled, Settle, Owns, WorkerId, RowsKept, RunningHasOwner, OwnerInv, RowsOK
    <3> QED BY <2>18, <3>1, <3>2, LeavesJob DEF Rescheduled
  <2>19. CASE Failed(w)
    <3>1. wk[w].cur \in Jobs
      BY <2>19, InHand DEF Failed, At, Idle
    <3>2. RowsKept /\ job'[wk[w].cur].by # w
      BY <2>19, <3>1 DEF Failed, Settle, Owns, WorkerId, RowsKept, RunningHasOwner, OwnerInv, RowsOK
    <3> QED BY <2>19, <3>1, <3>2, LeavesJob DEF Failed
  <2> QED BY <1>1, <2>1, <2>2, <2>3, <2>4, <2>5, <2>6, <2>7, <2>8, <2>8a, <2>9, <2>10, <2>11, <2>12, <2>13, <2>14, <2>15, <2>16, <2>17, <2>18, <2>19 DEF Loop, Body
<1>2. ASSUME NEW w \in Workers, BootFind(w) \/ BootCreate(w) \/ LoopError(w) \/ Crash(w)
      PROVE OwnerInv'
  <2>1. CASE BootFind(w)
    <3>1. RowsKept
      BY <2>1 DEF BootFind, RowsKept, RunningHasOwner, OwnerInv
    <3> QED BY <2>1, <3>1, MemoriesKept DEF BootFind
  <2>2. CASE BootCreate(w)
    <3>1. RowsKept
      <4>1. PICK d \in Jobs : job' = [job EXCEPT ![d] = NewRow("later")]
        BY <2>2 DEF BootCreate, Create, Slots, Jobs
      <4> QED BY <4>1 DEF RowsKept, RunningHasOwner, OwnerInv, NewRow, NoRow, RowsOK
    <3> QED BY <2>2, <3>1, MemoriesKept DEF BootCreate
  <2>3. CASE LoopError(w)
    <3>1. RowsKept
      BY <2>3 DEF LoopError, RowsKept, RunningHasOwner, OwnerInv
    <3> DEFINE m == Fresh
    <3>2. wk' = [wk EXCEPT ![w] = m]
      BY <2>3 DEF LoopError, Become
    <3>3. HeldBy(m) \subseteq Held(w) /\ \A d \in HeldBy(m) : m.tries[d] = wk[w].tries[d]
      BY <2>3, MemoryOf DEF LoopError, HeldBy, Held, Memory, Fresh
    <3> HIDE DEF m
    <3>4. \A d \in HeldBy(m) : m.tries[d] = wk[w].tries[d] \/ job'[d].by # w
      BY <3>3
    <3> QED BY ONLY WorkersOK, OwnerInv, <3>1, <3>2, <3>3, <3>4, HandsKept
  <2>4. CASE Crash(w)
    <3>1. RowsKept
      BY <2>4 DEF Crash, RowsKept, RunningHasOwner, OwnerInv
    <3> DEFINE m == Fresh
    <3>2. wk' = [wk EXCEPT ![w] = m]
      BY <2>4 DEF Crash, Become
    <3>3. HeldBy(m) \subseteq Held(w) /\ \A d \in HeldBy(m) : m.tries[d] = wk[w].tries[d]
      BY <2>4, MemoryOf DEF Crash, HeldBy, Held, Memory, Fresh
    <3> HIDE DEF m
    <3>4. \A d \in HeldBy(m) : m.tries[d] = wk[w].tries[d] \/ job'[d].by # w
      BY <3>3
    <3> QED BY ONLY WorkersOK, OwnerInv, <3>1, <3>2, <3>3, <3>4, HandsKept
  <2> QED BY <1>2, <2>1, <2>2, <2>3, <2>4
<1>3. ASSUME NEW n \in Notifies, Enqueue(n) PROVE OwnerInv'
    <3>1. RowsKept
    BY <1>3 DEF Enqueue, RowsKept, RunningHasOwner, OwnerInv, NewRow, NoRow, Jobs, RowsOK
    <3> QED BY <1>3, <3>1, MemoriesKept DEF Enqueue
<1>4. ASSUME NEW d \in Jobs, RunAtPasses(d) PROVE OwnerInv'
    <3>1. RowsKept
    BY <1>4 DEF RunAtPasses, RowsKept, RunningHasOwner, OwnerInv, RowsOK, Row
    <3> QED BY <1>4, <3>1, MemoriesKept DEF RunAtPasses
<1>5. ASSUME NEW d \in Jobs, LeaseExpires(d) PROVE OwnerInv'
    <3>1. RowsKept
    BY <1>5 DEF LeaseExpires, RowsKept, RunningHasOwner, OwnerInv, RowsOK, Row
    <3> QED BY <1>5, <3>1, MemoriesKept DEF LeaseExpires
<1>6. ASSUME NEW n \in Notifies, HideJob(n) \/ ShowJob(n) PROVE OwnerInv'
    <3>1. RowsKept
    BY <1>6 DEF HideJob, ShowJob, RowsKept, RunningHasOwner, OwnerInv, RowsOK, Row
    <3> QED BY <1>6, <3>1, MemoriesKept DEF HideJob, ShowJob
<1> QED BY <1>0, <1>1, <1>2, <1>3, <1>4, <1>5, <1>6 DEF Next

(* OwnerInv is inductive, given TypeInv. *)
LEMMA OwnerHolds == Spec => []OwnerInv
<1>1. Init => OwnerInv
  BY DEF Init, OwnerInv, RunningHasOwner, OwnedIsCurrent, NoRow, Held, Fresh
<1> QED BY <1>1, TypeHolds, OwnerStep, PTL DEF Spec

(* A worker that still owns a row it holds knows the row's attempts. *)
THEOREM OwnersAreCurrent == Spec => []OwnedIsCurrent
  BY OwnerHolds, PTL DEF OwnerInv

----------------------------------------------------------------------------
(* How far a job in hand has come: past "insert" its match is recorded, at *)
(* the end it is or the job was hidden, and only JOB_MATCH_NOTIFY rows get *)
(* there.                                                                  *)
Accounted == matched \cup skipped
Progress(m, ms) ==
    /\ m.pc \in {"digest.find", "digest.create", "digest.write"} => m.cur \in ms
    /\ m.pc \in {"ensure", "create", "count", "announce", "stamp"} => m.cur \notin Notifies
    /\ m.pc = "mark" => m.cur \in ms \/ m.cur \notin Notifies
ProgressInv == \A w \in Workers : Progress(wk[w], Accounted)

(* A worker that moves to a state in progress leaves the others so. *)
LEMMA ProgressKept ==
    ASSUME WorkersOK, ProgressInv, NEW w \in Workers, NEW m, Progress(m, Accounted'),
           wk' = [wk EXCEPT ![w] = m], Accounted \subseteq Accounted'
    PROVE  ProgressInv'
<1>1. ASSUME NEW v \in Workers PROVE Progress(wk'[v], Accounted')
  BY DEF ProgressInv, Progress, WorkersOK
<1> QED BY <1>1 DEF ProgressInv

(* A worker reaches the end of a JOB_MATCH_NOTIFY only with its match
   recorded, or its job hidden. *)
LEMMA ProgressStep == TypeInv /\ ProgressInv /\ [Next]_vars => ProgressInv'
<1> SUFFICES ASSUME TypeInv, ProgressInv, [Next]_vars PROVE ProgressInv'
  OBVIOUS
<1> USE DEF TypeInv, Accounted
<1>0. CASE UNCHANGED vars
  BY <1>0 DEF vars, matches, ProgressInv
<1>1. ASSUME NEW w \in Workers, Loop(w) PROVE ProgressInv'
  <2>1. CASE ReleaseStaleLeases(w)
    <3>1. wk[w] \in Memory /\ Progress(wk[w], Accounted)
      BY DEF WorkersOK, ProgressInv
    <3> QED BY <2>1, <3>1, ProgressKept DEF ReleaseStaleLeases, At, Goto, Become, Progress, Memory, matches
  <2>2. CASE ClaimFind(w)
    <3>1. wk[w] \in Memory /\ Progress(wk[w], Accounted)
      BY DEF WorkersOK, ProgressInv
    <3> QED BY <2>2, <3>1, ProgressKept DEF ClaimFind, At, Goto, Become, Progress, Memory, matches
  <2>3. CASE ClaimCommit(w)
    <3>1. PICK b, t : wk' = [wk EXCEPT ![w] = [Fresh EXCEPT !.pc = "next", !.batch = b, !.tries = t]]
      BY <2>3 DEF ClaimCommit, Become
    <3>2. Progress([Fresh EXCEPT !.pc = "next", !.batch = b, !.tries = t], Accounted)
      BY DEF Progress, Fresh
    <3> QED BY <2>3, <3>1, <3>2, ProgressKept DEF ClaimCommit, matches
  <2>4. CASE BatchDone(w)
    BY <2>4, ProgressKept DEF BatchDone, Become, Progress, Fresh, matches
  <2>5. ASSUME NEW d \in Jobs, ProcessOne(w, d) PROVE ProgressInv'
    <3>1. wk[w] \in Memory /\ Accounted' = Accounted
      BY <2>5 DEF WorkersOK, ProcessOne, matches
    <3>2. PICK pc \in {"match", "count", "ensure"} :
              /\ pc # "match" => d \notin Notifies
              /\ wk' = [wk EXCEPT ![w] =
                          [wk[w] EXCEPT !.batch = wk[w].batch \ {d}, !.cur = d, !.pc = pc]]
      BY <2>5 DEF ProcessOne, Become
    <3>3. Progress([wk[w] EXCEPT !.batch = wk[w].batch \ {d}, !.cur = d, !.pc = pc], Accounted)
      BY <3>1, <3>2 DEF Progress, Memory
    <3> QED BY <3>1, <3>2, <3>3, ProgressKept
  <2>6. CASE EnsureFind(w)
    <3>1. wk[w] \in Memory /\ Progress(wk[w], Accounted)
      BY DEF WorkersOK, ProgressInv
    <3> QED BY <2>6, <3>1, ProgressKept DEF EnsureFind, At, Goto, Become, Progress, Memory, matches
  <2>7. CASE EnsureCreate(w)
    <3>1. wk[w] \in Memory /\ Progress(wk[w], Accounted)
      BY DEF WorkersOK, ProgressInv
    <3> QED BY <2>7, <3>1, ProgressKept DEF EnsureCreate, At, Goto, Become, Progress, Memory, matches
  <2>8. CASE MatchCommit(w)
    <3>1. wk[w] \in Memory /\ Progress(wk[w], Accounted)
      BY DEF WorkersOK, ProgressInv
    <3> QED BY <2>8, <3>1, ProgressKept DEF MatchCommit, At, Goto, Become, Progress, Memory, matches
  <2>8a. CASE MatchRead(w)
    <3>1. wk[w] \in Memory /\ Progress(wk[w], Accounted)
      BY DEF WorkersOK, ProgressInv
    <3> QED BY <2>8a, <3>1, ProgressKept DEF MatchRead, At, Goto, Become, Progress, Memory, matches
  <2>9. CASE DigestFind(w)
    <3>1. wk[w] \in Memory /\ Progress(wk[w], Accounted) /\ wk[w].pc = "digest.find"
      BY <2>9 DEF WorkersOK, ProgressInv, DigestFind, At
    <3>2. Accounted' = Accounted
      BY <2>9 DEF DigestFind, matches
    <3>3. ASSUME NEW pc \in {"digest.create", "mark"}, wk' = [wk EXCEPT ![w] = [wk[w] EXCEPT !.pc = pc]]
          PROVE  ProgressInv'
      <4>1. Progress([wk[w] EXCEPT !.pc = pc], Accounted)
        BY <3>1 DEF Progress, Memory
      <4> QED BY <3>2, <3>3, <4>1, ProgressKept
    <3>4. ASSUME NEW d, wk' = [wk EXCEPT ![w] = [wk[w] EXCEPT !.pc = "digest.write", !.seen = d]]
          PROVE  ProgressInv'
      <4>1. Progress([wk[w] EXCEPT !.pc = "digest.write", !.seen = d], Accounted)
        BY <3>1 DEF Progress, Memory
      <4> QED BY <3>2, <3>4, <4>1, ProgressKept
    <3> QED BY <2>9, <3>3, <3>4 DEF DigestFind, Goto, Become
  <2>10. CASE DigestCreate(w)
    <3>1. wk[w] \in Memory /\ Progress(wk[w], Accounted)
      BY DEF WorkersOK, ProgressInv
    <3> QED BY <2>10, <3>1, ProgressKept DEF DigestCreate, At, Goto, Become, Progress, Memory, matches
  <2>11. CASE DigestWrite(w)
    <3>1. wk[w] \in Memory /\ Progress(wk[w], Accounted)
      BY DEF WorkersOK, ProgressInv
    <3> QED BY <2>11, <3>1, ProgressKept DEF DigestWrite, At, Goto, Become, Progress, Memory, matches
  <2>12. CASE DigestPostponed(w)
    <3>1. wk[w] \in Memory /\ Progress(wk[w], Accounted)
      BY DEF WorkersOK, ProgressInv
    <3> QED BY <2>12, <3>1, ProgressKept DEF DigestPostponed, At, Goto, Become, Progress, Memory, matches, Fails
  <2>13. CASE DigestCount(w)
    <3>1. wk[w] \in Memory /\ Progress(wk[w], Accounted) /\ wk[w].pc = "count"
      BY <2>13 DEF WorkersOK, ProgressInv, DigestCount, At
    <3>2. Accounted' = Accounted
      BY <2>13 DEF DigestCount, matches
    <3>3. ASSUME wk' = [wk EXCEPT ![w] = [wk[w] EXCEPT !.pc = "mark"]]
          PROVE  ProgressInv'
      <4>1. Progress([wk[w] EXCEPT !.pc = "mark"], Accounted)
        BY <3>1 DEF Progress, Memory
      <4> QED BY <3>2, <3>3, <4>1, ProgressKept
    <3>4. ASSUME NEW S, wk' = [wk EXCEPT ![w] = [wk[w] EXCEPT !.pc = "announce", !.counted = S,
                                            !.had = matched, !.hid = hidden]]
          PROVE  ProgressInv'
      <4>1. Progress([wk[w] EXCEPT !.pc = "announce", !.counted = S,
                                            !.had = matched, !.hid = hidden], Accounted)
        BY <3>1 DEF Progress, Memory
      <4> QED BY <3>2, <3>4, <4>1, ProgressKept
    <3> QED BY <2>13, <3>3, <3>4 DEF DigestCount, Goto, Become, DigestOrder
  <2>14. CASE DigestAnnounce(w)
    <3>1. wk[w] \in Memory /\ Progress(wk[w], Accounted)
      BY DEF WorkersOK, ProgressInv
    <3> QED BY <2>14, <3>1, ProgressKept DEF DigestAnnounce, At, Goto, Become, Progress, Memory, matches, DigestOrder
  <2>15. CASE DigestStamp(w)
    <3>1. wk[w] \in Memory /\ Progress(wk[w], Accounted)
      BY DEF WorkersOK, ProgressInv
    <3> QED BY <2>15, <3>1, ProgressKept DEF DigestStamp, At, Goto, Become, Progress, Memory, matches, DigestOrder
  <2>16. CASE JobFails(w)
    <3>1. wk[w] \in Memory /\ Progress(wk[w], Accounted)
      BY DEF WorkersOK, ProgressInv
    <3> QED BY <2>16, <3>1, ProgressKept DEF JobFails, At, Goto, Become, Progress, Memory, matches, Fails
  <2>17. CASE MarkSuccess(w)
    <3>1. PICK b, t : wk' = [wk EXCEPT ![w] = [Fresh EXCEPT !.pc = "next", !.batch = b, !.tries = t]]
      BY <2>17 DEF MarkSuccess, NextJob, Become
    <3>2. Progress([Fresh EXCEPT !.pc = "next", !.batch = b, !.tries = t], Accounted)
      BY DEF Progress, Fresh
    <3> QED BY <2>17, <3>1, <3>2, ProgressKept DEF MarkSuccess, matches
  <2>18. CASE Rescheduled(w)
    <3>1. PICK b, t : wk' = [wk EXCEPT ![w] = [Fresh EXCEPT !.pc = "next", !.batch = b, !.tries = t]]
      BY <2>18 DEF Rescheduled, NextJob, Become
    <3>2. Progress([Fresh EXCEPT !.pc = "next", !.batch = b, !.tries = t], Accounted)
      BY DEF Progress, Fresh
    <3> QED BY <2>18, <3>1, <3>2, ProgressKept DEF Rescheduled, matches
  <2>19. CASE Failed(w)
    <3>1. PICK b, t : wk' = [wk EXCEPT ![w] = [Fresh EXCEPT !.pc = "next", !.batch = b, !.tries = t]]
      BY <2>19 DEF Failed, NextJob, Become
    <3>2. Progress([Fresh EXCEPT !.pc = "next", !.batch = b, !.tries = t], Accounted)
      BY DEF Progress, Fresh
    <3> QED BY <2>19, <3>1, <3>2, ProgressKept DEF Failed, matches
  <2> QED BY <1>1, <2>1, <2>2, <2>3, <2>4, <2>5, <2>6, <2>7, <2>8, <2>8a, <2>9, <2>10, <2>11, <2>12, <2>13, <2>14, <2>15, <2>16, <2>17, <2>18, <2>19 DEF Loop, Body
<1>2. ASSUME NEW w \in Workers, BootFind(w) \/ BootCreate(w) \/ LoopError(w) \/ Crash(w)
      PROVE ProgressInv'
  <2>1. CASE BootFind(w)
    BY <2>1 DEF BootFind, ProgressInv, matches
  <2>2. CASE BootCreate(w)
    BY <2>2 DEF BootCreate, ProgressInv, matches
  <2>3. CASE LoopError(w)
    BY <2>3, ProgressKept DEF LoopError, Become, Progress, Fresh, matches
  <2>4. CASE Crash(w)
    BY <2>4, ProgressKept DEF Crash, Become, Progress, Fresh, matches
  <2> QED BY <1>2, <2>1, <2>2, <2>3, <2>4
<1>3. ASSUME NEW n \in Notifies, Enqueue(n) PROVE ProgressInv'
  BY <1>3 DEF Enqueue, ProgressInv, matches
<1>4. ASSUME NEW d \in Jobs, RunAtPasses(d) PROVE ProgressInv'
  BY <1>4 DEF RunAtPasses, ProgressInv, matches
<1>5. ASSUME NEW d \in Jobs, LeaseExpires(d) PROVE ProgressInv'
  BY <1>5 DEF LeaseExpires, ProgressInv, matches
<1>6. ASSUME NEW n \in Notifies, HideJob(n) \/ ShowJob(n) PROVE ProgressInv'
  BY <1>6 DEF HideJob, ShowJob, ProgressInv, matches
<1> QED BY <1>0, <1>1, <1>2, <1>3, <1>4, <1>5, <1>6 DEF Next

(* Rows that can still run have attempts left. *)
ReasonInv == /\ FinishedForAReason
             /\ \A n \in Notifies : Live(n) => job[n].attempts < MaxAttempts[n]

(* Every step keeps ReasonInv: only MarkSuccess and Failed finish a row, and
   only for the worker that owns it and so knows its attempts. *)
LEMMA ReasonStep == TypeInv /\ OwnerInv /\ ProgressInv /\ ReasonInv /\ [Next]_vars => ReasonInv'
<1> SUFFICES ASSUME TypeInv, OwnerInv, ProgressInv, ReasonInv, [Next]_vars PROVE ReasonInv'
  OBVIOUS
<1> USE DEF TypeInv, ReasonInv, FinishedForAReason, Live, Jobs
<1>0. CASE UNCHANGED vars
  BY <1>0 DEF vars, matches
<1>1. ASSUME NEW w \in Workers, Loop(w) PROVE ReasonInv'
  <2>1. CASE ReleaseStaleLeases(w)
    BY <2>1 DEF ReleaseStaleLeases, RowsOK, Row, matches
  <2>2. CASE ClaimFind(w)
    BY <2>2 DEF ClaimFind, matches
  <2>3. CASE ClaimCommit(w)
    BY <2>3, ZenonT(60) DEF ClaimCommit, ClaimedRow, RowsOK, Row, matches
  <2>4. CASE BatchDone(w)
    BY <2>4 DEF BatchDone, matches
  <2>5. ASSUME NEW d \in Jobs, ProcessOne(w, d) PROVE ReasonInv'
    BY <2>5 DEF ProcessOne, matches
  <2>6. CASE EnsureFind(w)
    BY <2>6 DEF EnsureFind, matches
  <2>7. CASE EnsureCreate(w)
    <3>1. \A n \in Notifies : job'[n] = job[n]
      BY <2>7, JobsAssumption DEF EnsureCreate, Create, Slots, RowsOK
    <3> QED BY <2>7, <3>1 DEF EnsureCreate, matches
  <2>8. CASE MatchCommit(w)
    BY <2>8 DEF MatchCommit, matches
  <2>8a. CASE MatchRead(w)
    BY <2>8a DEF MatchRead, matches
  <2>9. CASE DigestFind(w)
    BY <2>9 DEF DigestFind, matches
  <2>10. CASE DigestCreate(w)
    <3>1. \A n \in Notifies : job'[n] = job[n]
      BY <2>10, JobsAssumption DEF DigestCreate, Create, Slots, RowsOK
    <3> QED BY <2>10, <3>1 DEF DigestCreate, matches
  <2>11. CASE DigestWrite(w)
    <3>1. \A n \in Notifies : job'[n] = job[n]
      BY <2>11, JobsAssumption DEF DigestWrite, At, WorkersOK, WellFormed, RowsOK
    <3> QED BY <2>11, <3>1 DEF DigestWrite, matches
  <2>12. CASE DigestPostponed(w)
    BY <2>12 DEF DigestPostponed, matches
  <2>13. CASE DigestCount(w)
    BY <2>13 DEF DigestCount, matches
  <2>14. CASE DigestAnnounce(w)
    BY <2>14 DEF DigestAnnounce, matches
  <2>15. CASE DigestStamp(w)
    BY <2>15 DEF DigestStamp, matches
  <2>16. CASE JobFails(w)
    BY <2>16 DEF JobFails, matches
  <2>17. CASE MarkSuccess(w)
    <3>1. wk[w].cur \in Jobs
      BY <2>17, InHand DEF MarkSuccess, At, Idle
    <3>2. wk[w].cur \in Notifies => wk[w].cur \in matched \cup skipped
      BY <2>17 DEF MarkSuccess, At, ProgressInv, Progress, Accounted
    <3> QED BY <2>17, <3>1, <3>2 DEF MarkSuccess, Settle, RowsOK, matches
  <2>18. CASE Rescheduled(w)
    <3>1. wk[w].cur \in Jobs
      BY <2>18, InHand DEF Rescheduled, At, Idle
    <3>2. Owns(w, wk[w].cur) => wk[w].tries[wk[w].cur] = job[wk[w].cur].attempts
      BY <3>1, JobsAssumption DEF Owns, WorkerId, OwnerInv, OwnedIsCurrent, Held
    <3>3. Owns(w, wk[w].cur) => Live(wk[w].cur)
      BY DEF Owns, Live
    <3> QED BY <2>18, <3>1, <3>2, <3>3 DEF Rescheduled, Settle, RowsOK, matches
  <2>19. CASE Failed(w)
    <3>1. wk[w].cur \in Jobs
      BY <2>19, InHand DEF Failed, At, Idle
    <3>2. Owns(w, wk[w].cur) => wk[w].tries[wk[w].cur] = job[wk[w].cur].attempts
      BY <3>1, JobsAssumption DEF Owns, WorkerId, OwnerInv, OwnedIsCurrent, Held
    <3>3. CASE wk[w].cur \notin Notifies \/ ~Owns(w, wk[w].cur)
      <4>1. \A n \in Notifies : job'[n] = job[n]
        BY <2>19, <3>1, <3>3 DEF Failed, Settle, RowsOK
      <4> QED BY <2>19, <4>1 DEF Failed, matches
    <3>4. CASE wk[w].cur \in Notifies /\ Owns(w, wk[w].cur)
      <4> DEFINE n == wk[w].cur
                 a == wk[w].tries[n] + 1
      <4>1. n \in Notifies /\ a \in Nat /\ a <= MaxAttempts[n] /\ MaxAttempts[n] \in Nat
        BY <3>2, <3>4, JobsAssumption DEF Owns, Live, RowsOK, Row, Jobs
      <4>2. /\ job'[n].attempts = a
            /\ job'[n].status = IF a >= MaxAttempts[n] THEN "DEAD" ELSE "PENDING"
            /\ \A k \in Notifies \ {n} : job'[k] = job[k]
        BY <2>19, <3>1, <3>4 DEF Failed, Settle, Exhausted, RowsOK
      <4>3. matched' = matched /\ skipped' = skipped
        BY <2>19 DEF Failed, matches
      <4> HIDE DEF n, a
      <4> QED BY <4>1, <4>2, <4>3
    <3> QED BY <3>3, <3>4
  <2> QED BY <1>1, <2>1, <2>2, <2>3, <2>4, <2>5, <2>6, <2>7, <2>8, <2>8a, <2>9, <2>10, <2>11, <2>12, <2>13, <2>14, <2>15, <2>16, <2>17, <2>18, <2>19 DEF Loop, Body
<1>2. ASSUME NEW w \in Workers, BootFind(w) \/ BootCreate(w) \/ LoopError(w) \/ Crash(w)
      PROVE ReasonInv'
  <2>1. CASE BootFind(w)
    BY <2>1 DEF BootFind, matches
  <2>2. CASE BootCreate(w)
    <3>1. \A n \in Notifies : job'[n] = job[n]
      BY <2>2, JobsAssumption DEF BootCreate, Create, Slots, RowsOK
    <3> QED BY <2>2, <3>1 DEF BootCreate, matches
  <2>3. CASE LoopError(w)
    BY <2>3 DEF LoopError, matches
  <2>4. CASE Crash(w)
    BY <2>4 DEF Crash, matches
  <2> QED BY <1>2, <2>1, <2>2, <2>3, <2>4
<1>3. ASSUME NEW n \in Notifies, Enqueue(n) PROVE ReasonInv'
    <3>1. 0 < MaxAttempts[n]
    BY JobsAssumption DEF Jobs
    <3> QED BY <1>3, <3>1 DEF Enqueue, NewRow, NoRow, matches, RowsOK
<1>4. ASSUME NEW d \in Jobs, RunAtPasses(d) PROVE ReasonInv'
  BY <1>4 DEF RunAtPasses, RowsOK, Row, matches
<1>5. ASSUME NEW d \in Jobs, LeaseExpires(d) PROVE ReasonInv'
  BY <1>5 DEF LeaseExpires, RowsOK, Row, matches
<1>6. ASSUME NEW n \in Notifies, HideJob(n) \/ ShowJob(n) PROVE ReasonInv'
  BY <1>6 DEF HideJob, ShowJob, RowsOK, Row, matches
<1> QED BY <1>0, <1>1, <1>2, <1>3, <1>4, <1>5, <1>6 DEF Next

(* SUCCESS and DEAD mean what they say, for any number of workers. *)
THEOREM JobsFinishForAReason == Spec => []FinishedForAReason
<1>1. Init => ProgressInv /\ ReasonInv
  BY DEF Init, ProgressInv, Progress, Fresh, ReasonInv, FinishedForAReason, NoRow, Live, Jobs
<1>2. ReasonInv => FinishedForAReason
  BY DEF ReasonInv
<1> QED BY <1>1, <1>2, TypeHolds, OwnerHolds, ProgressStep, ReasonStep, PTL DEF Spec

----------------------------------------------------------------------------
FinalStep == \A n \in Notifies : Finished(n) => job'[n].status = job[n].status

(* No step takes a JOB_MATCH_NOTIFY row out of SUCCESS or DEAD. *)
LEMMA FinishedStep == TypeInv /\ [Next]_vars => FinalStep
<1> SUFFICES ASSUME TypeInv, [Next]_vars PROVE FinalStep
  OBVIOUS
<1> USE DEF TypeInv, FinalStep, Finished, Live, Jobs
<1>0. CASE UNCHANGED vars
  BY <1>0 DEF vars
<1>1. ASSUME NEW w \in Workers, Loop(w) PROVE FinalStep
  <2>1. CASE ReleaseStaleLeases(w)
    BY <2>1 DEF ReleaseStaleLeases
  <2>2. CASE ClaimFind(w)
    BY <2>2 DEF ClaimFind
  <2>3. CASE ClaimCommit(w)
    BY <2>3 DEF ClaimCommit, ClaimedRow
  <2>4. CASE BatchDone(w)
    BY <2>4 DEF BatchDone
  <2>5. ASSUME NEW d \in Jobs, ProcessOne(w, d) PROVE FinalStep
    BY <2>5 DEF ProcessOne
  <2>6. CASE EnsureFind(w)
    BY <2>6 DEF EnsureFind
  <2>7. CASE EnsureCreate(w)
    BY <2>7, JobsAssumption DEF EnsureCreate, Create, Slots, RowsOK
  <2>8. CASE MatchCommit(w)
    BY <2>8 DEF MatchCommit
  <2>8a. CASE MatchRead(w)
    BY <2>8a DEF MatchRead
  <2>9. CASE DigestFind(w)
    BY <2>9 DEF DigestFind
  <2>10. CASE DigestCreate(w)
    BY <2>10, JobsAssumption DEF DigestCreate, Create, Slots, RowsOK
  <2>11. CASE DigestWrite(w)
    <3>1. wk[w].seen \in Digests
      BY <2>11 DEF DigestWrite, At, WorkersOK, WellFormed
    <3> QED BY <2>11, <3>1, JobsAssumption DEF DigestWrite, RowsOK
  <2>12. CASE DigestPostponed(w)
    BY <2>12 DEF DigestPostponed
  <2>13. CASE DigestCount(w)
    BY <2>13 DEF DigestCount
  <2>14. CASE DigestAnnounce(w)
    BY <2>14 DEF DigestAnnounce
  <2>15. CASE DigestStamp(w)
    BY <2>15 DEF DigestStamp
  <2>16. CASE JobFails(w)
    BY <2>16 DEF JobFails
  <2>17. CASE MarkSuccess(w)
    <3>1. wk[w].cur \in Jobs /\ wk[w].pc # "next"
      BY <2>17, InHand DEF MarkSuccess, At, Idle
    <3>2. wk'[w].pc = "next"
      BY <2>17, InHand DEF MarkSuccess, NextJob, Become, WorkersOK, Fresh
    <3>3. \A d \in Jobs : \/ job'[d] = job[d]
                          \/ job[d].status = "PROCESSING" /\ job[d].by = w
      BY <2>17, <3>1 DEF MarkSuccess, Settle, Owns, WorkerId, RowsOK
    <3>4. wk'[w] # wk[w]
      BY <3>1, <3>2
    <3>5. \A d \in Jobs : job'[d] = job[d] \/ wk'[job[d].by] # wk[job[d].by]
      BY <3>3, <3>4
    <3> QED BY <3>3, <3>5
  <2>18. CASE Rescheduled(w)
    <3>1. wk[w].cur \in Jobs /\ wk[w].pc # "next"
      BY <2>18, InHand DEF Rescheduled, At, Idle
    <3>2. wk'[w].pc = "next"
      BY <2>18, InHand DEF Rescheduled, NextJob, Become, WorkersOK, Fresh
    <3>3. \A d \in Jobs : \/ job'[d] = job[d]
                          \/ job[d].status = "PROCESSING" /\ job[d].by = w
      BY <2>18, <3>1 DEF Rescheduled, Settle, Owns, WorkerId, RowsOK
    <3>4. wk'[w] # wk[w]
      BY <3>1, <3>2
    <3>5. \A d \in Jobs : job'[d] = job[d] \/ wk'[job[d].by] # wk[job[d].by]
      BY <3>3, <3>4
    <3> QED BY <3>3, <3>5
  <2>19. CASE Failed(w)
    <3>1. wk[w].cur \in Jobs /\ wk[w].pc # "next"
      BY <2>19, InHand DEF Failed, At, Idle
    <3>2. wk'[w].pc = "next"
      BY <2>19, InHand DEF Failed, NextJob, Become, WorkersOK, Fresh
    <3>3. \A d \in Jobs : \/ job'[d] = job[d]
                          \/ job[d].status = "PROCESSING" /\ job[d].by = w
      BY <2>19, <3>1 DEF Failed, Settle, Owns, WorkerId, RowsOK
    <3>4. wk'[w] # wk[w]
      BY <3>1, <3>2
    <3>5. \A d \in Jobs : job'[d] = job[d] \/ wk'[job[d].by] # wk[job[d].by]
      BY <3>3, <3>4
    <3> QED BY <3>3, <3>5
  <2> QED BY <1>1, <2>1, <2>2, <2>3, <2>4, <2>5, <2>6, <2>7, <2>8, <2>8a, <2>9, <2>10, <2>11, <2>12, <2>13, <2>14, <2>15, <2>16, <2>17, <2>18, <2>19 DEF Loop, Body
<1>2. ASSUME NEW w \in Workers, BootFind(w) \/ BootCreate(w) \/ LoopError(w) \/ Crash(w)
      PROVE FinalStep
  <2>1. CASE BootFind(w)
    BY <2>1 DEF BootFind
  <2>2. CASE BootCreate(w)
    BY <2>2, JobsAssumption DEF BootCreate, Create, Slots, RowsOK
  <2>3. CASE LoopError(w)
    BY <2>3 DEF LoopError
  <2>4. CASE Crash(w)
    BY <2>4 DEF Crash
  <2> QED BY <1>2, <2>1, <2>2, <2>3, <2>4
<1>3. ASSUME NEW n \in Notifies, Enqueue(n) PROVE FinalStep
  BY <1>3 DEF Enqueue, RowsOK
<1>4. ASSUME NEW d \in Jobs, RunAtPasses(d) PROVE FinalStep
  BY <1>4 DEF RunAtPasses, RowsOK, Row
<1>5. ASSUME NEW d \in Jobs, LeaseExpires(d) PROVE FinalStep
  BY <1>5 DEF LeaseExpires, RowsOK, Row
<1>6. ASSUME NEW n \in Notifies, HideJob(n) \/ ShowJob(n) PROVE FinalStep
  BY <1>6 DEF HideJob, ShowJob, RowsOK, Row
<1> QED BY <1>0, <1>1, <1>2, <1>3, <1>4, <1>5, <1>6 DEF Next

(* However late a worker reports, a finished JOB_MATCH_NOTIFY row stays so. *)
THEOREM FinishedStaysFinished == Spec => FinishedIsFinal
<1>1. TypeInv /\ [Next]_vars => [FinalStep]_vars
  BY FinishedStep
<1> QED BY <1>1, TypeHolds, PTL DEF Spec, FinishedIsFinal, FinalStep

LockStep == \A d \in Notifies \cup Recurrents :
    Locked(d) => \/ job'[d] = [job[d] EXCEPT !.runAt = job'[d].runAt, !.lock = job'[d].lock]
                 \/ wk'[job[d].by] # wk[job[d].by]

(* No step but one of its owner takes a freshly locked row away. *)
LEMMA FreshLockStep == TypeInv /\ [Next]_vars => LockStep
<1> SUFFICES ASSUME TypeInv, [Next]_vars PROVE LockStep
  OBVIOUS
<1>a. \A d \in Jobs : job[d] = [job[d] EXCEPT !.runAt = job[d].runAt, !.lock = job[d].lock]
  BY DEF TypeInv, RowsOK, Row
<1> USE <1>a DEF TypeInv, LockStep, Locked, Live, Jobs
<1>0. CASE UNCHANGED vars
  BY <1>0 DEF vars
<1>1. ASSUME NEW w \in Workers, Loop(w) PROVE LockStep
  <2>1. CASE ReleaseStaleLeases(w)
    BY <2>1 DEF ReleaseStaleLeases
  <2>2. CASE ClaimFind(w)
    BY <2>2 DEF ClaimFind
  <2>3. CASE ClaimCommit(w)
    BY <2>3 DEF ClaimCommit, ClaimedRow
  <2>4. CASE BatchDone(w)
    BY <2>4 DEF BatchDone
  <2>5. ASSUME NEW d \in Jobs, ProcessOne(w, d) PROVE LockStep
    BY <2>5 DEF ProcessOne
  <2>6. CASE EnsureFind(w)
    BY <2>6 DEF EnsureFind
  <2>7. CASE EnsureCreate(w)
    BY <2>7, JobsAssumption DEF EnsureCreate, Create, Slots, RowsOK
  <2>8. CASE MatchCommit(w)
    BY <2>8 DEF MatchCommit
  <2>8a. CASE MatchRead(w)
    BY <2>8a DEF MatchRead
  <2>9. CASE DigestFind(w)
    BY <2>9 DEF DigestFind
  <2>10. CASE DigestCreate(w)
    BY <2>10, JobsAssumption DEF DigestCreate, Create, Slots, RowsOK
  <2>11. CASE DigestWrite(w)
    <3>1. wk[w].seen \in Digests
      BY <2>11 DEF DigestWrite, At, WorkersOK, WellFormed
    <3> QED BY <2>11, <3>1, JobsAssumption DEF DigestWrite, RowsOK
  <2>12. CASE DigestPostponed(w)
    BY <2>12 DEF DigestPostponed
  <2>13. CASE DigestCount(w)
    BY <2>13 DEF DigestCount
  <2>14. CASE DigestAnnounce(w)
    BY <2>14 DEF DigestAnnounce
  <2>15. CASE DigestStamp(w)
    BY <2>15 DEF DigestStamp
  <2>16. CASE JobFails(w)
    BY <2>16 DEF JobFails
  <2>17. CASE MarkSuccess(w)
    <3>1. wk[w].cur \in Jobs /\ wk[w].pc # "next"
      BY <2>17, InHand DEF MarkSuccess, At, Idle
    <3>2. wk'[w].pc = "next"
      BY <2>17, InHand DEF MarkSuccess, NextJob, Become, WorkersOK, Fresh
    <3>3. \A d \in Jobs : \/ job'[d] = job[d]
                          \/ job[d].status = "PROCESSING" /\ job[d].by = w
      BY <2>17, <3>1 DEF MarkSuccess, Settle, Owns, WorkerId, RowsOK
    <3>4. wk'[w] # wk[w]
      BY <3>1, <3>2
    <3>5. \A d \in Jobs : job'[d] = job[d] \/ wk'[job[d].by] # wk[job[d].by]
      BY <3>3, <3>4
    <3> QED BY <3>3, <3>5
  <2>18. CASE Rescheduled(w)
    <3>1. wk[w].cur \in Jobs /\ wk[w].pc # "next"
      BY <2>18, InHand DEF Rescheduled, At, Idle
    <3>2. wk'[w].pc = "next"
      BY <2>18, InHand DEF Rescheduled, NextJob, Become, WorkersOK, Fresh
    <3>3. \A d \in Jobs : \/ job'[d] = job[d]
                          \/ job[d].status = "PROCESSING" /\ job[d].by = w
      BY <2>18, <3>1 DEF Rescheduled, Settle, Owns, WorkerId, RowsOK
    <3>4. wk'[w] # wk[w]
      BY <3>1, <3>2
    <3>5. \A d \in Jobs : job'[d] = job[d] \/ wk'[job[d].by] # wk[job[d].by]
      BY <3>3, <3>4
    <3> QED BY <3>3, <3>5
  <2>19. CASE Failed(w)
    <3>1. wk[w].cur \in Jobs /\ wk[w].pc # "next"
      BY <2>19, InHand DEF Failed, At, Idle
    <3>2. wk'[w].pc = "next"
      BY <2>19, InHand DEF Failed, NextJob, Become, WorkersOK, Fresh
    <3>3. \A d \in Jobs : \/ job'[d] = job[d]
                          \/ job[d].status = "PROCESSING" /\ job[d].by = w
      BY <2>19, <3>1 DEF Failed, Settle, Owns, WorkerId, RowsOK
    <3>4. wk'[w] # wk[w]
      BY <3>1, <3>2
    <3>5. \A d \in Jobs : job'[d] = job[d] \/ wk'[job[d].by] # wk[job[d].by]
      BY <3>3, <3>4
    <3> QED BY <3>3, <3>5
  <2> QED BY <1>1, <2>1, <2>2, <2>3, <2>4, <2>5, <2>6, <2>7, <2>8, <2>8a, <2>9, <2>10, <2>11, <2>12, <2>13, <2>14, <2>15, <2>16, <2>17, <2>18, <2>19 DEF Loop, Body
<1>2. ASSUME NEW w \in Workers, BootFind(w) \/ BootCreate(w) \/ LoopError(w) \/ Crash(w)
      PROVE LockStep
  <2>1. CASE BootFind(w)
    BY <2>1 DEF BootFind
  <2>2. CASE BootCreate(w)
    BY <2>2, JobsAssumption DEF BootCreate, Create, Slots, RowsOK
  <2>3. CASE LoopError(w)
    BY <2>3 DEF LoopError
  <2>4. CASE Crash(w)
    BY <2>4 DEF Crash
  <2> QED BY <1>2, <2>1, <2>2, <2>3, <2>4
<1>3. ASSUME NEW n \in Notifies, Enqueue(n) PROVE LockStep
  BY <1>3 DEF Enqueue, RowsOK
<1>4. ASSUME NEW d \in Jobs, RunAtPasses(d) PROVE LockStep
  BY <1>4, ZenonT(60) DEF RunAtPasses, RowsOK, Row
<1>5. ASSUME NEW d \in Jobs, LeaseExpires(d) PROVE LockStep
  BY <1>5, ZenonT(60) DEF LeaseExpires, RowsOK, Row
<1>6. ASSUME NEW n \in Notifies, HideJob(n) \/ ShowJob(n) PROVE LockStep
  BY <1>6, ZenonT(60) DEF HideJob, ShowJob, RowsOK, Row
<1> QED BY <1>0, <1>1, <1>2, <1>3, <1>4, <1>5, <1>6 DEF Next

(* While a lock is fresh nobody but its owner touches the row. *)
THEOREM FreshLocksProtect == Spec => FreshLockProtects
<1>1. TypeInv /\ [Next]_vars => [LockStep]_vars
  BY FreshLockStep
<1> QED BY <1>1, TypeHolds, PTL DEF Spec, FreshLockProtects, LockStep

----------------------------------------------------------------------------
(* What a digest in hand has still to tell: of the matches there were when *)
(* it counted, those not stamped are counted before the announcement and   *)
(* reported after it, unless their jobs were hidden at the count.          *)
Informed(m, stamped, told) ==
    /\ m.pc = "announce" => m.had \ stamped \subseteq m.counted \cup m.hid
    /\ m.pc = "stamp" => m.had \ stamped \subseteq told \cup m.hid
ReportInv == \A w \in Workers : Informed(wk[w], digested, reported)

(* A worker that moves to an informed memory leaves the others so.         *)
LEMMA InformedKept ==
    ASSUME WorkersOK, ReportInv, digested \subseteq digested', reported \subseteq reported',
           NEW w \in Workers, NEW m, Become(w, m), Informed(m, digested', reported')
    PROVE  ReportInv'
<1>1. ASSUME NEW v \in Workers PROVE Informed(wk'[v], digested', reported')
  BY DEF ReportInv, Informed, WorkersOK, Become
<1> QED BY <1>1 DEF ReportInv

(* A worker that is neither announcing nor stamping has nothing to tell.   *)
LEMMA NothingToTell ==
    ASSUME WorkersOK, ReportInv, digested' = digested, reported' = reported,
           NEW w \in Workers, NEW m, Become(w, m), m.pc \notin {"announce", "stamp"}
    PROVE  ReportInv' /\ digested' = digested
  BY InformedKept DEF Informed

(* What a step that stamps owes to the matches it stamps.                  *)
ReportStep ==
    \A n \in digested' \ digested :
        n \in reported \/ \E w \in Workers : Passed(w, n) /\ wk'[w] # wk[w]

LEMMA StampsWhatWasTold ==
    TypeInv /\ ReportInv /\ [Next]_vars => ReportInv' /\ ReportStep
<1> SUFFICES ASSUME TypeInv, ReportInv, [Next]_vars PROVE ReportInv' /\ ReportStep
  OBVIOUS
<1> USE DEF TypeInv
<1>a. ReportInv' /\ digested' = digested => ReportInv' /\ ReportStep
  BY DEF ReportStep
<1>0. ASSUME wk' = wk, digested' = digested, reported' = reported
      PROVE  ReportInv' /\ ReportStep
  BY <1>0, <1>a DEF ReportInv, Informed
<1>1. ASSUME NEW w \in Workers, NEW pc, Goto(w, pc), pc \notin {"announce", "stamp"},
             digested' = digested, reported' = reported
      PROVE  ReportInv' /\ ReportStep
  <2> DEFINE m == [wk[w] EXCEPT !.pc = pc]
  <2>1. Become(w, m) /\ m.pc = pc
    BY <1>1 DEF Goto, WorkersOK, Memory
  <2> HIDE DEF m
  <2> QED BY <1>1, <1>a, <2>1, NothingToTell
<1>2. ASSUME NEW w \in Workers, NEW how, Fails(w, how), digested' = digested, reported' = reported
      PROVE  ReportInv' /\ ReportStep
  <2> DEFINE m == [wk[w] EXCEPT !.pc = "failed", !.how = how, !.seen = None,
                                !.counted = {}, !.had = {}, !.hid = {}]
  <2>1. Become(w, m) /\ m.pc = "failed"
    BY <1>2 DEF Fails, WorkersOK, Memory
  <2> HIDE DEF m
  <2> QED BY <1>2, <1>a, <2>1, NothingToTell
<1>3. ASSUME NEW w \in Workers, NextJob(w) \/ Become(w, Fresh),
             digested' = digested, reported' = reported
      PROVE  ReportInv' /\ ReportStep
  <2> DEFINE m == [Fresh EXCEPT !.pc = "next", !.batch = wk[w].batch,
                      !.tries = [wk[w].tries EXCEPT ![wk[w].cur] = 0]]
  <2>1. m.pc = "next" /\ Fresh.pc = "release" /\ (Become(w, m) \/ Become(w, Fresh))
    BY <1>3 DEF NextJob, Fresh
  <2> HIDE DEF m
  <2> QED BY <1>3, <1>a, <2>1, NothingToTell
<1>4. ASSUME NEW w \in Workers, Loop(w) PROVE ReportInv' /\ ReportStep
  <2>0. wk[w] \in Memory
    BY DEF WorkersOK
  <2>1. CASE \/ ReleaseStaleLeases(w) \/ EnsureFind(w) \/ EnsureCreate(w)
             \/ MatchRead(w) \/ MatchCommit(w) \/ DigestCreate(w)
    <3>1. PICK pc \in {"find", "mark", "create", "insert", "digest.find"} : Goto(w, pc)
      BY <2>1 DEF ReleaseStaleLeases, EnsureFind, EnsureCreate, MatchRead, MatchCommit, DigestCreate
    <3>2. digested' = digested /\ reported' = reported
      BY <2>1 DEF ReleaseStaleLeases, EnsureFind, EnsureCreate, MatchRead, MatchCommit,
                  DigestCreate, matches
    <3> QED BY <1>1, <3>1, <3>2
  <2>2. CASE ClaimFind(w)
    <3>1. PICK found : \/ Goto(w, "release")
                       \/ Become(w, [wk[w] EXCEPT !.pc = "claim", !.found = found])
      BY <2>2 DEF ClaimFind
    <3>2. [wk[w] EXCEPT !.pc = "claim", !.found = found].pc = "claim"
      BY <2>0 DEF Memory
    <3> QED BY <1>1, <1>a, <2>2, <3>1, <3>2, NothingToTell DEF ClaimFind, matches
  <2>3. CASE ClaimCommit(w)
    <3>1. PICK batch, tries : wk' = [wk EXCEPT ![w] =
              [Fresh EXCEPT !.pc = "next", !.batch = batch, !.tries = tries]]
      BY <2>3 DEF ClaimCommit, Become
    <3> DEFINE m == [Fresh EXCEPT !.pc = "next", !.batch = batch, !.tries = tries]
    <3>2. Become(w, m) /\ m.pc = "next"
      BY <3>1 DEF Become, Fresh
    <3> HIDE DEF m
    <3> QED BY <1>a, <2>3, <3>2, NothingToTell DEF ClaimCommit, matches
  <2>4. CASE BatchDone(w)
    BY <1>3, <2>4 DEF BatchDone, matches
  <2>5. ASSUME NEW d \in Jobs, ProcessOne(w, d) PROVE ReportInv' /\ ReportStep
    <3>1. PICK pc \in {"match", "count", "ensure"} :
              Become(w, [wk[w] EXCEPT !.batch = @ \ {d}, !.cur = d, !.pc = pc])
      BY <2>5 DEF ProcessOne
    <3> DEFINE m == [wk[w] EXCEPT !.batch = @ \ {d}, !.cur = d, !.pc = pc]
    <3>2. Become(w, m) /\ m.pc = pc
      BY <2>0, <3>1 DEF Memory
    <3> HIDE DEF m
    <3> QED BY <1>a, <2>5, <3>2, NothingToTell DEF ProcessOne, matches
  <2>6. CASE DigestFind(w)
    <3>1. PICK seen : \/ Goto(w, "digest.create")
                      \/ Goto(w, "mark")
                      \/ Become(w, [wk[w] EXCEPT !.pc = "digest.write", !.seen = seen])
      BY <2>6 DEF DigestFind
    <3>2. [wk[w] EXCEPT !.pc = "digest.write", !.seen = seen].pc = "digest.write"
      BY <2>0 DEF Memory
    <3> QED BY <1>1, <1>a, <2>6, <3>1, <3>2, NothingToTell DEF DigestFind, matches
  <2>7. CASE DigestWrite(w)
    <3> DEFINE m == [wk[w] EXCEPT !.pc = "mark", !.seen = None]
    <3>1. Become(w, m) /\ m.pc = "mark"
      BY <2>0, <2>7 DEF DigestWrite, Memory
    <3> HIDE DEF m
    <3> QED BY <1>a, <2>7, <3>1, NothingToTell DEF DigestWrite, matches
  <2>8. CASE DigestPostponed(w) \/ JobFails(w)
    BY <1>2, <2>8 DEF DigestPostponed, JobFails, matches
  <2>9. CASE DigestCount(w)
    <3> DEFINE m == [wk[w] EXCEPT !.pc = "announce", !.counted = (matched \ digested) \ hidden,
                                  !.had = matched, !.hid = hidden]
    <3>1. digested' = digested /\ reported' = reported
      BY <2>9 DEF DigestCount, matches
    <3>2. Goto(w, "mark") \/ Become(w, m)
      BY <2>9 DEF DigestCount, DigestOrder
    <3>3. /\ m.pc = "announce" /\ m.had = matched /\ m.hid = hidden
          /\ m.counted = (matched \ digested) \ hidden
      BY <2>0 DEF Memory
    <3> HIDE DEF m
    <3>4. Informed(m, digested, reported)
      BY <3>3 DEF Informed
    <3> QED BY <1>1, <1>a, <3>1, <3>2, <3>4, InformedKept
  <2>10. CASE DigestAnnounce(w)
    <3> DEFINE m == [wk[w] EXCEPT !.pc = "stamp", !.counted = {}]
    <3>1. Become(w, m) /\ digested' = digested /\ reported' = reported \cup wk[w].counted
      BY <2>10 DEF DigestAnnounce, DigestOrder
    <3>2. m.pc = "stamp" /\ m.had = wk[w].had /\ m.hid = wk[w].hid
      BY <2>0 DEF Memory
    <3>3. wk[w].had \ digested \subseteq wk[w].counted \cup wk[w].hid
      BY <2>10 DEF DigestAnnounce, At, ReportInv, Informed
    <3> HIDE DEF m
    <3>4. Informed(m, digested', reported')
      BY <3>1, <3>2, <3>3 DEF Informed
    <3> QED BY <1>a, <3>1, <3>4, InformedKept
  <2>11. CASE DigestStamp(w)
    <3> DEFINE m == [wk[w] EXCEPT !.pc = "mark", !.had = {}, !.hid = {}]
    <3>1. Become(w, m) /\ digested' = matched /\ reported' = reported /\ wk[w].pc = "stamp"
      BY <2>11 DEF DigestStamp, DigestOrder, At
    <3>2. m.pc = "mark"
      BY <2>0 DEF Memory
    <3>3. wk[w].had \ digested \subseteq reported \cup wk[w].hid
      BY <3>1 DEF ReportInv, Informed
    <3> HIDE DEF m
    <3>4. wk'[w].pc = "mark"
      BY <3>1, <3>2 DEF Become, WorkersOK
    <3>5. wk'[w] # wk[w]
      BY <3>1, <3>4
    <3>6. ReportStep
      BY <3>1, <3>3, <3>5 DEF ReportStep, Passed, At
    <3>7. ReportInv'
      BY <3>1, <3>2, InformedKept DEF Informed, MatchesOK
    <3> QED BY <3>6, <3>7
  <2>12. CASE MarkSuccess(w) \/ Rescheduled(w) \/ Failed(w)
    BY <1>3, <2>12 DEF MarkSuccess, Rescheduled, Failed, matches
  <2> QED BY <1>4, <2>1, <2>2, <2>3, <2>4, <2>5, <2>6, <2>7, <2>8, <2>9, <2>10, <2>11, <2>12
       DEF Loop, Body
<1>5. ASSUME NEW w \in Workers, LoopError(w) \/ Crash(w) PROVE ReportInv' /\ ReportStep
  BY <1>3, <1>5 DEF LoopError, Crash, matches
<1>6. ASSUME NEW w \in Workers, BootFind(w) \/ BootCreate(w) PROVE ReportInv' /\ ReportStep
  BY <1>0, <1>6 DEF BootFind, BootCreate, matches
<1>7. ASSUME NEW n \in Notifies, Enqueue(n) \/ HideJob(n) \/ ShowJob(n)
      PROVE  ReportInv' /\ ReportStep
  BY <1>0, <1>7 DEF Enqueue, HideJob, ShowJob, matches
<1>8. ASSUME NEW d \in Jobs, RunAtPasses(d) \/ LeaseExpires(d) PROVE ReportInv' /\ ReportStep
  BY <1>0, <1>8 DEF RunAtPasses, LeaseExpires, matches
<1>9. CASE UNCHANGED vars
  BY <1>0, <1>9 DEF vars, matches
<1> QED BY <1>4, <1>5, <1>6, <1>7, <1>8, <1>9 DEF Next

(***************************************************************************)
(* However many workers there are, a match is stamped as digested only     *)
(* when a notification to the provider has counted it, when its job was    *)
(* hidden at the count of the digest that stamps it, or when it was        *)
(* recorded after that count: counting, announcing and stamping are three  *)
(* awaits, other digests run between them, and a crash may follow any.     *)
(***************************************************************************)
THEOREM DigestsReportAll == Spec => DigestReportsAll
<1>1. Init => ReportInv
  BY DEF Init, Fresh, ReportInv, Informed
<1>2. TypeInv /\ ReportInv /\ [Next]_vars => [ReportStep]_vars
  BY StampsWhatWasTold
<1>3. TypeInv /\ ReportInv /\ [Next]_vars => ReportInv'
  BY StampsWhatWasTold
<1> QED BY <1>1, <1>2, <1>3, TypeHolds, PTL DEF Spec, DigestReportsAll, ReportStep

----------------------------------------------------------------------------
(* One worker: while it has a job in hand, nobody else claims, schedules   *)
(* or settles anything.                                                    *)
OneWorker == \A v, w \in Workers : v = w

LEMMA OnlyMemory ==
    ASSUME OneWorker, WorkersOK, NEW w \in Workers, NEW m, Become(w, m)
    PROVE  \A v \in Workers : v = w /\ wk'[v] = m
  BY DEF OneWorker, WorkersOK, Become

(* The recurring job.  A row of it that runs, or is about to, is due, so   *)
(* the row due later that its body finds, or creates, is another one: it   *)
(* is there when the running one is marked SUCCESS.                        *)
OtherBodies == {"match", "insert", "digest.find", "digest.create", "digest.write",
                "count", "announce", "stamp"}
Renewed(m) ==
    /\ m.pc = "claim" => \A d \in m.found \cap Recurrents : job[d].runAt = "due"
    /\ m.pc = "mark" /\ m.cur \in Recurrents /\ job[m.cur].status = "PROCESSING" =>
          \E e \in Recurrents : e # m.cur /\ Live(e)
    /\ m.pc \in OtherBodies => m.cur \notin Recurrents

ChainInv == /\ ChainAlive
            /\ \A w \in Workers : Renewed(wk[w])
            /\ \A d \in Recurrents : job[d].status = "PROCESSING" => job[d].runAt = "due"

(* Row d lives on if it lived, lives if it is new, does not start to run,  *)
(* and is not put off while it runs.                                       *)
LivesOn(d) ==
    /\ Live(d) => Live(d)'
    /\ job[d].status = "NONE" => job'[d].status = "NONE" \/ Live(d)'
    /\ job'[d].status = "PROCESSING" => /\ job[d].status = "PROCESSING"
                                        /\ job[d].runAt = "due" => job'[d].runAt = "due"

LEMMA UntouchedLiveOn ==
    ASSUME NEW d \in Jobs, job'[d] = job[d]
    PROVE  LivesOn(d)
  BY DEF LivesOn, Live

LEMMA ChainStays ==
    ASSUME ChainInv, died' = died, wk' = wk, \A d \in Recurrents : LivesOn(d),
           \A w \in Workers : \A d \in wk[w].found \cap Recurrents :
               job[d].runAt = "due" => job'[d].runAt = "due"
    PROVE  ChainInv'
<1>1. ChainAlive'
  BY DEF ChainInv, ChainAlive, LivesOn
<1>2. ASSUME NEW w \in Workers PROVE Renewed(wk[w])'
  BY DEF ChainInv, Renewed, LivesOn
<1> QED BY <1>1, <1>2 DEF ChainInv, LivesOn

LEMMA ChainMoves ==
    ASSUME OneWorker, WorkersOK, ChainInv, died' = died, \A d \in Recurrents : LivesOn(d),
           NEW w \in Workers, NEW m, Become(w, m),
           \/ m.pc \notin OtherBodies \cup {"claim", "mark"}
           \/ m.pc \in OtherBodies \cup {"mark"} /\ m.cur \notin Recurrents
    PROVE  ChainInv'
<1>1. ChainAlive'
  BY DEF ChainInv, ChainAlive, LivesOn
<1>2. ASSUME NEW v \in Workers PROVE Renewed(wk[v])'
  BY OnlyMemory DEF Renewed, OtherBodies
<1> QED BY <1>1, <1>2 DEF ChainInv, LivesOn

(* Rows of the recurring job survive the creation of a row, and those that *)
(* a claim has found are not used for it.                                  *)
LEMMA CreatedLiveOn ==
    ASSUME RowsOK, NEW S \in SUBSET Jobs, Create(S)
    PROVE  /\ \A d \in Jobs : LivesOn(d)
           /\ \A w \in Workers : \A d \in wk[w].found \cap Jobs : job'[d] = job[d]
           /\ \E d \in S : Live(d)' /\ \A w \in Workers : d # wk[w].cur
<1>1. PICK d \in Slots(S) : job' = [job EXCEPT ![d] = NewRow("later")]
  BY DEF Create
<1>2. d \in S /\ d \in Jobs /\ ~Live(d)
  BY <1>1 DEF Slots
<1>3. \A w \in Workers : d \notin wk[w].found /\ d # wk[w].cur
  BY <1>1 DEF Slots
<1>4. job'[d].status = "PENDING" /\ \A e \in Jobs \ {d} : job'[e] = job[e]
  BY <1>1, <1>2 DEF RowsOK, NewRow, NoRow
<1> QED BY <1>2, <1>3, <1>4 DEF LivesOn, Live

(* Every step of the only worker keeps the chain. *)
LEMMA ChainLoop ==
    ASSUME OneWorker, TypeInv, ChainInv, NEW w \in Workers, Loop(w)
    PROVE  ChainInv'
<1> DEFINE cur == wk[w].cur
<1>0. /\ wk[w] \in Memory /\ WellFormed(wk[w], matched) /\ Renewed(wk[w])
      /\ WorkersOK /\ RowsOK
  BY DEF TypeInv, WorkersOK, ChainInv
<1>a. \A d \in Jobs : job[d] \in Row
  BY <1>0 DEF RowsOK
<1>b. job' = job => \A d \in Recurrents : LivesOn(d)
  BY UntouchedLiveOn DEF Jobs
<1>c. ASSUME NEW pc \in PCs, Goto(w, pc), pc # "claim", pc = "mark" => cur \notin Recurrents,
             pc \in OtherBodies => cur \notin Recurrents,
             died' = died, \A d \in Recurrents : LivesOn(d)
      PROVE  ChainInv'
  <2> DEFINE m == [wk[w] EXCEPT !.pc = pc]
  <2>1. Become(w, m) /\ m.pc = pc /\ m.cur = cur
    BY <1>0, <1>c DEF Goto, Memory
  <2> HIDE DEF m
  <2> QED BY <1>0, <1>c, <2>1, ChainMoves
<1>d. ASSUME NEW how, Fails(w, how), died' = died, job' = job PROVE ChainInv'
  <2> DEFINE m == [wk[w] EXCEPT !.pc = "failed", !.how = how, !.seen = None,
                                !.counted = {}, !.had = {}, !.hid = {}]
  <2>1. Become(w, m) /\ m.pc = "failed"
    BY <1>0, <1>d DEF Fails, Memory
  <2> HIDE DEF m
  <2> QED BY <1>0, <1>b, <1>d, <2>1, ChainMoves DEF OtherBodies
<1>e. NextJob(w) => \E m : Become(w, m) /\ m.pc = "next"
  <2> DEFINE m == [Fresh EXCEPT !.pc = "next", !.batch = wk[w].batch,
                      !.tries = [wk[w].tries EXCEPT ![cur] = 0]]
  <2>1. m.pc = "next" /\ (NextJob(w) => Become(w, m))
    BY DEF NextJob, Fresh
  <2> HIDE DEF m
  <2> QED BY <2>1
<1>f. Recurrents \subseteq Jobs /\ \A d \in Recurrents : d \notin Notifies /\ d \notin Digests
  BY JobsAssumption DEF Jobs
<1>g. died \in BOOLEAN /\ died' \in BOOLEAN
  BY RestStep DEF TypeInv, RestOK, Next
<1>h. ASSUME Failed(w)
      PROVE  LET dead == /\ cur \in Recurrents
                         /\ Owns(w, cur)
                         /\ Exhausted(wk[w].tries[cur] + 1, cur)
             IN  (dead => died') /\ (~dead => died' = died)
  <2> DEFINE dead == cur \in Recurrents /\ Owns(w, cur) /\ Exhausted(wk[w].tries[cur] + 1, cur)
  <2>1. died' <=> died \/ dead
    BY <1>h DEF Failed
  <2> HIDE DEF dead
  <2>2. (dead => died') /\ (~dead => died' = died)
    BY <1>g, <2>1
  <2> QED BY <2>2 DEF dead
<1>1. CASE ReleaseStaleLeases(w)
  <2>1. \A d \in Recurrents : LivesOn(d)
    BY <1>1, <1>a, <1>f DEF ReleaseStaleLeases, LivesOn, Live, Row
  <2> QED BY <1>1, <1>c, <2>1 DEF ReleaseStaleLeases, PCs, OtherBodies
<1>2. CASE ClaimFind(w)
  <2> DEFINE found == {d \in Jobs : job[d].status = "PENDING" /\ job[d].runAt = "due"}
  <2>1. job' = job /\ died' = died
    BY <1>2 DEF ClaimFind
  <2>2. CASE found = {}
    BY <1>2, <1>b, <1>c, <2>1, <2>2 DEF ClaimFind, PCs, OtherBodies
  <2>3. CASE found # {}
    <3> DEFINE m == [wk[w] EXCEPT !.pc = "claim", !.found = found]
    <3>1. Become(w, m)
      BY <1>2, <2>3 DEF ClaimFind
    <3>2. m.pc = "claim" /\ m.found = found
      BY <1>0 DEF Memory
    <3> HIDE DEF m
    <3>3. ASSUME NEW v \in Workers PROVE Renewed(wk[v])'
      BY <1>0, <2>1, <3>1, <3>2, OnlyMemory DEF Renewed, OtherBodies
    <3> QED BY <2>1, <3>3 DEF ChainInv, ChainAlive, Live
  <2> QED BY <2>2, <2>3
<1>3. CASE ClaimCommit(w)
  <2>1. ASSUME NEW d \in Recurrents
        PROVE  /\ Live(d) <=> Live(d)'
               /\ job'[d].status = "NONE" <=> job[d].status = "NONE"
               /\ job'[d].status = "PROCESSING" => job'[d].runAt = "due"
    <3>1. job'[d] = IF d \in wk[w].found /\ job[d].status = "PENDING"
                      THEN ClaimedRow(job[d], w) ELSE job[d]
      BY <1>3, <1>f DEF ClaimCommit
    <3>2. CASE job'[d] = job[d]
      BY <3>2 DEF Live, ChainInv
    <3>3. CASE /\ d \in wk[w].found /\ job[d].status = "PENDING"
               /\ job'[d] = ClaimedRow(job[d], w)
      <4>1. job'[d].status = "PROCESSING" /\ job'[d].runAt = job[d].runAt
        BY <1>a, <1>f, <3>3 DEF ClaimedRow, Row
      <4>2. job[d].runAt = "due"
        BY <1>0, <1>3, <3>3 DEF ClaimCommit, At, Renewed
      <4> QED BY <3>3, <4>1, <4>2 DEF Live
    <3> QED BY <3>1, <3>2, <3>3
  <2>2. PICK batch, tries : wk' = [wk EXCEPT ![w] =
            [Fresh EXCEPT !.pc = "next", !.batch = batch, !.tries = tries]]
    BY <1>3 DEF ClaimCommit, Become
  <2> DEFINE m == [Fresh EXCEPT !.pc = "next", !.batch = batch, !.tries = tries]
  <2>3. Become(w, m) /\ m.pc = "next"
    BY <2>2 DEF Become, Fresh
  <2> HIDE DEF m
  <2>4. ASSUME NEW v \in Workers PROVE Renewed(wk[v])'
    BY <1>0, <2>3, OnlyMemory DEF Renewed, OtherBodies
  <2>5. ChainAlive'
    BY <1>3, <2>1 DEF ClaimCommit, ChainInv, ChainAlive
  <2> QED BY <2>1, <2>4, <2>5 DEF ChainInv
<1>4. CASE BatchDone(w)
  BY <1>0, <1>4, <1>b, ChainMoves DEF BatchDone, Fresh, OtherBodies
<1>5. ASSUME NEW d \in Jobs, ProcessOne(w, d) PROVE ChainInv'
  <2>1. PICK pc \in {"match", "count", "ensure"} :
            /\ pc # "ensure" => d \notin Recurrents
            /\ Become(w, [wk[w] EXCEPT !.batch = @ \ {d}, !.cur = d, !.pc = pc])
    BY <1>5, <1>f DEF ProcessOne
  <2> DEFINE m == [wk[w] EXCEPT !.batch = @ \ {d}, !.cur = d, !.pc = pc]
  <2>2. Become(w, m) /\ m.pc = pc /\ m.cur = d
    BY <1>0, <2>1 DEF Memory
  <2> HIDE DEF m
  <2> QED BY <1>0, <1>5, <1>b, <2>1, <2>2, ChainMoves DEF ProcessOne, OtherBodies
<1>6. CASE EnsureFind(w)
  <2>1. job' = job /\ died' = died
    BY <1>6 DEF EnsureFind
  <2>2. CASE \E e \in Recurrents : Scheduled(e)
    <3> DEFINE m == [wk[w] EXCEPT !.pc = "mark"]
    <3>1. Become(w, m) /\ m.pc = "mark" /\ m.cur = cur
      BY <1>0, <1>6, <2>2 DEF EnsureFind, Goto, Memory
    <3>2. PICK e \in Recurrents : Live(e) /\ job[e].runAt = "later"
      BY <2>2 DEF Scheduled
    <3>3. cur \in Recurrents /\ job[cur].status = "PROCESSING" => e # cur
      BY <3>2 DEF ChainInv
    <3> HIDE DEF m
    <3>4. ASSUME NEW v \in Workers PROVE Renewed(wk[v])'
      BY <1>0, <2>1, <3>1, <3>2, <3>3, OnlyMemory DEF Renewed, Live, OtherBodies
    <3> QED BY <2>1, <3>4 DEF ChainInv, ChainAlive, Live
  <2>3. CASE ~\E e \in Recurrents : Scheduled(e)
    BY <1>6, <1>b, <1>c, <2>1, <2>3 DEF EnsureFind, PCs, OtherBodies
  <2> QED BY <2>2, <2>3
<1>7. CASE EnsureCreate(w)
  <2> DEFINE m == [wk[w] EXCEPT !.pc = "mark"]
  <2>1. Become(w, m) /\ m.pc = "mark" /\ m.cur = cur /\ died' = died
    BY <1>0, <1>7 DEF EnsureCreate, Goto, Memory
  <2>2. /\ \A d \in Recurrents : LivesOn(d)
        /\ \E e \in Recurrents : Live(e)' /\ e # cur
    BY <1>0, <1>7, <1>f, CreatedLiveOn DEF EnsureCreate
  <2> HIDE DEF m
  <2>3. ASSUME NEW v \in Workers PROVE Renewed(wk[v])'
    BY <1>0, <2>1, <2>2, OnlyMemory DEF Renewed, OtherBodies
  <2>4. ChainAlive'
    BY <2>2 DEF ChainAlive
  <2> QED BY <2>2, <2>3, <2>4 DEF ChainInv, LivesOn
<1>8. CASE MatchRead(w) \/ MatchCommit(w) \/ DigestFind(w) \/ DigestCreate(w) \/ DigestWrite(w)
              \/ DigestCount(w) \/ DigestAnnounce(w) \/ DigestStamp(w)
  <2>1. wk[w].pc \in OtherBodies /\ died' = died
    BY <1>8 DEF MatchRead, MatchCommit, DigestFind, DigestCreate, DigestWrite, DigestCount,
                DigestAnnounce, DigestStamp, At, OtherBodies
  <2>2. cur \notin Recurrents
    BY <1>0, <2>1 DEF Renewed
  <2>3. \A d \in Recurrents : LivesOn(d)
    <3>1. CASE job' = job
      BY <1>b, <3>1
    <3>2. CASE DigestCreate(w)
      BY <1>0, <1>f, <3>2, CreatedLiveOn DEF DigestCreate, Jobs
    <3>3. CASE DigestWrite(w)
      <4>1. \A d \in Recurrents : job'[d] = job[d]
        BY <1>0, <1>f, <3>3 DEF DigestWrite, At, WellFormed, RowsOK
      <4> QED BY <1>f, <4>1, UntouchedLiveOn
    <3> QED BY <1>8, <3>1, <3>2, <3>3 DEF MatchRead, MatchCommit, DigestFind, DigestCount,
                DigestAnnounce, DigestStamp
  <2>4. PICK pc, seen, counted, had, hid :
            /\ pc \in OtherBodies \cup {"mark"}
            /\ \/ Goto(w, pc)
               \/ Become(w, [wk[w] EXCEPT !.pc = pc, !.seen = seen])
               \/ Become(w, [wk[w] EXCEPT !.pc = pc, !.counted = counted])
               \/ Become(w, [wk[w] EXCEPT !.pc = pc, !.counted = counted,
                                          !.had = had, !.hid = hid])
               \/ Become(w, [wk[w] EXCEPT !.pc = pc, !.had = had, !.hid = hid])
    BY <1>8 DEF MatchRead, MatchCommit, DigestFind, DigestCreate, DigestWrite, DigestCount,
                DigestAnnounce, DigestStamp, DigestOrder, OtherBodies
  <2>5. \A s \in {[wk[w] EXCEPT !.pc = pc], [wk[w] EXCEPT !.pc = pc, !.seen = seen],
                  [wk[w] EXCEPT !.pc = pc, !.counted = counted],
                  [wk[w] EXCEPT !.pc = pc, !.counted = counted, !.had = had, !.hid = hid],
                  [wk[w] EXCEPT !.pc = pc, !.had = had, !.hid = hid]} :
            s.pc = pc /\ s.cur = cur
    BY <1>0 DEF Memory
  <2>6. \E s : Become(w, s) /\ s.pc = pc /\ s.cur = cur
    BY <2>4, <2>5 DEF Goto
  <2> QED BY <1>0, <2>1, <2>2, <2>3, <2>4, <2>6, ChainMoves
<1>9. CASE DigestPostponed(w) \/ JobFails(w)
  BY <1>9, <1>d DEF DigestPostponed, JobFails
<1>10. CASE MarkSuccess(w) \/ Rescheduled(w) \/ Failed(w)
  <2>1. cur \in Jobs /\ wk[w].pc \in {"mark", "failed"}
    BY <1>0, <1>10, InHand DEF MarkSuccess, Rescheduled, Failed, At, Idle
  <2>2. \A d \in Jobs \ {cur} : job'[d] = job[d] /\ LivesOn(d)
    BY <1>0, <1>10, <2>1, UntouchedLiveOn
       DEF MarkSuccess, Rescheduled, Failed, Settle, RowsOK
  <2>3. PICK m : Become(w, m) /\ m.pc = "next"
    BY <1>10, <1>e DEF MarkSuccess, Rescheduled, Failed
  <2>4. CASE cur \notin Recurrents
    <3>1. died' = died
      BY <1>10, <1>h, <2>4 DEF MarkSuccess, Rescheduled
    <3> QED BY <1>0, <1>f, <2>2, <2>3, <2>4, <3>1, ChainMoves DEF OtherBodies
  <2>5. CASE cur \in Recurrents /\ job' = job
    <3>1. ~(Failed(w) /\ Owns(w, cur))
      <4>1. Failed(w) /\ Owns(w, cur) => job'[cur].status \in {"DEAD", "PENDING"}
        BY <1>0, <2>1 DEF Failed, Settle, RowsOK
      <4> QED BY <2>5, <4>1 DEF Owns
    <3>2. died' = died
      BY <1>10, <1>h, <3>1 DEF MarkSuccess, Rescheduled
    <3> QED BY <1>0, <1>b, <2>3, <2>5, <3>2, ChainMoves DEF OtherBodies
  <2>6. CASE cur \in Recurrents /\ job' # job
    <3>1. job[cur].status = "PROCESSING"
      BY <1>10, <2>6 DEF MarkSuccess, Rescheduled, Failed, Owns
    <3>2. \/ job'[cur].status = "PENDING"
          \/ job'[cur].status = "DEAD" /\ died'
          \/ job'[cur].status = "SUCCESS" /\ wk[w].pc = "mark"
      <4>1. CASE MarkSuccess(w)
        BY <1>0, <2>1, <2>6, <4>1 DEF MarkSuccess, Settle, RowsOK, At
      <4>2. CASE Rescheduled(w)
        BY <1>0, <2>1, <2>6, <4>2 DEF Rescheduled, Settle, RowsOK
      <4>3. CASE Failed(w)
        <5>1. Owns(w, cur)
          BY <2>6, <4>3 DEF Failed
        <5>2. CASE Exhausted(wk[w].tries[cur] + 1, cur)
          BY <1>0, <1>h, <2>1, <2>6, <4>3, <5>1, <5>2 DEF Failed, Settle, RowsOK
        <5>3. CASE ~Exhausted(wk[w].tries[cur] + 1, cur)
          BY <1>0, <2>1, <2>6, <4>3, <5>1, <5>3 DEF Failed, Settle, RowsOK
        <5> QED BY <5>2, <5>3
      <4> QED BY <1>10, <4>1, <4>2, <4>3
    <3>3. \A d \in Recurrents : job'[d].status = "PROCESSING" => job'[d].runAt = "due"
      BY <1>f, <2>2, <3>2 DEF ChainInv
    <3>4. ASSUME NEW v \in Workers PROVE Renewed(wk[v])'
      BY <1>0, <2>3, OnlyMemory DEF Renewed, OtherBodies
    <3>5. ~died' => \E d \in Recurrents : Live(d)'
      <4>1. CASE job'[cur].status = "PENDING"
        BY <2>6, <4>1 DEF Live
      <4>2. CASE job'[cur].status = "SUCCESS" /\ wk[w].pc = "mark"
        BY <1>0, <1>f, <2>2, <2>6, <3>1, <4>2 DEF Renewed, LivesOn
      <4> QED BY <3>2, <4>1, <4>2
    <3> QED BY <3>3, <3>4, <3>5 DEF ChainInv, ChainAlive
  <2> QED BY <2>4, <2>5, <2>6
<1> QED BY <1>1, <1>2, <1>3, <1>4, <1>5, <1>6, <1>7, <1>8, <1>9, <1>10 DEF Loop, Body

LEMMA ChainStep == OneWorker /\ TypeInv /\ ChainInv /\ [Next]_vars => ChainInv'
<1> SUFFICES ASSUME OneWorker, TypeInv, ChainInv, [Next]_vars PROVE ChainInv'
  OBVIOUS
<1>0. WorkersOK /\ RowsOK /\ Recurrents \subseteq Jobs
  BY DEF TypeInv, Jobs
<1>a. job' = job /\ wk' = wk /\ died' = died => ChainInv'
  BY <1>0, UntouchedLiveOn, ChainStays
<1>1. ASSUME NEW w \in Workers, Loop(w) PROVE ChainInv'
  BY <1>1, ChainLoop
<1>2. ASSUME NEW w \in Workers, BootFind(w) PROVE ChainInv'
  BY <1>2, <1>a DEF BootFind
<1>3. ASSUME NEW w \in Workers, BootCreate(w) PROVE ChainInv'
  <2>1. /\ \A d \in Recurrents : LivesOn(d)
        /\ \A v \in Workers : \A d \in wk[v].found \cap Recurrents : job'[d] = job[d]
    BY <1>0, <1>3, CreatedLiveOn DEF BootCreate
  <2> QED BY <1>3, <2>1, ChainStays DEF BootCreate
<1>4. ASSUME NEW w \in Workers, LoopError(w) \/ Crash(w) PROVE ChainInv'
  <2>1. Become(w, Fresh) /\ job' = job /\ died' = died
    BY <1>4 DEF LoopError, Crash
  <2> QED BY <1>0, <2>1, UntouchedLiveOn, ChainMoves DEF Fresh, OtherBodies
<1>5. ASSUME NEW n \in Notifies, Enqueue(n) PROVE ChainInv'
  <2>1. \A d \in Recurrents : job'[d] = job[d]
    BY <1>0, <1>5, JobsAssumption DEF Enqueue, RowsOK
  <2> QED BY <1>0, <1>5, <2>1, UntouchedLiveOn, ChainStays DEF Enqueue
<1>6. ASSUME NEW d \in Jobs, RunAtPasses(d) \/ LeaseExpires(d) PROVE ChainInv'
  <2>1. \A e \in Jobs : /\ job'[e].status = job[e].status
                        /\ job[e].runAt = "due" => job'[e].runAt = "due"
    BY <1>0, <1>6 DEF RunAtPasses, LeaseExpires, RowsOK, Row
  <2>2. \A e \in Recurrents : LivesOn(e)
    BY <1>0, <2>1 DEF LivesOn, Live
  <2> QED BY <1>0, <1>6, <2>1, <2>2, ChainStays DEF RunAtPasses, LeaseExpires
<1>7. CASE UNCHANGED vars
  BY <1>7, <1>a DEF vars
<1>8. ASSUME NEW n \in Notifies, HideJob(n) \/ ShowJob(n) PROVE ChainInv'
  BY <1>8, <1>a DEF HideJob, ShowJob
<1> QED BY <1>1, <1>2, <1>3, <1>4, <1>5, <1>6, <1>7, <1>8 DEF Next

(***************************************************************************)
(* With one worker the recurring job renews itself for ever: through       *)
(* crashes, late locks and the scheduling that runs beside the loop at     *)
(* start, some row of it is waiting or running, unless one was             *)
(* dead-lettered.                                                          *)
(***************************************************************************)
THEOREM ChainsStayAlive == ASSUME OneWorker PROVE Spec => []ChainAlive
<1>1. Init => ChainInv
  <2> SUFFICES ASSUME Init PROVE ChainInv
    OBVIOUS
  <2>1. \A d \in Recurrents : job[d].status = "NONE"
    BY DEF Init, NoRow, Jobs
  <2>2. \A w \in Workers : wk[w].pc = "release"
    BY DEF Init, Fresh
  <2> QED BY <2>1, <2>2 DEF ChainInv, ChainAlive, Renewed, OtherBodies
<1>2. ChainInv => ChainAlive
  BY DEF ChainInv
<1> QED BY <1>1, <1>2, TypeHolds, ChainStep, PTL DEF Spec
=============================================================================
