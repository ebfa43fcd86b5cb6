----------------------- MODULE WebhookDelivery_proofs -----------------------
(* Proofs about WebhookDelivery, for any number of deliveries and workers. *)
EXTENDS WebhookDelivery, FiniteSetTheorems, TLAPS

(* What a worker has in memory, when rows are the deliveries and as the    *)
(* acknowledged ones: a count of attempts that the row has not lost since, *)
(* and an ok answer only of an endpoint that has given one.                *)
WellFormed(m, rows, as) ==
    /\ m \in Memory
    /\ m.cur = None <=> m.pc \in Idle
    /\ \A d \in m.batch \cup ({m.cur} \ {None}) : m.tries[d] <= rows[d].attempts
    /\ m.pc = "answered" /\ m.outcome = "ok" => m.cur \in as

WorkersOK == /\ wk \in [Workers -> Memory]
             /\ \A w \in Workers : WellFormed(wk[w], delivery, acked)
RowsOK == delivery \in [Deliveries -> Row]
RestOK == /\ enabled \in BOOLEAN
          /\ acked \in SUBSET Deliveries
          /\ posts \in [Workers -> [Deliveries -> Nat]]
          /\ failures \in 0..MaxFailures
          /\ retries \in 0..MaxRetries

Inv == WorkersOK /\ RowsOK /\ RestOK /\ SuccessIsAcked /\ DeadIsExhausted

(* What the handlers may do to the rows and to the acknowledgements: a row *)
(* loses no attempts, becomes SUCCESS only once acknowledged and DEAD only *)
(* once its attempts are used up, and no acknowledgement is forgotten.     *)
Advances ==
    /\ RowsOK'
    /\ acked \subseteq acked'
    /\ \A d \in Deliveries :
          /\ delivery[d].attempts <= delivery'[d].attempts
          /\ delivery'[d].status = "SUCCESS" => d \in acked' \/ delivery[d].status = "SUCCESS"
          /\ delivery'[d].status = "DEAD" => \/ delivery'[d].attempts >= MaxAttempts
                                             \/ delivery[d].status = "DEAD"

(* Rows and acknowledgements that advance keep what the rows claim. *)
LEMMA ClaimsKept ==
    ASSUME Inv, Advances
    PROVE  SuccessIsAcked' /\ DeadIsExhausted'
<1>1. \A d \in Deliveries : delivery[d].attempts \in Nat /\ delivery'[d].attempts \in Nat
  BY DEF Inv, Advances, RowsOK, Row
<1>2. SuccessIsAcked'
  BY DEF Inv, Advances, SuccessIsAcked
<1>3. DeadIsExhausted'
  BY <1>1, DeliveryAssumption DEF Inv, Advances, DeadIsExhausted
<1> QED BY <1>2, <1>3

(* A memory stays well formed while the rows advance. *)
LEMMA MemoryKept ==
    ASSUME Inv, Advances, NEW m, WellFormed(m, delivery, acked)
    PROVE  WellFormed(m, delivery', acked')
<1>1. ASSUME NEW d \in m.batch \cup ({m.cur} \ {None})
      PROVE  m.tries[d] <= delivery'[d].attempts
  <2>1. d \in Deliveries /\ m.tries[d] \in Nat
    BY DEF WellFormed, Memory
  <2>2. delivery[d].attempts \in Nat /\ delivery'[d].attempts \in Nat
    BY <2>1 DEF Inv, RowsOK, Row, Advances
  <2>3. m.tries[d] <= delivery[d].attempts /\ delivery[d].attempts <= delivery'[d].attempts
    BY <2>1 DEF WellFormed, Advances
  <2> QED BY <2>1, <2>2, <2>3
<1> QED BY <1>1 DEF WellFormed, Advances

(* A worker that moves to a well-formed memory while the rows advance      *)
(* keeps the invariant.                                                    *)
LEMMA WorkerMoves ==
    ASSUME Inv, Advances, RestOK', NEW w \in Workers, NEW m,
           WellFormed(m, delivery', acked'), wk' = [wk EXCEPT ![w] = m]
    PROVE  Inv'
<1>1. wk' \in [Workers -> Memory]
  BY DEF Inv, WorkersOK, WellFormed
<1>2. ASSUME NEW v \in Workers PROVE WellFormed(wk'[v], delivery', acked')
  <2>1. CASE v = w
    BY <2>1 DEF Inv, WorkersOK
  <2>2. CASE v # w
    BY <2>2, MemoryKept DEF Inv, WorkersOK
  <2> QED BY <2>1, <2>2
<1> QED BY <1>1, <1>2, ClaimsKept DEF Inv, WorkersOK, Advances

(* So does a step that changes no memory. *)
LEMMA WorkersStay ==
    ASSUME Inv, Advances, RestOK', wk' = wk
    PROVE  Inv'
  BY MemoryKept, ClaimsKept DEF Inv, WorkersOK, Advances

(* Rows and acknowledgements that do not change advance. *)
LEMMA Unchanged ==
    ASSUME Inv, delivery' = delivery, acked' = acked
    PROVE  Advances
<1>1. \A d \in Deliveries : delivery[d].attempts \in Nat
  BY DEF Inv, RowsOK, Row
<1> QED BY <1>1 DEF Inv, Advances, RowsOK

(* Writing one row, other than to SUCCESS or DEAD without grounds, is an   *)
(* advance.                                                                *)
LEMMA RowWritten ==
    ASSUME Inv, NEW d \in Deliveries, NEW s \in Statuses,
           NEW n \in {"null", "due", "later"}, SetRow(d, s, n), acked' = acked,
           s = "SUCCESS" => d \in acked,
           s = "DEAD" => delivery[d].attempts >= MaxAttempts
    PROVE  Advances
<1>1. \A e \in Deliveries : delivery[e] \in Row /\ delivery[e].attempts \in Nat
  BY DEF Inv, RowsOK, Row
<1>2. delivery' = [delivery EXCEPT ![d] = [delivery[d] EXCEPT !.status = s, !.next = n]]
  BY <1>1 DEF SetRow, Inv, RowsOK
<1>3. [delivery[d] EXCEPT !.status = s, !.next = n] \in Row
  BY <1>1 DEF Row
<1>4. RowsOK'
  BY <1>2, <1>3 DEF Inv, RowsOK
<1>5. ASSUME NEW e \in Deliveries
      PROVE  /\ delivery'[e].attempts = delivery[e].attempts
             /\ e # d => delivery'[e] = delivery[e]
             /\ e = d => delivery'[e].status = s
  BY <1>1, <1>2 DEF Row, Inv, RowsOK
<1> QED BY <1>1, <1>4, <1>5 DEF Advances

(* The memory of a worker that starts over is well formed. *)
LEMMA FreshMemory == WellFormed(Fresh, delivery, acked)
  BY DeliveryAssumption DEF Fresh, Memory, Idle, WellFormed, PCs, Outcomes

(* So is that of a worker that is not started. *)
LEMMA OffMemory == WellFormed(Off, delivery, acked)
  BY DeliveryAssumption DEF Off, Fresh, Memory, Idle, WellFormed, PCs, Outcomes

(* So is that of a worker that only goes to another await of the same kind. *)
LEMMA WorkerGoes ==
    ASSUME Inv, Advances, RestOK', NEW w \in Workers, NEW pc \in PCs, Goto(w, pc),
           pc \in Idle <=> wk[w].pc \in Idle, pc # "answered"
    PROVE  Inv'
<1> DEFINE m == [wk[w] EXCEPT !.pc = pc]
<1>1. WellFormed(m, delivery, acked)
  BY DEF Inv, WorkersOK, WellFormed, Memory
<1>2. wk' = [wk EXCEPT ![w] = m]
  BY DEF Goto, Become
<1> HIDE DEF m
<1> QED BY <1>1, <1>2, MemoryKept, WorkerMoves

(* So is that of a worker that is done with a row. *)
LEMMA RowDone ==
    ASSUME Inv, Advances, RestOK', NEW w \in Workers, NextDelivery(w)
    PROVE  Inv'
<1> DEFINE m == [wk[w] EXCEPT !.pc = "next", !.cur = None]
<1>1. WellFormed(m, delivery, acked)
  BY DeliveryAssumption DEF Inv, WorkersOK, WellFormed, Memory, Idle, PCs
<1>2. wk' = [wk EXCEPT ![w] = m]
  BY DEF NextDelivery, Become
<1> HIDE DEF m
<1> QED BY <1>1, <1>2, MemoryKept, WorkerMoves

(* Every step of a running worker keeps the invariant. *)
LEMMA WorkStep == ASSUME Inv, NEW w \in Workers, Work(w) PROVE Inv'
<1> DEFINE cur == wk[w].cur
<1>0. wk[w] \in Memory /\ WellFormed(wk[w], delivery, acked) /\ RestOK /\ RowsOK
  BY DEF Inv, WorkersOK
<1>1. \A d \in Deliveries : delivery[d] \in Row /\ delivery[d].attempts \in Nat
  BY <1>0 DEF RowsOK, Row
<1>2. CASE RequeueStaleProcessing(w)
  <2>1. \A d \in Deliveries : /\ delivery'[d] \in Row
                              /\ delivery'[d].attempts = delivery[d].attempts
                              /\ delivery'[d].status \in {delivery[d].status, "PENDING"}
    BY <1>1, <1>2 DEF RequeueStaleProcessing, Row, Statuses
  <2>2. RowsOK'
    BY <1>2, <2>1 DEF RowsOK, RequeueStaleProcessing
  <2>3. Advances
    BY <1>1, <1>2, <2>1, <2>2 DEF Advances, RequeueStaleProcessing
  <2>4. RestOK'
    BY <1>0, <1>2 DEF RequeueStaleProcessing, RestOK
  <2> QED BY <1>2, <2>3, <2>4, WorkerGoes DEF RequeueStaleProcessing, At, Idle, PCs
<1>3. CASE ClaimFind(w)
  <2>1. Advances
    BY <1>3, Unchanged DEF ClaimFind
  <2>2. RestOK'
    BY <1>0, <1>3 DEF ClaimFind, RestOK
  <2>3. CASE Candidates = {}
    BY <1>3, <2>1, <2>2, <2>3, WorkerGoes DEF ClaimFind, At, Idle, PCs
  <2>4. CASE Candidates # {}
    <3> DEFINE m == [wk[w] EXCEPT !.pc = "claim", !.found = Candidates]
    <3>1. Candidates \subseteq Deliveries
      BY DEF Candidates
    <3>2. wk[w].pc = "find"
      BY <1>3 DEF ClaimFind, At
    <3>3. WellFormed(m, delivery, acked)
      BY <1>0, <3>1, <3>2 DEF WellFormed, Memory, Idle, PCs
    <3>4. wk' = [wk EXCEPT ![w] = m]
      BY <1>3, <2>4 DEF ClaimFind, Become
    <3> HIDE DEF m
    <3> QED BY <2>1, <2>2, <3>3, <3>4, MemoryKept, WorkerMoves
  <2> QED BY <2>3, <2>4
<1>4. CASE ClaimCommit(w)
  <2> DEFINE batch == {d \in wk[w].found : delivery'[d].status = "PROCESSING"}
             tries == [d \in Deliveries |-> delivery'[d].attempts]
             m == [Fresh EXCEPT !.pc = "next", !.batch = batch, !.tries = tries,
                                !.live = enabled]
  <2>1. \A d \in Deliveries : \/ delivery'[d] = delivery[d]
                              \/ delivery'[d] = ClaimedRow(delivery[d])
    BY <1>4 DEF ClaimCommit
  <2>2. ASSUME NEW d \in Deliveries
        PROVE  /\ delivery'[d] \in Row
               /\ delivery'[d].attempts \in Nat
               /\ delivery[d].attempts <= delivery'[d].attempts
               /\ delivery'[d] = delivery[d] \/ delivery'[d].status = "PROCESSING"
    <3>1. CASE delivery'[d] = delivery[d]
      BY <1>1, <3>1
    <3>2. CASE delivery'[d] = ClaimedRow(delivery[d])
      BY <1>1, <3>2 DEF ClaimedRow, Row, Statuses
    <3> QED BY <2>1, <3>1, <3>2
  <2>3. RowsOK' /\ acked' = acked
    BY <1>4, <2>2 DEF RowsOK, ClaimCommit
  <2>4. Advances
    BY <2>2, <2>3 DEF Advances
  <2>5. RestOK'
    BY <1>0, <1>4 DEF ClaimCommit, RestOK
  <2>6. wk' = [wk EXCEPT ![w] = m]
    BY <1>4 DEF ClaimCommit, Become, TriesOf
  <2>7. batch \subseteq Deliveries /\ tries \in [Deliveries -> Nat] /\ enabled \in BOOLEAN
    BY <1>0, <2>2 DEF Memory, RestOK
  <2>8. \A d \in batch : tries[d] <= delivery'[d].attempts
    BY <2>2, <2>7
  <2> HIDE DEF batch, tries
  <2>9. WellFormed(m, delivery', acked')
    <3>1. m \in Memory /\ m.cur = None /\ m.pc = "next" /\ m.batch = batch /\ m.tries = tries
      BY <2>7 DEF Fresh, Memory, PCs, Outcomes
    <3> HIDE DEF m
    <3> QED BY <2>8, <3>1 DEF WellFormed, Idle
  <2> HIDE DEF m
  <2> QED BY <2>4, <2>5, <2>6, <2>9, WorkerMoves
<1>5. CASE BatchDone(w)
  <2>1. Advances
    BY <1>5, Unchanged DEF BatchDone
  <2>2. RestOK'
    BY <1>0, <1>5 DEF BatchDone, RestOK
  <2> QED BY <1>5, <2>1, <2>2, FreshMemory, MemoryKept, WorkerMoves DEF BatchDone, Become
<1>6. ASSUME NEW d \in Deliveries, SkipDisabled(w, d) PROVE Inv'
  <2> DEFINE m == [wk[w] EXCEPT !.batch = wk[w].batch \ {d}]
  <2>1. Advances
    BY <1>6, RowWritten DEF SkipDisabled, Statuses
  <2>2. RestOK'
    BY <1>0, <1>6 DEF SkipDisabled, RestOK
  <2>3. WellFormed(m, delivery, acked)
    BY <1>0 DEF WellFormed, Memory
  <2>4. wk' = [wk EXCEPT ![w] = m]
    BY <1>6 DEF SkipDisabled, Become
  <2> HIDE DEF m
  <2> QED BY <2>1, <2>2, <2>3, <2>4, MemoryKept, WorkerMoves
<1>7. ASSUME NEW d \in Deliveries, StartAttempt(w, d) PROVE Inv'
  <2> DEFINE m == [wk[w] EXCEPT !.pc = "post", !.batch = wk[w].batch \ {d}, !.cur = d]
  <2>1. Advances
    BY <1>7, Unchanged DEF StartAttempt
  <2>2. RestOK'
    BY <1>0, <1>7 DEF StartAttempt, RestOK
  <2>3. d \in wk[w].batch
    BY <1>7 DEF StartAttempt
  <2>4. WellFormed(m, delivery, acked)
    BY <1>0, <2>3, DeliveryAssumption DEF WellFormed, Memory, Idle, PCs
  <2>5. wk' = [wk EXCEPT ![w] = m]
    BY <1>7 DEF StartAttempt, Become
  <2> HIDE DEF m
  <2> QED BY <2>1, <2>2, <2>4, <2>5, MemoryKept, WorkerMoves
<1>8. ASSUME NEW outcome \in Outcomes, NEW pc \in {"answered", "caught"}, Post(w, outcome, pc)
      PROVE  Inv'
  <2> DEFINE m == [wk[w] EXCEPT !.pc = pc, !.outcome = outcome]
  <2>1. cur \in Deliveries /\ wk[w].pc = "post"
    BY <1>0, <1>8 DEF Post, At, WellFormed, Memory, Idle
  <2>2. Advances
    BY <1>0, <1>1, <1>8 DEF Post, Advances, RowsOK
  <2>3. RestOK'
    BY <1>0, <1>8, <2>1 DEF Post, RestOK
  <2>4. outcome = "ok" => cur \in acked'
    BY <1>8 DEF Post
  <2>5. m \in Memory /\ m.cur = cur /\ m.batch = wk[w].batch /\ m.tries = wk[w].tries
          /\ m.pc = pc /\ m.outcome = outcome
    BY <1>0 DEF Memory, PCs
  <2>6. delivery' = delivery /\ wk' = [wk EXCEPT ![w] = m]
    BY <1>8 DEF Post, Become
  <2> HIDE DEF m
  <2>7. WellFormed(m, delivery', acked')
    BY <1>0, <2>1, <2>4, <2>5, <2>6 DEF WellFormed, Idle
  <2> QED BY <2>2, <2>3, <2>6, <2>7, WorkerMoves
<1>9. CASE RecordSuccess(w)
  <2>1. cur \in Deliveries /\ wk[w].pc = "answered" /\ cur \in acked
    BY <1>0, <1>9 DEF RecordSuccess, ResultOk, At, WellFormed, Memory, Idle
  <2>2. Advances
    BY <1>9, <2>1, RowWritten DEF RecordSuccess, Statuses
  <2>3. RestOK'
    BY <1>0, <1>9 DEF RecordSuccess, RestOK
  <2> QED BY <1>9, <2>1, <2>2, <2>3, WorkerGoes DEF RecordSuccess, Idle, PCs
<1>10. CASE FinishAttempt(w)
  <2>1. Advances
    BY <1>10, Unchanged DEF FinishAttempt
  <2>2. RestOK'
    BY <1>0, <1>10 DEF FinishAttempt, RestOK
  <2> QED BY <1>10, <2>1, <2>2, RowDone DEF FinishAttempt
<1>11. CASE FailPermanent(w)
  <2>1. cur \in Deliveries
    BY <1>0, <1>11 DEF FailPermanent, WellFormed, Memory, Idle
  <2>2. Advances
    BY <1>11, <2>1, RowWritten DEF FailPermanent, Statuses
  <2>3. RestOK'
    BY <1>0, <1>11 DEF FailPermanent, RestOK
  <2> QED BY <1>11, <2>2, <2>3, RowDone DEF FailPermanent
<1>12. CASE FailAndReschedule(w)
  <2>1. cur \in Deliveries
    BY <1>0, <1>12 DEF FailAndReschedule, WellFormed, Memory, Idle
  <2>2. wk[w].tries[cur] \in Nat /\ wk[w].tries[cur] <= delivery[cur].attempts
    BY <1>0, <2>1, DeliveryAssumption DEF WellFormed, Memory
  <2>3. Exhausted(wk[w].tries[cur]) => delivery[cur].attempts >= MaxAttempts
    BY <1>1, <2>1, <2>2, DeliveryAssumption DEF Exhausted
  <2>4. acked' = acked
    BY <1>12 DEF FailAndReschedule
  <2>5. \/ delivery' = delivery
        \/ Exhausted(wk[w].tries[cur]) /\ SetRow(cur, "DEAD", "null")
        \/ \E next \in {"due", "later"} : SetRow(cur, "PENDING", next)
    BY <1>12 DEF FailAndReschedule
  <2>6. Advances
    <3>1. CASE delivery' = delivery
      BY <2>4, <3>1, Unchanged
    <3>2. CASE Exhausted(wk[w].tries[cur]) /\ SetRow(cur, "DEAD", "null")
      BY <2>1, <2>3, <2>4, <3>2, RowWritten DEF Statuses
    <3>3. ASSUME NEW next \in {"due", "later"}, SetRow(cur, "PENDING", next)
          PROVE  Advances
      BY <2>1, <2>4, <3>3, RowWritten DEF Statuses
    <3> QED BY <2>5, <3>1, <3>2, <3>3
  <2>7. RestOK'
    BY <1>0, <1>12 DEF FailAndReschedule, RestOK
  <2> QED BY <1>12, <2>6, <2>7, RowDone DEF FailAndReschedule
<1> QED BY <1>2, <1>3, <1>4, <1>5, <1>6, <1>7, <1>8, <1>9, <1>10, <1>11, <1>12 DEF Work

(* Every step keeps the invariant: no handler writes SUCCESS without an    *)
(* answer in hand, and none writes DEAD from a count the row never had.    *)
LEMMA InvStep == Inv /\ [Next]_vars => Inv'
<1> SUFFICES ASSUME Inv, [Next]_vars PROVE Inv'
  OBVIOUS
<1>0. RestOK /\ RowsOK
  BY DEF Inv
<1>1. ASSUME NEW w \in Workers, Work(w) PROVE Inv'
  BY <1>1, WorkStep
<1>2. ASSUME NEW w \in Workers, CaughtError(w) PROVE Inv'
  <2> DEFINE m == [wk[w] EXCEPT !.pc = "caught", !.outcome = "transient"]
  <2>1. Advances
    BY <1>2, Unchanged DEF CaughtError
  <2>2. RestOK'
    BY <1>0, <1>2, DeliveryAssumption DEF CaughtError, RestOK
  <2>3. WellFormed(m, delivery, acked)
    BY <1>2, ZenonT(60) DEF Inv, WorkersOK, WellFormed, Memory, CaughtError, Idle, PCs, Outcomes
  <2>4. wk' = [wk EXCEPT ![w] = m]
    BY <1>2 DEF CaughtError, Become
  <2> HIDE DEF m
  <2> QED BY <2>1, <2>2, <2>3, <2>4, MemoryKept, WorkerMoves
<1>3. ASSUME NEW w \in Workers, Abandon(w) PROVE Inv'
  <2>1. Advances
    BY <1>3, Unchanged DEF Abandon
  <2>2. RestOK'
    BY <1>0, <1>3, DeliveryAssumption DEF Abandon, RestOK
  <2> QED BY <1>3, <2>1, <2>2, FreshMemory, MemoryKept, WorkerMoves DEF Abandon, Become
<1>4. ASSUME NEW d \in Deliveries, Enqueue(d) PROVE Inv'
  BY <1>0, <1>4, RowWritten, WorkersStay DEF Enqueue, Statuses, RestOK
<1>5. ASSUME NEW d \in Deliveries, TimePasses(d) PROVE Inv'
  <2>1. delivery[d] \in Row /\ SetRow(d, delivery[d].status, "due")
    BY <1>0, <1>5 DEF TimePasses, SetRow, RowsOK, Row
  <2>2. Advances
    BY <1>5, <2>1, RowWritten DEF Inv, SuccessIsAcked, DeadIsExhausted, TimePasses, Row
  <2> QED BY <1>0, <1>5, <2>2, WorkersStay DEF TimePasses, RestOK
<1>6. ASSUME NEW d \in Deliveries, AdminRetry(d) PROVE Inv'
  BY <1>0, <1>6, RowWritten, WorkersStay, DeliveryAssumption DEF AdminRetry, Statuses, RestOK
<1>7. CASE ToggleEndpoint
  BY <1>0, <1>7, Unchanged, WorkersStay DEF ToggleEndpoint, RestOK
<1>8. CASE UNCHANGED vars
  BY <1>0, <1>8, Unchanged, WorkersStay DEF vars, RestOK
<1> QED BY <1>1, <1>2, <1>3, <1>4, <1>5, <1>6, <1>7, <1>8 DEF Next

(* The invariant holds in every reachable state. *)
LEMMA InvHolds == Spec => []Inv
<1>1. ASSUME Init PROVE Inv
  <2>1. delivery \in [Deliveries -> Row] /\ \A d \in Deliveries : delivery[d].status = "NONE"
    BY <1>1 DEF Init, Row, Statuses
  <2>2. DOMAIN wk = Workers /\ (\A w \in Workers : wk[w] \in {Fresh, Off})
         /\ wk = [w \in Workers |-> wk[w]]
    BY <1>1 DEF Init
  <2>3. WorkersOK
    BY <2>2, FreshMemory, OffMemory DEF WorkersOK, WellFormed
  <2> QED BY <1>1, <2>1, <2>3, DeliveryAssumption
       DEF Init, Inv, RowsOK, RestOK, SuccessIsAcked, DeadIsExhausted
<1> QED BY <1>1, InvStep, PTL DEF Spec

(* Rows and memories keep their types, and a worker has a delivery in hand *)
(* exactly while it handles one.                                           *)
THEOREM TypeCorrect == Spec => []TypeOK
<1>1. Inv => TypeOK
  BY DEF Inv, WorkersOK, RowsOK, RestOK, WellFormed, TypeOK
<1> QED BY <1>1, InvHolds, PTL

(***************************************************************************)
(* A delivery recorded as SUCCESS was answered 2xx, however many workers   *)
(* share the table and whatever crashes, is retried or overtakes.          *)
(***************************************************************************)
THEOREM SuccessesAreAcked == Spec => []SuccessIsAcked
<1>1. Inv => SuccessIsAcked
  BY DEF Inv
<1> QED BY <1>1, InvHolds, PTL

(***************************************************************************)
(* A delivery is dead-lettered only once its attempts are used up, though  *)
(* a worker decides on the count it read when it claimed the row: a row    *)
(* never loses attempts, so that count is never ahead of the row's.        *)
(***************************************************************************)
THEOREM DeadLettersAreExhausted == Spec => []DeadIsExhausted
<1>1. Inv => DeadIsExhausted
  BY DEF Inv
<1> QED BY <1>1, InvHolds, PTL

----------------------------------------------------------------------------
(* How often a delivery is posted and claimed, by any number of workers.   *)

(* What memory m has still to post before it reads the row again. *)
Due(m) == m.batch \cup (IF m.pc = "post" THEN {m.cur} ELSE {})

(* Of memory m, which has posted d p[d] times: each post was counted on    *)
(* the row, and so is each one still to come; a row found by a SELECT had  *)
(* attempts left and was not PROCESSING, so if it is by now, one more      *)
(* attempt was counted since, whoever claimed it.  The row in hand has     *)
(* left the batch.                                                         *)
Paid(m, p, rows) ==
    /\ \A d \in Deliveries : p[d] <= MaxAttempts /\ p[d] <= rows[d].attempts
    /\ \A d \in Due(m) : p[d] < MaxAttempts /\ p[d] < rows[d].attempts
    /\ m.cur \notin m.batch
    /\ m.pc = "claim" =>
          \A d \in m.found : /\ p[d] < MaxAttempts
                             /\ rows[d].status = "PROCESSING" => p[d] < rows[d].attempts

(* Workers that have found d and have their UPDATE still to come. *)
Finders(d) == {w \in Workers : wk[w].pc = "claim" /\ d \in wk[w].found}

PostsInv ==
    /\ \A w \in Workers : Paid(wk[w], posts[w], delivery)
    /\ \A d \in Deliveries : delivery[d].attempts + Cardinality(Finders(d))
                                < MaxAttempts + Cardinality(Workers)

(* No count changes, and no row becomes PROCESSING. *)
Steady == \A d \in Deliveries :
             /\ delivery'[d].attempts = delivery[d].attempts
             /\ delivery'[d].status = "PROCESSING" => delivery[d].status = "PROCESSING"

(* No count falls, and a row that becomes PROCESSING is counted. *)
Counted == \A d \in Deliveries :
             /\ delivery[d].attempts <= delivery'[d].attempts
             /\ delivery'[d].status = "PROCESSING" => \/ delivery[d].status = "PROCESSING"
                                                     \/ delivery[d].attempts < delivery'[d].attempts

(* Memory m, moving on to n, takes no new row into its hands. *)
Eases(m, n) == n.pc # "claim" /\ Due(n) \subseteq Due(m) /\ n.cur \notin n.batch

(* The numbers, and what the memories speak of. *)
LEMMA Counts ==
    ASSUME Inv
    PROVE  /\ \A d \in Deliveries : delivery[d] \in Row /\ delivery[d].attempts \in Nat
           /\ \A w \in Workers : /\ wk[w] \in Memory
                                 /\ posts[w] \in [Deliveries -> Nat]
                                 /\ Due(wk[w]) \subseteq Deliveries
                                 /\ wk[w].found \subseteq Deliveries
           /\ Cardinality(Workers) \in Nat /\ MaxAttempts \in Nat
           /\ \A d : IsFiniteSet(Finders(d)) /\ Cardinality(Finders(d)) \in Nat
<1>1. \A d \in Deliveries : delivery[d] \in Row /\ delivery[d].attempts \in Nat
  BY DEF Inv, RowsOK, Row
<1>2. ASSUME NEW w \in Workers
      PROVE  /\ wk[w] \in Memory
             /\ posts[w] \in [Deliveries -> Nat]
             /\ Due(wk[w]) \subseteq Deliveries
             /\ wk[w].found \subseteq Deliveries
  BY DEF Inv, WorkersOK, WellFormed, RestOK, Memory, Due, Idle
<1>3. Cardinality(Workers) \in Nat /\ MaxAttempts \in Nat
  BY DeliveryAssumption, FS_CardinalityType
<1>4. ASSUME NEW d PROVE IsFiniteSet(Finders(d)) /\ Cardinality(Finders(d)) \in Nat
  BY DeliveryAssumption, FS_Subset, FS_CardinalityType DEF Finders
<1> QED BY <1>1, <1>2, <1>3, <1>4

(* What was paid for stays so while the rows are only counted up. *)
LEMMA PaidKept ==
    ASSUME Inv, Inv', Counted, NEW w \in Workers, Paid(wk[w], posts[w], delivery)
    PROVE  Paid(wk[w], posts[w], delivery')
<1>1. /\ \A d \in Deliveries : delivery[d].attempts \in Nat /\ posts[w][d] \in Nat
      /\ Due(wk[w]) \subseteq Deliveries /\ wk[w].found \subseteq Deliveries
  BY Counts
<1>2. \A d \in Deliveries : delivery'[d].attempts \in Nat
  BY DEF Inv, RowsOK, Row
<1> QED BY <1>1, <1>2 DEF Paid, Counted

(* A count together with its finders stays below the bound as long as it   *)
(* does not grow and nobody finds the row anew.                            *)
LEMMA FindersKept ==
    ASSUME Inv, PostsInv, NEW d \in Deliveries, delivery'[d].attempts = delivery[d].attempts,
           Finders(d)' \subseteq Finders(d)
    PROVE  delivery'[d].attempts + Cardinality(Finders(d)') < MaxAttempts + Cardinality(Workers)
<1>1. /\ delivery[d].attempts \in Nat /\ IsFiniteSet(Finders(d))
      /\ Cardinality(Finders(d)) \in Nat /\ Cardinality(Workers) \in Nat /\ MaxAttempts \in Nat
  BY Counts
<1>2. Cardinality(Finders(d)') <= Cardinality(Finders(d)) /\ Cardinality(Finders(d)') \in Nat
  BY <1>1, FS_Subset, FS_CardinalityType
<1> QED BY <1>1, <1>2 DEF PostsInv

(* A worker that takes nothing new into its hands. *)
LEMMA PostsMove ==
    ASSUME Inv, Inv', PostsInv, Steady, posts' = posts, NEW w \in Workers, NEW m,
           Eases(wk[w], m), wk' = [wk EXCEPT ![w] = m]
    PROVE  PostsInv'
<1>0. Counted
  BY Counts DEF Steady, Counted
<1>1. ASSUME NEW v \in Workers PROVE Paid(wk'[v], posts'[v], delivery')
  <2>1. Paid(wk[v], posts[v], delivery')
    BY <1>0, PaidKept DEF PostsInv
  <2>2. CASE v # w
    BY <2>1, <2>2 DEF Inv, WorkersOK
  <2>3. CASE v = w
    <3>1. wk'[v] = m
      BY <2>3 DEF Inv, WorkersOK
    <3> QED BY <2>1, <2>3, <3>1 DEF Paid, Eases
  <2> QED BY <2>2, <2>3
<1>2. ASSUME NEW d \in Deliveries
      PROVE  (delivery[d].attempts + Cardinality(Finders(d)) < MaxAttempts + Cardinality(Workers))'
  <2>1. Finders(d)' \subseteq Finders(d)
    BY DEF Finders, Eases, Inv, WorkersOK
  <2> QED BY <2>1, FindersKept DEF Steady
<1> QED BY <1>1, <1>2 DEF PostsInv

(* A step that changes no memory. *)
LEMMA PostsStay ==
    ASSUME Inv, Inv', PostsInv, Steady, posts' = posts, wk' = wk
    PROVE  PostsInv'
<1>0. Counted
  BY Counts DEF Steady, Counted
<1>1. ASSUME NEW v \in Workers PROVE Paid(wk'[v], posts'[v], delivery')
  BY <1>0, PaidKept DEF PostsInv
<1>2. ASSUME NEW d \in Deliveries
      PROVE  (delivery[d].attempts + Cardinality(Finders(d)) < MaxAttempts + Cardinality(Workers))'
  BY FindersKept DEF Steady, Finders
<1> QED BY <1>1, <1>2 DEF PostsInv

(* A row written without its count, and not made PROCESSING. *)
LEMMA WritesAreSteady ==
    ASSUME Inv, NEW d \in Deliveries, NEW s, NEW n, SetRow(d, s, n),
           s # "PROCESSING" \/ s = delivery[d].status
    PROVE  Steady
  BY DEF Inv, RowsOK, Row, SetRow, Steady

(* A worker that only goes to another await, or is done with a row. *)
LEMMA PostsGo ==
    ASSUME Inv, Inv', PostsInv, Steady, posts' = posts, NEW w \in Workers,
           \/ \E pc \in PCs \ {"claim", "post"} : Goto(w, pc)
           \/ NextDelivery(w)
    PROVE  PostsInv'
<1>0. wk[w] \in Memory /\ wk[w].cur \notin wk[w].batch /\ None \notin wk[w].batch
  BY Counts, DeliveryAssumption DEF PostsInv, Paid, Memory
<1>1. ASSUME NEW pc \in PCs \ {"claim", "post"}, Goto(w, pc) PROVE PostsInv'
  <2> DEFINE m == [wk[w] EXCEPT !.pc = pc]
  <2>1. Eases(wk[w], m)
    BY <1>0 DEF Eases, Due, Memory
  <2>2. wk' = [wk EXCEPT ![w] = m]
    BY <1>1 DEF Goto, Become
  <2> HIDE DEF m
  <2> QED BY <2>1, <2>2, PostsMove
<1>2. ASSUME NextDelivery(w) PROVE PostsInv'
  <2> DEFINE m == [wk[w] EXCEPT !.pc = "next", !.cur = None]
  <2>1. Eases(wk[w], m)
    BY <1>0 DEF Eases, Due, Memory
  <2>2. wk' = [wk EXCEPT ![w] = m]
    BY <1>2 DEF NextDelivery, Become
  <2> HIDE DEF m
  <2> QED BY <2>1, <2>2, PostsMove
<1> QED BY <1>1, <1>2

(* A SELECT finds rows with attempts left; whatever other workers have     *)
(* found too, they are no more than the workers there are.                 *)
LEMMA PostsFind ==
    ASSUME Inv, Inv', PostsInv, NEW w \in Workers, ClaimFind(w), Candidates # {}
    PROVE  PostsInv'
<1> DEFINE m == [wk[w] EXCEPT !.pc = "claim", !.found = Candidates]
<1>0. wk[w] \in Memory /\ wk[w].pc = "find"
  BY Counts DEF ClaimFind, At
<1>1. wk' = [wk EXCEPT ![w] = m] /\ delivery' = delivery /\ posts' = posts
  BY DEF ClaimFind, Become
<1>2. /\ m.pc = "claim" /\ m.found = Candidates /\ Due(m) = Due(wk[w])
      /\ m.cur = wk[w].cur /\ m.batch = wk[w].batch
  BY <1>0 DEF Memory, Due
<1> HIDE DEF m
<1>3. wk'[w] = m /\ \A v \in Workers \ {w} : wk'[v] = wk[v]
  BY <1>1 DEF Inv, WorkersOK
<1>4. ASSUME NEW v \in Workers PROVE Paid(wk'[v], posts'[v], delivery')
  <2>1. CASE v # w
    BY <1>1, <1>3, <2>1 DEF PostsInv
  <2>2. CASE v = w
    <3>1. \A d \in Deliveries : delivery[d].attempts \in Nat /\ posts[w][d] \in Nat
      BY Counts
    <3>2. \A d \in Candidates : /\ d \in Deliveries
                                /\ delivery[d].attempts < MaxAttempts
                                /\ delivery[d].status = "PENDING"
      BY DEF Candidates
    <3>3. Paid(wk[w], posts[w], delivery)
      BY DEF PostsInv
    <3>4. \A d \in Candidates : posts[w][d] < MaxAttempts
      BY <3>1, <3>2, <3>3, Counts DEF Paid
    <3>5. Paid(m, posts[w], delivery)
      BY <1>2, <3>2, <3>3, <3>4 DEF Paid
    <3> QED BY <1>1, <1>3, <2>2, <3>5
  <2> QED BY <2>1, <2>2
<1>5. ASSUME NEW d \in Deliveries
      PROVE  (delivery[d].attempts + Cardinality(Finders(d)) < MaxAttempts + Cardinality(Workers))'
  <2>1. CASE d \in Candidates
    <3>1. delivery'[d].attempts \in Nat /\ delivery'[d].attempts < MaxAttempts
      BY <1>1, <2>1, Counts DEF Candidates
    <3>2. /\ Cardinality(Finders(d)') <= Cardinality(Workers)
          /\ Cardinality(Finders(d)') \in Nat
      BY DeliveryAssumption, FS_Subset, FS_CardinalityType DEF Finders
    <3> QED BY <3>1, <3>2, Counts
  <2>2. CASE d \notin Candidates
    <3>1. Finders(d)' \subseteq Finders(d)
      BY <1>2, <1>3, <2>2 DEF Finders
    <3> QED BY <1>1, <3>1, FindersKept
  <2> QED BY <2>1, <2>2
<1> QED BY <1>4, <1>5 DEF PostsInv

(* The UPDATE of a claim counts an attempt on each row it claims, and its  *)
(* worker has no longer found it only.  What another worker claimed in     *)
(* between was counted by that one.                                        *)
LEMMA PostsClaim ==
    ASSUME Inv, Inv', PostsInv, NEW w \in Workers, ClaimCommit(w)
    PROVE  PostsInv'
<1> DEFINE batch == {d \in wk[w].found : delivery'[d].status = "PROCESSING"}
           tries == [d \in Deliveries |-> delivery'[d].attempts]
           m == [Fresh EXCEPT !.pc = "next", !.batch = batch, !.tries = tries,
                              !.live = enabled]
<1>0. wk[w] \in Memory /\ wk[w].pc = "claim" /\ wk[w].found \subseteq Deliveries
  BY Counts DEF ClaimCommit, At
<1>1. wk' = [wk EXCEPT ![w] = m] /\ posts' = posts
  BY DEF ClaimCommit, Become, TriesOf
<1>2. ASSUME NEW d \in Deliveries
      PROVE  \/ delivery'[d] = delivery[d] /\ (d \in wk[w].found => delivery[d].status # "PENDING")
             \/ /\ d \in wk[w].found
                /\ delivery'[d].attempts = delivery[d].attempts + 1
  <3>1. delivery'[d] = IF d \in wk[w].found /\ delivery[d].status = "PENDING"
                         THEN ClaimedRow(delivery[d]) ELSE delivery[d]
    BY DEF ClaimCommit
  <3> QED BY <3>1 DEF ClaimedRow
<1>3. Counted
  BY <1>2, Counts DEF Counted
<1>4. Due(m) = batch /\ m.pc = "next" /\ m.cur \notin m.batch
  BY <1>0, DeliveryAssumption DEF Due, Fresh
<1>5. \A d \in batch : d \in wk[w].found /\ d \in Deliveries /\ delivery'[d].status = "PROCESSING"
  BY <1>0
<1> HIDE DEF m, batch
<1>6. wk'[w] = m /\ \A v \in Workers \ {w} : wk'[v] = wk[v]
  BY <1>1 DEF Inv, WorkersOK
<1>7. ASSUME NEW v \in Workers PROVE Paid(wk'[v], posts'[v], delivery')
  <2>1. Paid(wk[v], posts[v], delivery')
    BY <1>3, PaidKept DEF PostsInv
  <2>2. CASE v # w
    BY <1>1, <1>6, <2>1, <2>2
  <2>3. CASE v = w
    <3>1. \A d \in batch : posts[w][d] < MaxAttempts /\ posts[w][d] < delivery'[d].attempts
      BY <1>0, <1>5, <2>1, <2>3 DEF Paid
    <3>2. Paid(m, posts[w], delivery')
      BY <1>4, <2>1, <2>3, <3>1 DEF Paid
    <3> QED BY <1>1, <1>6, <2>3, <3>2
  <2> QED BY <2>2, <2>3
<1>8. ASSUME NEW d \in Deliveries
      PROVE  (delivery[d].attempts + Cardinality(Finders(d)) < MaxAttempts + Cardinality(Workers))'
  <2>1. Finders(d)' = Finders(d) \ {w}
    BY <1>4, <1>6 DEF Finders
  <2>2. CASE delivery'[d] = delivery[d]
    BY <2>1, <2>2, FindersKept
  <2>3. CASE d \in wk[w].found /\ delivery'[d].attempts = delivery[d].attempts + 1
    <3>1. w \in Finders(d)
      BY <1>0, <2>3 DEF Finders
    <3>2. Cardinality(Finders(d) \ {w}) = Cardinality(Finders(d)) - 1
      BY <3>1, Counts, FS_RemoveElement
    <3>3. /\ delivery[d].attempts + Cardinality(Finders(d)) < MaxAttempts + Cardinality(Workers)
          /\ delivery[d].attempts \in Nat /\ Cardinality(Finders(d)) \in Nat
          /\ Cardinality(Workers) \in Nat /\ MaxAttempts \in Nat
      BY Counts DEF PostsInv
    <3> QED BY <2>1, <2>3, <3>2, <3>3
  <2> QED BY <1>2, <2>2, <2>3
<1> QED BY <1>7, <1>8 DEF PostsInv

(* A POST uses up what the worker had paid for. *)
LEMMA PostsPost ==
    ASSUME Inv, Inv', PostsInv, NEW w \in Workers, NEW outcome \in Outcomes,
           NEW pc \in {"answered", "caught"}, Post(w, outcome, pc)
    PROVE  PostsInv'
<1> DEFINE cur == wk[w].cur
           m == [wk[w] EXCEPT !.pc = pc, !.outcome = outcome]
<1>0. wk[w] \in Memory /\ wk[w].pc = "post" /\ cur \in Deliveries
  BY DEF Inv, WorkersOK, WellFormed, Memory, Idle, Post, At
<1>1. /\ wk' = [wk EXCEPT ![w] = m] /\ delivery' = delivery
      /\ posts' = [posts EXCEPT ![w] = [posts[w] EXCEPT ![cur] = posts[w][cur] + 1]]
  BY DEF Post, Become
<1>2. /\ Due(m) = wk[w].batch /\ m.pc # "claim" /\ Due(wk[w]) = wk[w].batch \cup {cur}
      /\ m.cur = cur /\ m.batch = wk[w].batch /\ cur \notin wk[w].batch
  BY <1>0 DEF Memory, Due, PostsInv, Paid
<1>3. posts \in [Workers -> [Deliveries -> Nat]] /\ wk \in [Workers -> Memory]
  BY DEF Inv, RestOK, WorkersOK
<1> HIDE DEF m
<1>4. ASSUME NEW v \in Workers PROVE Paid(wk'[v], posts'[v], delivery')
  <2>1. Paid(wk[v], posts[v], delivery)
    BY DEF PostsInv
  <2>2. CASE v # w
    BY <1>1, <1>3, <2>1, <2>2
  <2>3. CASE v = w
    <3>1. wk'[w] = m /\ posts'[w] = [posts[w] EXCEPT ![cur] = posts[w][cur] + 1]
      BY <1>1, <1>3
    <3>2. \A d \in Deliveries : /\ posts[w][d] \in Nat /\ delivery[d].attempts \in Nat
                                /\ posts'[w][d] = IF d = cur THEN posts[w][cur] + 1 ELSE posts[w][d]
      BY <1>3, <3>1, Counts
    <3>3. posts[w][cur] < MaxAttempts /\ posts[w][cur] < delivery[cur].attempts
      BY <1>0, <1>2, <2>1, <2>3 DEF Paid
    <3>4. \A d \in Deliveries : posts'[w][d] <= MaxAttempts /\ posts'[w][d] <= delivery[d].attempts
      BY <1>0, <2>1, <2>3, <3>2, <3>3, Counts DEF Paid
    <3> QED BY <1>1, <1>2, <2>1, <2>3, <3>1, <3>4 DEF Paid
  <2> QED BY <2>2, <2>3
<1>5. ASSUME NEW d \in Deliveries
      PROVE  (delivery[d].attempts + Cardinality(Finders(d)) < MaxAttempts + Cardinality(Workers))'
  <2>1. Finders(d)' \subseteq Finders(d)
    BY <1>1, <1>2, <1>3 DEF Finders
  <2> QED BY <1>1, <2>1, FindersKept
<1> QED BY <1>4, <1>5 DEF PostsInv

(* Every step of a running worker. *)
LEMMA PostsWork ==
    ASSUME Inv, Inv', PostsInv, NEW w \in Workers, Work(w)
    PROVE  PostsInv'
<1> DEFINE cur == wk[w].cur
<1>0. /\ wk[w] \in Memory /\ cur \notin wk[w].batch /\ None \notin wk[w].batch
      /\ cur \in Deliveries \/ wk[w].pc \in Idle
  BY DeliveryAssumption DEF Inv, WorkersOK, WellFormed, PostsInv, Paid, Memory
<1>1. \A d \in Deliveries : delivery[d] \in Row /\ delivery[d].attempts \in Nat
  BY Counts
<1>2. delivery' = delivery => Steady
  BY DEF Steady
<1>3. CASE RequeueStaleProcessing(w)
  <2>1. Steady
    BY <1>1, <1>3 DEF RequeueStaleProcessing, Steady, Row
  <2> QED BY <1>3, <2>1, PostsGo DEF RequeueStaleProcessing, PCs
<1>4. CASE ClaimFind(w)
  <2>1. delivery' = delivery /\ posts' = posts
    BY <1>4 DEF ClaimFind
  <2>2. CASE Candidates = {}
    BY <1>2, <1>4, <2>1, <2>2, PostsGo DEF ClaimFind, PCs
  <2> QED BY <1>4, <2>2, PostsFind
<1>5. CASE ClaimCommit(w)
  BY <1>5, PostsClaim
<1>6. CASE BatchDone(w)
  <2>1. Eases(wk[w], Fresh)
    BY DEF Eases, Due, Fresh
  <2> QED BY <1>2, <1>6, <2>1, PostsMove DEF BatchDone, Become
<1>7. ASSUME NEW d \in Deliveries, SkipDisabled(w, d) PROVE PostsInv'
  <2> DEFINE m == [wk[w] EXCEPT !.batch = wk[w].batch \ {d}]
  <2>1. Eases(wk[w], m)
    BY <1>0, <1>7 DEF Eases, Due, Memory, SkipDisabled, At
  <2>2. wk' = [wk EXCEPT ![w] = m] /\ posts' = posts /\ Steady
    BY <1>7, WritesAreSteady DEF SkipDisabled, Become
  <2> HIDE DEF m
  <2> QED BY <2>1, <2>2, PostsMove
<1>8. ASSUME NEW d \in Deliveries, StartAttempt(w, d) PROVE PostsInv'
  <2> DEFINE m == [wk[w] EXCEPT !.pc = "post", !.batch = wk[w].batch \ {d}, !.cur = d]
  <2>1. Eases(wk[w], m)
    BY <1>0, <1>8 DEF Eases, Due, Memory, StartAttempt, At
  <2>2. wk' = [wk EXCEPT ![w] = m] /\ posts' = posts /\ Steady
    BY <1>2, <1>8 DEF StartAttempt, Become
  <2> HIDE DEF m
  <2> QED BY <2>1, <2>2, PostsMove
<1>9. ASSUME NEW outcome \in Outcomes, NEW pc \in {"answered", "caught"}, Post(w, outcome, pc)
      PROVE  PostsInv'
  BY <1>9, PostsPost
<1>10. CASE RecordSuccess(w)
  <2>1. Steady
    BY <1>0, <1>10, WritesAreSteady DEF RecordSuccess, At, Idle
  <2> QED BY <1>10, <2>1, PostsGo DEF RecordSuccess, PCs
<1>11. CASE FinishAttempt(w)
  BY <1>2, <1>11, PostsGo DEF FinishAttempt
<1>12. CASE FailPermanent(w)
  <2>1. Steady
    BY <1>0, <1>12, WritesAreSteady DEF FailPermanent, Idle
  <2> QED BY <1>12, <2>1, PostsGo DEF FailPermanent
<1>13. CASE FailAndReschedule(w)
  <2>1. \/ delivery' = delivery
        \/ SetRow(cur, "DEAD", "null")
        \/ \E next \in {"due", "later"} : SetRow(cur, "PENDING", next)
    BY <1>13 DEF FailAndReschedule
  <2>2. cur \in Deliveries
    BY <1>0, <1>13 DEF FailAndReschedule, Idle
  <2>3. Steady
    BY <1>2, <2>1, <2>2, WritesAreSteady
  <2> QED BY <1>13, <2>3, PostsGo DEF FailAndReschedule
<1> QED BY <1>3, <1>4, <1>5, <1>6, <1>7, <1>8, <1>9, <1>10, <1>11, <1>12, <1>13 DEF Work

LEMMA PostsStep == Inv /\ Inv' /\ PostsInv /\ [Next]_vars => PostsInv'
<1> SUFFICES ASSUME Inv, Inv', PostsInv, [Next]_vars PROVE PostsInv'
  OBVIOUS
<1>0. delivery' = delivery => Steady
  BY DEF Steady
<1>1. ASSUME NEW w \in Workers, Work(w) PROVE PostsInv'
  BY <1>1, PostsWork
<1>2. ASSUME NEW w \in Workers, CaughtError(w) PROVE PostsInv'
  <2> DEFINE m == [wk[w] EXCEPT !.pc = "caught", !.outcome = "transient"]
  <2>1. Eases(wk[w], m)
    BY DEF Inv, WorkersOK, Eases, Due, Memory, PostsInv, Paid
  <2>2. wk' = [wk EXCEPT ![w] = m] /\ posts' = posts /\ Steady
    BY <1>0, <1>2 DEF CaughtError, Become
  <2> HIDE DEF m
  <2> QED BY <2>1, <2>2, PostsMove
<1>3. ASSUME NEW w \in Workers, Abandon(w) PROVE PostsInv'
  <2>1. Eases(wk[w], Fresh)
    BY DEF Eases, Due, Fresh
  <2> QED BY <1>0, <1>3, <2>1, PostsMove DEF Abandon, Become
<1>4. ASSUME NEW d \in Deliveries, Enqueue(d) PROVE PostsInv'
  BY <1>4, WritesAreSteady, PostsStay DEF Enqueue
<1>5. ASSUME NEW d \in Deliveries, TimePasses(d) PROVE PostsInv'
  <2>1. SetRow(d, delivery[d].status, "due")
    BY <1>5 DEF TimePasses, SetRow, Inv, RowsOK, Row
  <2> QED BY <1>5, <2>1, WritesAreSteady, PostsStay DEF TimePasses
<1>6. ASSUME NEW d \in Deliveries, AdminRetry(d) PROVE PostsInv'
  BY <1>6, WritesAreSteady, PostsStay DEF AdminRetry
<1>7. CASE ToggleEndpoint
  BY <1>0, <1>7, PostsStay DEF ToggleEndpoint
<1>8. CASE UNCHANGED vars
  BY <1>0, <1>8, PostsStay DEF vars
<1> QED BY <1>1, <1>2, <1>3, <1>4, <1>5, <1>6, <1>7, <1>8 DEF Next

(***************************************************************************)
(* However many workers share the table, and whatever leases expire while  *)
(* they work: none of them posts a delivery more than MaxAttempts times or *)
(* more often than attempts were counted, and the count overshoots         *)
(* MaxAttempts by one for each other worker at most, since a worker claims *)
(* a row beyond it only after it found the row below it.                   *)
(***************************************************************************)
THEOREM PostsAreBounded == Spec => []PostsBounded
<1>1. Init => PostsInv
  <2> SUFFICES ASSUME Init PROVE PostsInv
    OBVIOUS
  <2>1. \A w \in Workers : wk[w] \in {Fresh, Off} /\ posts[w] = [d \in Deliveries |-> 0]
    BY DEF Init
  <2>2. MaxAttempts \in Nat \ {0} /\ Cardinality(Workers) \in Nat
    BY DeliveryAssumption, FS_CardinalityType
  <2>3. \A d \in Deliveries : delivery[d].attempts = 0
    BY DEF Init
  <2>4. \A w \in Workers : Paid(wk[w], posts[w], delivery)
    BY <2>1, <2>2, <2>3 DEF Paid, Due, Fresh, Off
  <2>5. \A d \in Deliveries : Finders(d) = {}
    BY <2>1 DEF Finders, Fresh, Off
  <2>6. \A d \in Deliveries : delivery[d].attempts + Cardinality(Finders(d))
                                 < MaxAttempts + Cardinality(Workers)
    <3> TAKE d \in Deliveries
    <3>1. Cardinality(Finders(d)) = 0
      BY <2>5, FS_EmptySet
    <3> QED BY <2>2, <2>3, <3>1
  <2> QED BY <2>4, <2>6 DEF PostsInv
<1>2. Inv /\ PostsInv => PostsBounded
  <2> SUFFICES ASSUME Inv, PostsInv, NEW d \in Deliveries
               PROVE  /\ \A w \in Workers : /\ posts[w][d] <= MaxAttempts
                                            /\ posts[w][d] <= delivery[d].attempts
                      /\ delivery[d].attempts < MaxAttempts + Cardinality(Workers)
    BY DEF PostsBounded
  <2>1. \A w \in Workers : posts[w][d] <= MaxAttempts /\ posts[w][d] <= delivery[d].attempts
    BY DEF PostsInv, Paid
  <2>2. /\ delivery[d].attempts \in Nat /\ Cardinality(Finders(d)) \in Nat
        /\ delivery[d].attempts + Cardinality(Finders(d)) < MaxAttempts + Cardinality(Workers)
    BY Counts DEF PostsInv
  <2>3. delivery[d].attempts < MaxAttempts + Cardinality(Workers)
    BY <2>2, Counts
  <2> QED BY <2>1, <2>3
<1> QED BY <1>1, <1>2, InvHolds, PostsStep, PTL DEF Spec
=============================================================================
