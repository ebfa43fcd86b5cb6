-------------------------- MODULE WebhookDelivery --------------------------
(***************************************************************************)
(* Outgoing webhooks: the WebhookDelivery rows, the workers that post them *)
(* (src/webhooks/worker.ts) and the admin who retries them.                *)
(*                                                                         *)
(* A worker is a sequential loop; each await on the database or on the     *)
(* network is a step.  Postgres runs the claim transaction READ COMMITTED: *)
(* its first SELECT is a step of its own, and its guarded UPDATE with the  *)
(* re-read that follows is another, because the UPDATE waits for the rows  *)
(* another claim has locked and then tests their status again.             *)
(*                                                                         *)
(* Time is nextAttempt against now: "later" until TimePasses makes it      *)
(* "due"; on a PROCESSING row it is the end of the lease.  Left out:       *)
(* signatures, payloads, the attempt log rows and the stored errors.       *)
(***************************************************************************)
EXTENDS Naturals, FiniteSets

CONSTANTS Deliveries,   \* rows that can be enqueued
          Workers,      \* worker processes
          MaxAttempts,  \* WEBHOOK_MAX_ATTEMPTS
          MaxFailures,  \* bound: crashes and database errors
          MaxRetries,   \* bound: retries by an admin
          None          \* no delivery in hand

ASSUME DeliveryAssumption ==
    /\ IsFiniteSet(Workers)
    /\ MaxAttempts \in Nat \ {0}
    /\ MaxFailures \in Nat
    /\ MaxRetries \in Nat
    /\ None \notin Deliveries

Statuses == {"NONE", "PENDING", "PROCESSING", "SUCCESS", "FAILED", "DEAD"}  \* NONE: no row
PCs == {"requeue", "find", "claim", "next", "post", "answered", "finish", "caught",
        "off"}                                              \* never started
Idle == {"off", "requeue", "find", "claim", "next"}     \* no delivery in hand
Outcomes == {"ok", "permanent", "transient"}

VARIABLES
    delivery,  \* delivery[d]: status, attempts, next (nextAttempt: null, due or later)
    enabled,   \* WebhookEndpoint.enabled
    wk,        \* wk[w]: where worker w is, and what it holds in memory
    acked,     \* history: deliveries some POST of which was answered 2xx
    posts,     \* history: posts[w][d], how often worker w has posted d
    failures,  \* failures so far
    retries    \* admin retries so far

vars == <<delivery, enabled, wk, acked, posts, failures, retries>>

(* found: ids of the claim's first SELECT; batch: rows still to handle;    *)
(* cur: the one in hand; tries, live: attempts and endpoint.enabled as the *)
(* claim re-read them; outcome: what became of the POST.                   *)
Fresh == [pc |-> "requeue", found |-> {}, batch |-> {}, cur |-> None,
          tries |-> [d \in Deliveries |-> 0], live |-> TRUE, outcome |-> "ok"]
Off == [Fresh EXCEPT !.pc = "off"]

(* How many of the workers are started is up to the deployment. *)
Init == /\ delivery = [d \in Deliveries |-> [status |-> "NONE", attempts |-> 0, next |-> "null"]]
        /\ enabled = TRUE
        /\ \E up \in SUBSET Workers \ {{}} :
              wk = [w \in Workers |-> IF w \in up THEN Fresh ELSE Off]
        /\ acked = {}
        /\ posts = [w \in Workers |-> [d \in Deliveries |-> 0]]
        /\ failures = 0
        /\ retries = 0

At(w, pc) == wk[w].pc = pc
Held(w) == wk[w].batch \cup ({wk[w].cur} \ {None})

(* Worker w goes on as worker state s. *)
Become(w, s) == wk' = [wk EXCEPT ![w] = s]
Goto(w, pc) == Become(w, [wk[w] EXCEPT !.pc = pc])
NextDelivery(w) == Become(w, [wk[w] EXCEPT !.pc = "next", !.cur = None])

(* Unconditional update by id *)
SetRow(d, status, next) ==
    delivery' = [delivery EXCEPT ![d].status = status, ![d].next = next]

----------------------------------------------------------------------------
(* enqueueWebhookEvent: a row for an enabled endpoint, due at once *)
Enqueue(d) ==
    /\ delivery[d].status = "NONE"
    /\ enabled
    /\ SetRow(d, "PENDING", "due")
    /\ UNCHANGED <<enabled, wk, acked, posts, failures, retries>>

(* requeueStaleProcessing: every lease that has expired; attempts stay *)
RequeueStaleProcessing(w) ==
    /\ At(w, "requeue")
    /\ delivery' = [d \in Deliveries |->
          IF delivery[d].status = "PROCESSING" /\ delivery[d].next = "due"
            THEN [delivery[d] EXCEPT !.status = "PENDING"]
            ELSE delivery[d]]
    /\ Goto(w, "find")
    /\ UNCHANGED <<enabled, acked, posts, failures, retries>>

Candidates_Any == {d \in Deliveries : /\ delivery[d].status = "PENDING"
                                      /\ delivery[d].next \in {"null", "due"}}  \* mutant
Candidates == {d \in Deliveries : /\ delivery[d].status = "PENDING"
                                  /\ delivery[d].attempts < MaxAttempts
                                  /\ delivery[d].next \in {"null", "due"}}

(* claimBatch: the SELECT of candidate ids *)
ClaimFind(w) ==
    /\ At(w, "find")
    /\ IF Candidates = {}
         THEN Goto(w, "requeue")
         ELSE Become(w, [wk[w] EXCEPT !.pc = "claim", !.found = Candidates])
    /\ UNCHANGED <<delivery, enabled, acked, posts, failures, retries>>

ClaimedRow_NoLease(row) == [status |-> "PROCESSING", attempts |-> row.attempts + 1,
                            next |-> "null"]                          \* mutant
ClaimedRow(row) == [status |-> "PROCESSING", attempts |-> row.attempts + 1, next |-> "later"]

TriesOf(rows) == [d \in Deliveries |-> rows[d].attempts]

(* claimBatch: UPDATE ... WHERE id IN found AND status = PENDING, then the *)
(* re-read of the found ids that are PROCESSING, whoever made them so.     *)
ClaimCommit(w) ==
    LET rows == [d \in Deliveries |->
                    IF d \in wk[w].found /\ delivery[d].status = "PENDING"
                      THEN ClaimedRow(delivery[d]) ELSE delivery[d]]
    IN  /\ At(w, "claim")
        /\ delivery' = rows
        /\ Become(w, [Fresh EXCEPT !.pc = "next",
                         !.batch = {d \in wk[w].found : rows[d].status = "PROCESSING"},
                         !.tries = TriesOf(rows), !.live = enabled])
        /\ UNCHANGED <<enabled, acked, posts, failures, retries>>

----------------------------------------------------------------------------
(* handleOne, for each row of the batch in turn *)

BatchDone(w) ==
    /\ At(w, "next")
    /\ wk[w].batch = {}
    /\ Become(w, Fresh)
    /\ UNCHANGED <<delivery, enabled, acked, posts, failures, retries>>

SkipDisabled(w, d) ==
    /\ At(w, "next")
    /\ d \in wk[w].batch
    /\ ~wk[w].live
    /\ SetRow(d, "FAILED", "null")
    /\ Become(w, [wk[w] EXCEPT !.batch = @ \ {d}])
    /\ UNCHANGED <<enabled, acked, posts, failures, retries>>

StartAttempt(w, d) ==
    /\ At(w, "next")
    /\ d \in wk[w].batch
    /\ wk[w].live
    /\ Become(w, [wk[w] EXCEPT !.pc = "post", !.batch = @ \ {d}, !.cur = d])
    /\ UNCHANGED <<delivery, enabled, acked, posts, failures, retries>>

(* postWithTimeout: a 2xx, an HTTP error (permanent or not), or an         *)
(* exception (a timeout or no connection is transient, a bad URL is not).  *)
Post(w, outcome, pc) ==
    /\ At(w, "post")
    /\ outcome = "ok" => pc = "answered"
    /\ Become(w, [wk[w] EXCEPT !.pc = pc, !.outcome = outcome])
    /\ acked' = IF outcome = "ok" THEN acked \cup {wk[w].cur} ELSE acked
    /\ posts' = [posts EXCEPT ![w][wk[w].cur] = @ + 1]
    /\ UNCHANGED <<delivery, enabled, failures, retries>>

ResultOk_Any(outcome) == outcome # "permanent"                        \* mutant
ResultOk(outcome) == outcome = "ok"

RecordSuccess(w) ==
    /\ At(w, "answered")
    /\ ResultOk(wk[w].outcome)
    /\ SetRow(wk[w].cur, "SUCCESS", "null")
    /\ Goto(w, "finish")
    /\ UNCHANGED <<enabled, acked, posts, failures, retries>>

(* finishAttempt, inside the try *)
FinishAttempt(w) ==
    /\ At(w, "finish")
    /\ NextDelivery(w)
    /\ UNCHANGED <<delivery, enabled, acked, posts, failures, retries>>

FailPermanent(w) ==
    /\ wk[w].pc \in {"answered", "caught"}
    /\ wk[w].outcome = "permanent"
    /\ SetRow(wk[w].cur, "FAILED", "null")
    /\ NextDelivery(w)
    /\ UNCHANGED <<enabled, acked, posts, failures, retries>>

Exhausted(n) == n >= MaxAttempts

(* failAndReschedule: dead letter (a row that is still PROCESSING), or try *)
(* again after the backoff; Retry-After: 0 makes it due at once.           *)
FailAndReschedule(w) ==
    LET d == wk[w].cur
    IN  /\ wk[w].pc \in {"answered", "caught"}
        /\ wk[w].outcome = "transient"
        /\ IF Exhausted(wk[w].tries[d])
             THEN IF delivery[d].status = "PROCESSING"
                    THEN SetRow(d, "DEAD", "null")
                    ELSE UNCHANGED delivery
             ELSE \E next \in {"due", "later"} : SetRow(d, "PENDING", next)
        /\ NextDelivery(w)
        /\ UNCHANGED <<enabled, acked, posts, failures, retries>>

----------------------------------------------------------------------------
(* A database error inside handleOne's try: its catch treats it as a       *)
(* failed POST, also when the row is already SUCCESS.                      *)
CaughtError(w) ==
    /\ failures < MaxFailures
    /\ wk[w].pc \in {"answered", "finish"}
    /\ Become(w, [wk[w] EXCEPT !.pc = "caught", !.outcome = "transient"])
    /\ failures' = failures + 1
    /\ UNCHANGED <<delivery, enabled, acked, posts, retries>>

(* The process dies, or an error escapes to the loop: the batch in memory  *)
(* is forgotten and the loop starts over.                                  *)
Abandon(w) ==
    /\ failures < MaxFailures
    /\ wk[w] \notin {Fresh, Off}
    /\ Become(w, Fresh)
    /\ failures' = failures + 1
    /\ UNCHANGED <<delivery, enabled, acked, posts, retries>>

(* A lease (30 s) outlives every claim transaction (5 s) that was open     *)
(* when it began.                                                          *)
TimePasses(d) ==
    /\ delivery[d].next = "later"
    /\ delivery[d].status = "PROCESSING" =>
          \A w \in Workers : At(w, "claim") => d \notin wk[w].found
    /\ delivery' = [delivery EXCEPT ![d].next = "due"]
    /\ UNCHANGED <<enabled, wk, acked, posts, failures, retries>>

(* POST /admin/webhooks/deliveries/:id/retry: attempts are kept *)
AdminRetry(d) ==
    /\ retries < MaxRetries
    /\ delivery[d].status # "NONE"
    /\ SetRow(d, "PENDING", "due")
    /\ retries' = retries + 1
    /\ UNCHANGED <<enabled, wk, acked, posts, failures>>

(* PATCH /admin/webhooks/endpoints/:id *)
ToggleEndpoint ==
    /\ enabled' = ~enabled
    /\ UNCHANGED <<delivery, wk, acked, posts, failures, retries>>

(* The steps a running worker takes. *)
Work(w) ==
    \/ RequeueStaleProcessing(w) \/ ClaimFind(w) \/ ClaimCommit(w) \/ BatchDone(w)
    \/ \E d \in Deliveries : SkipDisabled(w, d) \/ StartAttempt(w, d)
    \/ \E outcome \in Outcomes, pc \in {"answered", "caught"} : Post(w, outcome, pc)
    \/ RecordSuccess(w) \/ FinishAttempt(w) \/ FailPermanent(w) \/ FailAndReschedule(w)

Next ==
    \/ \E w \in Workers : Work(w) \/ CaughtError(w) \/ Abandon(w)
    \/ \E d \in Deliveries : Enqueue(d) \/ TimePasses(d) \/ AdminRetry(d)
    \/ ToggleEndpoint

Spec == Init /\ [][Next]_vars

(* The loop runs on (every POST has a timeout, every error is caught), a   *)
(* stopped worker is started again, and time passes.                       *)
Fairness == /\ \A w \in Workers : WF_vars(Work(w))
            /\ \A d \in Deliveries : WF_vars(TimePasses(d))

FairSpec == Spec /\ Fairness

----------------------------------------------------------------------------
(* Type invariant. *)
Row == [status : Statuses, attempts : Nat, next : {"null", "due", "later"}]
Memory == [pc : PCs, found : SUBSET Deliveries, batch : SUBSET Deliveries,
           cur : Deliveries \cup {None}, tries : [Deliveries -> Nat],
           live : BOOLEAN, outcome : Outcomes]
TypeOK ==
    /\ delivery \in [Deliveries -> Row]
    /\ enabled \in BOOLEAN
    /\ wk \in [Workers -> Memory]
    /\ \A w \in Workers : wk[w].cur = None <=> wk[w].pc \in Idle
    /\ acked \in SUBSET Deliveries
    /\ posts \in [Workers -> [Deliveries -> Nat]]
    /\ failures \in 0..MaxFailures
    /\ retries \in 0..MaxRetries

(***************************************************************************)
(* The row never claims a success the endpoint did not give, and is never  *)
(* dead-lettered before its attempts are used up: whichever worker writes  *)
(* last, whatever crashed in between.                                      *)
(***************************************************************************)
SuccessIsAcked == \A d \in Deliveries : delivery[d].status = "SUCCESS" => d \in acked
DeadIsExhausted ==
    \A d \in Deliveries : delivery[d].status = "DEAD" => delivery[d].attempts >= MaxAttempts

(***************************************************************************)
(* Any number of workers, whose leases may expire while they work: no      *)
(* worker posts a delivery more than MaxAttempts times, nor more often     *)
(* than attempts were counted on its row (several may post on one count,   *)
(* see OneClaimer); and the count passes MaxAttempts by no more than one   *)
(* for each other worker, which had found the row before the last attempt  *)
(* was claimed and claims it when it is PENDING once more.                 *)
(***************************************************************************)
PostsBounded ==
    /\ \A w \in Workers, d \in Deliveries : /\ posts[w][d] <= MaxAttempts
                                            /\ posts[w][d] <= delivery[d].attempts
    /\ \A d \in Deliveries : delivery[d].attempts < MaxAttempts + Cardinality(Workers)

(***************************************************************************)
(* "so only one worker can claim" (comment in claimBatch): no delivery is  *)
(* in the hands of two workers.                                            *)
(***************************************************************************)
OneClaimer == \A v, w \in Workers : v # w => Held(v) \cap Held(w) = {}

(***************************************************************************)
(* An enqueued delivery is eventually settled, or parked: PENDING with all *)
(* its attempts used, which no claim selects (a crash or a database error  *)
(* in the last attempt, or an admin's retry of a DEAD row, leads there).   *)
(***************************************************************************)
Settled(d) == delivery[d].status \in {"SUCCESS", "FAILED", "DEAD"}
Parked(d) == delivery[d].status = "PENDING" /\ delivery[d].attempts >= MaxAttempts
EventuallySettledOrParked ==
    \A d \in Deliveries : delivery[d].status = "PENDING" ~> Settled(d) \/ Parked(d)
=============================================================================
