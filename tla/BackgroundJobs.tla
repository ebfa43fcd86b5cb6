--------------------------- MODULE BackgroundJobs ---------------------------
(***************************************************************************)
(* The BackgroundJob table and the worker loops that drain it              *)
(* (src/jobs/worker.ts), with the three kinds of job whose bodies write    *)
(* rows another job reads:                                                 *)
(*   JOB_MATCH_NOTIFY   matches a posted job to a provider in digest mode  *)
(*                      and sees to it that a digest job is scheduled;     *)
(*   JOB_MATCH_DIGEST   reports the matches not yet digested, stamps them; *)
(*   recurring jobs     (AI_MONTHLY_RESET, PROVIDER_STATS_RECOMPUTE) that  *)
(*                      see to it that their own next run is scheduled.    *)
(*                                                                         *)
(* A worker is a sequential loop, and every await on the database a step.  *)
(* Times are compared to now: runAt is "due" or "later", a lock "fresh" or *)
(* "stale" (older than the lease).  As in WebhookDelivery the claim is two *)
(* steps, for Postgres runs it READ COMMITTED.                             *)
(*                                                                         *)
(* One provider, of constant preferences, stands for all.  An admin hides  *)
(* posted jobs and shows them again: a hidden job is not matched, and what *)
(* was matched before is not counted by a digest.  Left out: immediate     *)
(* notifications and push messages, what the recurring jobs compute,       *)
(* lastError and lastAttemptAt.                                            *)
(***************************************************************************)
EXTENDS Naturals

CONSTANTS Notifies,    \* JOB_MATCH_NOTIFY rows, one for each job posted
          Digests,     \* slots for JOB_MATCH_DIGEST rows
          Recurrents,  \* slots for the rows of one recurring type
          Workers,     \* worker processes
          MaxAttempts, \* MaxAttempts[d]: BackgroundJob.maxAttempts
          MaxCrashes,  \* bound: crashes, and errors that reach the loop
          MaxHides,    \* bound: times an admin hides a job
          None         \* SQL NULL, or no row

Jobs == Notifies \cup Digests \cup Recurrents

ASSUME JobsAssumption ==
    /\ MaxAttempts \in [Jobs -> Nat \ {0}]
    /\ MaxCrashes \in Nat
    /\ MaxHides \in Nat
    /\ None \notin Jobs \cup Workers
    /\ Notifies \cap (Digests \cup Recurrents) = {}
    /\ Digests \cap Recurrents = {}

Statuses == {"NONE", "PENDING", "PROCESSING", "SUCCESS", "DEAD"}      \* NONE: no row
PCs == {"release", "find", "claim", "next", "ensure", "create", "match",
        "insert", "digest.find", "digest.create", "digest.write", "count", "announce",
        "stamp", "mark", "failed"}
Idle == {"release", "find", "claim", "next"}            \* no job in hand

VARIABLES
    job,       \* job[d]: status, runAt, attempts, lockedBy, and the age of lockedAt
    wk,        \* wk[w]: where the loop of w is, and what it holds in memory
    boot,      \* boot[w]: where the scheduling that w does when it starts is
    matched,   \* jobs with a JobMatchNotification row
    digested,  \* those of them with digestedAt set
    hidden,    \* posted jobs with Job.isHidden set
    reported,  \* history: matches that some digest notification counted
    skipped,   \* history: jobs that were hidden when they were to be matched
    died,      \* history: a recurring job was dead-lettered
    crashes,   \* crashes so far
    hides      \* jobs hidden so far

matches == <<matched, digested, reported, skipped>>
screen == <<hidden, hides>>
vars == <<job, wk, boot, matches, screen, died, crashes>>

NoRow == [status |-> "NONE", runAt |-> "due", attempts |-> 0, by |-> None, lock |-> "none"]
NewRow(runAt) == [NoRow EXCEPT !.status = "PENDING", !.runAt = runAt]

(* found: ids of the claim's SELECT; batch: rows still to run; cur: the    *)
(* one in hand; tries: attempts as the claim re-read them; seen: the       *)
(* digest row found; counted: matches counted; how: why the job failed.    *)
(* History: had and hid, the matches and the hidden jobs when a digest     *)
(* counted.                                                                *)
Fresh == [pc |-> "release", found |-> {}, batch |-> {}, cur |-> None,
          tries |-> [d \in Jobs |-> 0], seen |-> None, counted |-> {}, how |-> "error",
          had |-> {}, hid |-> {}]

Init == /\ job = [d \in Jobs |-> NoRow]
        /\ wk = [w \in Workers |-> Fresh]
        /\ boot = [w \in Workers |-> "find"]
        /\ matched = {} /\ digested = {} /\ reported = {} /\ skipped = {}
        /\ hidden = {} /\ hides = 0
        /\ died = FALSE
        /\ crashes = 0

At(w, pc) == wk[w].pc = pc
Become(w, s) == wk' = [wk EXCEPT ![w] = s]
Goto(w, pc) == Become(w, [wk[w] EXCEPT !.pc = pc])
NextJob(w) == Become(w, [Fresh EXCEPT !.pc = "next", !.batch = wk[w].batch,
                             !.tries = [wk[w].tries EXCEPT ![wk[w].cur] = 0]])
Fails(w, how) == Become(w, [wk[w] EXCEPT !.pc = "failed", !.how = how, !.seen = None,
                                         !.counted = {}, !.had = {}, !.hid = {}])

Live(d) == job[d].status \in {"PENDING", "PROCESSING"}
Finished(d) == job[d].status \in {"SUCCESS", "DEAD"}

(* Rows that can stand for a new digest or recurring row: finished rows    *)
(* that nobody refers to any more are used again (bound on the table).     *)
Slots(S) == {d \in S : /\ ~Live(d)
                       /\ \A w \in Workers : /\ d \notin wk[w].found \cup wk[w].batch
                                             /\ d \notin {wk[w].cur, wk[w].seen}}

Create(S) == \E d \in Slots(S) : job' = [job EXCEPT ![d] = NewRow("later")]

----------------------------------------------------------------------------
(* enqueueBackgroundJob, when a consumer posts a job *)
Enqueue(n) ==
    /\ job[n].status = "NONE"
    /\ job' = [job EXCEPT ![n] = NewRow("due")]
    /\ UNCHANGED <<wk, boot, matches, screen, died, crashes>>

(* releaseStaleLeases *)
ReleaseStaleLeases(w) ==
    /\ At(w, "release")
    /\ job' = [d \in Jobs |->
          IF job[d].status = "PROCESSING" /\ job[d].lock = "stale"
            THEN [job[d] EXCEPT !.status = "PENDING", !.by = None, !.lock = "none"]
            ELSE job[d]]
    /\ Goto(w, "find")
    /\ UNCHANGED <<boot, matches, screen, died, crashes>>

(* claimDueJobs: the SELECT of candidate ids *)
ClaimFind(w) ==
    LET candidates == {d \in Jobs : job[d].status = "PENDING" /\ job[d].runAt = "due"}
    IN  /\ At(w, "find")
        /\ IF candidates = {}
             THEN Goto(w, "release")
             ELSE Become(w, [wk[w] EXCEPT !.pc = "claim", !.found = candidates])
        /\ UNCHANGED <<job, boot, matches, screen, died, crashes>>

WorkerId(w) == w                                \* host name and pid: one per process

ClaimedRow_NoLockedAt(row, w) ==                                      \* mutant
    [row EXCEPT !.status = "PROCESSING", !.by = WorkerId(w)]
ClaimedRow(row, w) ==
    [row EXCEPT !.status = "PROCESSING", !.by = WorkerId(w), !.lock = "fresh"]

(* claimDueJobs: UPDATE ... WHERE id IN found AND status = PENDING (runAt  *)
(* is not looked at again), and the re-read of the found rows locked by w. *)
ClaimCommit(w) ==
    LET rows == [d \in Jobs |-> IF d \in wk[w].found /\ job[d].status = "PENDING"
                                  THEN ClaimedRow(job[d], w) ELSE job[d]]
        batch == {d \in wk[w].found : /\ rows[d].status = "PROCESSING"
                                      /\ rows[d].by = WorkerId(w)}
    IN  /\ At(w, "claim")
        /\ job' = rows
        /\ Become(w, [Fresh EXCEPT !.pc = "next", !.batch = batch,
                         !.tries = [d \in Jobs |-> IF d \in batch THEN rows[d].attempts
                                                                 ELSE 0]])
        /\ UNCHANGED <<boot, matches, screen, died, crashes>>

BatchDone(w) ==
    /\ At(w, "next")
    /\ wk[w].batch = {}
    /\ Become(w, Fresh)
    /\ UNCHANGED <<job, boot, matches, screen, died, crashes>>

(* processOne, by the type of the job *)
ProcessOne(w, d) ==
    /\ At(w, "next")
    /\ d \in wk[w].batch
    /\ Become(w, [wk[w] EXCEPT !.batch = @ \ {d}, !.cur = d,
                     !.pc = IF d \in Notifies THEN "match"
                            ELSE IF d \in Digests THEN "count" ELSE "ensure"])
    /\ UNCHANGED <<job, boot, matches, screen, died, crashes>>

----------------------------------------------------------------------------
(* Recurring jobs *)

Scheduled_AnyTime(d) == Live(d)                                       \* mutant
(* the query of ensureProviderStatsRecomputeScheduled and its twin *)
Scheduled(d) == Live(d) /\ job[d].runAt = "later"

EnsureFind(w) ==
    /\ At(w, "ensure")
    /\ Goto(w, IF \E d \in Recurrents : Scheduled(d) THEN "mark" ELSE "create")
    /\ UNCHANGED <<job, boot, matches, screen, died, crashes>>

EnsureCreate(w) ==
    /\ At(w, "create")
    /\ Create(Recurrents)
    /\ Goto(w, "mark")
    /\ UNCHANGED <<boot, matches, screen, died, crashes>>

(* The same two queries when a worker starts, beside its loop *)
BootFind(w) ==
    /\ boot[w] = "find"
    /\ boot' = [boot EXCEPT ![w] =
                  IF \E d \in Recurrents : Scheduled(d) THEN "done" ELSE "create"]
    /\ UNCHANGED <<job, wk, matches, screen, died, crashes>>

BootCreate(w) ==
    /\ boot[w] = "create"
    /\ Create(Recurrents)
    /\ boot' = [boot EXCEPT ![w] = "done"]
    /\ UNCHANGED <<wk, matches, screen, died, crashes>>

----------------------------------------------------------------------------
(* processJobMatchNotify: the posted job is read; no more if it is hidden. *)
MatchRead(w) ==
    /\ At(w, "match")
    /\ IF wk[w].cur \in hidden
         THEN Goto(w, "mark") /\ skipped' = skipped \cup {wk[w].cur}
         ELSE Goto(w, "insert") /\ UNCHANGED skipped
    /\ UNCHANGED <<job, boot, matched, digested, reported, screen, died, crashes>>

(* A provider who has a match row is not matched again, nor is a digest    *)
(* scheduled for that row again.                                           *)
MatchCommit(w) ==
    /\ At(w, "insert")
    /\ IF wk[w].cur \in matched
         THEN Goto(w, "mark") /\ UNCHANGED matched
         ELSE Goto(w, "digest.find") /\ matched' = matched \cup {wk[w].cur}
    /\ UNCHANGED <<job, boot, digested, reported, skipped, screen, died, crashes>>

(* ensureJobMatchDigestScheduled: the earliest live digest row.  It is     *)
(* left alone if it is PROCESSING or runs early enough.                    *)
DigestFind(w) ==
    LET live == {d \in Digests : Live(d)}
        first == {d \in live : job[d].runAt = "due" \/ \A e \in live : job[e].runAt = "later"}
    IN  /\ At(w, "digest.find")
        /\ \/ live = {} /\ Goto(w, "digest.create")
           \/ live # {} /\ Goto(w, "mark")
           \/ \E d \in first :
                 /\ job[d].status = "PENDING"
                 /\ job[d].runAt = "later"
                 /\ Become(w, [wk[w] EXCEPT !.pc = "digest.write", !.seen = d])
        /\ UNCHANGED <<job, boot, matches, screen, died, crashes>>

DigestCreate(w) ==
    /\ At(w, "digest.create")
    /\ Create(Digests)
    /\ Goto(w, "mark")
    /\ UNCHANGED <<boot, matches, screen, died, crashes>>

(* UPDATE ... WHERE id = seen, whatever the row has become: an earlier     *)
(* runAt, PENDING, no lock                                                 *)
DigestWrite(w) ==
    /\ At(w, "digest.write")
    /\ job' = [job EXCEPT ![wk[w].seen] =
                  [@ EXCEPT !.status = "PENDING", !.runAt = "later", !.by = None,
                            !.lock = "none"]]
    /\ Become(w, [wk[w] EXCEPT !.pc = "mark", !.seen = None])
    /\ UNCHANGED <<boot, matches, screen, died, crashes>>

----------------------------------------------------------------------------
(* processJobMatchDigest *)

DigestOrder_StampFirst(pc) ==                                         \* mutant
    [count |-> "stamp", stamp |-> "announce", announce |-> "mark"][pc]
(* what follows each of its awaits *)
DigestOrder(pc) == [count |-> "announce", announce |-> "stamp", stamp |-> "mark"][pc]

DigestPostponed(w) ==        \* interval not reached, or quiet hours
    /\ At(w, "count")
    /\ Fails(w, "reschedule")
    /\ UNCHANGED <<job, boot, matches, screen, died, crashes>>

(* SELECT count WHERE digestedAt IS NULL AND NOT job.isHidden *)
DigestCount(w) ==
    LET pending == (matched \ digested) \ hidden
    IN  /\ At(w, "count")
        /\ IF pending = {}
             THEN Goto(w, "mark")
             ELSE Become(w, [wk[w] EXCEPT !.pc = DigestOrder("count"), !.counted = pending,
                                          !.had = matched, !.hid = hidden])
        /\ UNCHANGED <<job, boot, matches, screen, died, crashes>>

DigestAnnounce(w) ==
    /\ At(w, "announce")
    /\ reported' = reported \cup wk[w].counted
    /\ Become(w, [wk[w] EXCEPT !.pc = DigestOrder("announce"), !.counted = {}])
    /\ UNCHANGED <<job, boot, matched, digested, skipped, screen, died, crashes>>

(* UPDATE ... WHERE digestedAt IS NULL, the matches of hidden jobs too *)
DigestStamp(w) ==
    /\ At(w, "stamp")
    /\ digested' = matched
    /\ Become(w, [wk[w] EXCEPT !.pc = DigestOrder("stamp"), !.had = {}, !.hid = {}])
    /\ UNCHANGED <<job, boot, matched, reported, skipped, screen, died, crashes>>

----------------------------------------------------------------------------
(* An await of the job's body, or of markSuccess, rejects *)
JobFails(w) ==
    /\ wk[w].cur # None
    /\ wk[w].pc # "failed"
    /\ Fails(w, "error")
    /\ UNCHANGED <<job, boot, matches, screen, died, crashes>>

Owns_Status(w, d) == job[d].status = "PROCESSING"                     \* mutant
(* the WHERE clause of markSuccess and markFailure *)
Owns(w, d) == job[d].status = "PROCESSING" /\ job[d].by = WorkerId(w)

(* Row d is written off its lock. *)
Settle(d, status, attempts, runAt) ==
    job' = [job EXCEPT ![d] = [status |-> status, runAt |-> runAt, attempts |-> attempts,
                               by |-> None, lock |-> "none"]]

MarkSuccess(w) ==
    LET d == wk[w].cur
    IN  /\ At(w, "mark")
        /\ IF Owns(w, d) THEN Settle(d, "SUCCESS", job[d].attempts, job[d].runAt)
                         ELSE UNCHANGED job
        /\ NextJob(w)
        /\ UNCHANGED <<boot, matches, screen, died, crashes>>

Rescheduled(w) ==
    LET d == wk[w].cur
    IN  /\ At(w, "failed")
        /\ wk[w].how = "reschedule"
        /\ IF Owns(w, d) THEN Settle(d, "PENDING", wk[w].tries[d], "later")
                         ELSE UNCHANGED job
        /\ NextJob(w)
        /\ UNCHANGED <<boot, matches, screen, died, crashes>>

Exhausted_OffByOne(attempts, d) == attempts + 1 >= MaxAttempts[d]     \* mutant
Exhausted(attempts, d) == attempts >= MaxAttempts[d]

Failed(w) ==
    LET d == wk[w].cur
        attempts == wk[w].tries[d] + 1
        dead == Exhausted(attempts, d)
    IN  /\ At(w, "failed")
        /\ wk[w].how = "error"
        /\ IF Owns(w, d)
             THEN IF dead THEN Settle(d, "DEAD", attempts, "due")
                          ELSE Settle(d, "PENDING", attempts, "later")
             ELSE UNCHANGED job
        /\ died' = (died \/ (d \in Recurrents /\ Owns(w, d) /\ dead))
        /\ NextJob(w)
        /\ UNCHANGED <<boot, matches, screen, crashes>>

----------------------------------------------------------------------------
(* An error outside the body of a job reaches the loop, which starts over. *)
LoopError(w) ==
    /\ crashes < MaxCrashes
    /\ wk[w].pc \in {"find", "claim", "failed"}
    /\ Become(w, Fresh)
    /\ crashes' = crashes + 1
    /\ UNCHANGED <<job, boot, matches, screen, died>>

(* The process dies and is started again. *)
Crash(w) ==
    /\ crashes < MaxCrashes
    /\ Become(w, Fresh)
    /\ boot' = [boot EXCEPT ![w] = "find"]
    /\ crashes' = crashes + 1
    /\ UNCHANGED <<job, matches, screen, died>>

RunAtPasses(d) ==
    /\ job[d].runAt = "later"
    /\ job' = [job EXCEPT ![d].runAt = "due"]
    /\ UNCHANGED <<wk, boot, matches, screen, died, crashes>>

(* A lease (30 s) outlives the claim transactions (5 s) open when it began. *)
LeaseExpires(d) ==
    /\ job[d].lock = "fresh"
    /\ \A w \in Workers : At(w, "claim") => d \notin wk[w].found
    /\ job' = [job EXCEPT ![d].lock = "stale"]
    /\ UNCHANGED <<wk, boot, matches, screen, died, crashes>>

(* An admin hides a posted job (or closes a report by that), or shows it.  *)
HideJob(n) ==
    /\ hides < MaxHides
    /\ job[n].status # "NONE" /\ n \notin hidden
    /\ hidden' = hidden \cup {n}
    /\ hides' = hides + 1
    /\ UNCHANGED <<job, wk, boot, matches, died, crashes>>

ShowJob(n) ==
    /\ n \in hidden
    /\ hidden' = hidden \ {n}
    /\ UNCHANGED <<job, wk, boot, matches, died, crashes, hides>>

Body(w) ==
    \/ EnsureFind(w) \/ EnsureCreate(w)
    \/ MatchRead(w) \/ MatchCommit(w) \/ DigestFind(w) \/ DigestCreate(w) \/ DigestWrite(w)
    \/ DigestPostponed(w) \/ DigestCount(w) \/ DigestAnnounce(w) \/ DigestStamp(w)

Loop(w) ==
    \/ ReleaseStaleLeases(w) \/ ClaimFind(w) \/ ClaimCommit(w) \/ BatchDone(w)
    \/ \E d \in Jobs : ProcessOne(w, d)
    \/ Body(w) \/ JobFails(w)
    \/ MarkSuccess(w) \/ Rescheduled(w) \/ Failed(w)

Next ==
    \/ \E w \in Workers : \/ Loop(w) \/ BootFind(w) \/ BootCreate(w)
                          \/ LoopError(w) \/ Crash(w)
    \/ \E n \in Notifies : Enqueue(n) \/ HideJob(n) \/ ShowJob(n)
    \/ \E d \in Jobs : RunAtPasses(d) \/ LeaseExpires(d)

Spec == Init /\ [][Next]_vars

(* Every await of the loop settles, a stopped worker is started again, and *)
(* time passes.                                                            *)
Fairness == /\ \A w \in Workers : WF_vars(Loop(w))
            /\ \A d \in Jobs : WF_vars(RunAtPasses(d)) /\ WF_vars(LeaseExpires(d))

FairSpec == Spec /\ Fairness

----------------------------------------------------------------------------
(* Type invariant. *)
Row == [status : Statuses, runAt : {"due", "later"}, attempts : Nat,
        by : Workers \cup {None}, lock : {"none", "fresh", "stale"}]
Memory == [pc : PCs, found : SUBSET Jobs, batch : SUBSET Jobs, cur : Jobs \cup {None},
           tries : [Jobs -> Nat], seen : Digests \cup {None},
           counted : SUBSET Notifies, how : {"error", "reschedule"},
           had : SUBSET Notifies, hid : SUBSET Notifies]
TypeOK ==
    /\ job \in [Jobs -> Row]
    /\ wk \in [Workers -> Memory]
    /\ \A w \in Workers : wk[w].cur = None <=> wk[w].pc \in Idle
    /\ boot \in [Workers -> {"find", "create", "done"}]
    /\ matched \subseteq Notifies
    /\ digested \subseteq matched
    /\ reported \subseteq matched
    /\ skipped \subseteq Notifies
    /\ hidden \subseteq Notifies
    /\ hides \in 0..MaxHides
    /\ died \in BOOLEAN
    /\ crashes \in 0..MaxCrashes

(***************************************************************************)
(* Whoever crashes or is overtaken, a JOB_MATCH_NOTIFY row is SUCCESS only *)
(* when its match was recorded (or its job was hidden when it was read),   *)
(* and DEAD only after MaxAttempts failures that were counted.             *)
(***************************************************************************)
FinishedForAReason ==
    \A n \in Notifies : /\ job[n].status = "SUCCESS" => n \in matched \cup skipped
                        /\ job[n].status = "DEAD" => job[n].attempts = MaxAttempts[n]

(***************************************************************************)
(* A worker that still owns a row it holds has the row's attempts: the     *)
(* count it will write is one more than the row's, and no failure of       *)
(* another worker is overwritten.                                          *)
(***************************************************************************)
Held(w) == wk[w].batch \cup ({wk[w].cur} \ {None})
OwnedIsCurrent ==
    \A w \in Workers : \A d \in Held(w) :
        job[d].by = w => wk[w].tries[d] = job[d].attempts

(***************************************************************************)
(* A fresh lock protects a row from every worker but its owner, except     *)
(* digest rows, which DigestWrite may take away.                           *)
(***************************************************************************)
Locked(d) == job[d].status = "PROCESSING" /\ job[d].lock = "fresh"
FreshLockProtects ==
    [][\A d \in Notifies \cup Recurrents :
          Locked(d) => \/ job'[d] = [job[d] EXCEPT !.runAt = job'[d].runAt,
                                                   !.lock = job'[d].lock]
                       \/ wk'[job[d].by] # wk[job[d].by]]_vars

(***************************************************************************)
(* A JOB_MATCH_NOTIFY row that is SUCCESS or DEAD is never run again.      *)
(***************************************************************************)
FinishedIsFinal ==
    [][\A n \in Notifies : Finished(n) => job'[n].status = job[n].status]_vars

(***************************************************************************)
(* A recurring job is never forgotten: once one was scheduled, and unless  *)
(* one was dead-lettered, one is waiting or running.                       *)
(***************************************************************************)
ChainAlive ==
    (\E d \in Recurrents : job[d].status # "NONE") /\ ~died => \E d \in Recurrents : Live(d)

(***************************************************************************)
(* A match is stamped as digested only if a digest notified to the         *)
(* provider counted it, unless the job was hidden when the digest that     *)
(* stamps it counted, or another worker recorded the match after that:     *)
(* however digests overlap, and however often one fails or dies after its  *)
(* notification and is run again.                                          *)
(***************************************************************************)
Passed(w, n) == At(w, "stamp") /\ (n \in wk[w].hid \/ n \notin wk[w].had)
DigestReportsAll ==
    [][\A n \in digested' \ digested :
          n \in reported \/ \E w \in Workers : Passed(w, n) /\ wk'[w] # wk[w]]_vars

(***************************************************************************)
(* "Digest providers accumulate and receive a digest notification at the   *)
(* configured interval" (docs/cutover-staging-to-prod.md): what is stamped *)
(* was reported, unless its job is hidden.                                 *)
(***************************************************************************)
ShownAreReported == digested \ hidden \subseteq reported

(***************************************************************************)
(* One worker: every JOB_MATCH_NOTIFY row ends SUCCESS or DEAD.            *)
(***************************************************************************)
EventuallyFinished == \A n \in Notifies : job[n].status = "PENDING" ~> Finished(n)

(***************************************************************************)
(* "Digest providers accumulate and receive a digest notification at the   *)
(* configured interval" (docs/cutover-staging-to-prod.md): a match whose   *)
(* JOB_MATCH_NOTIFY has succeeded is digested, or a digest job is there.   *)
(***************************************************************************)
MatchesScheduled ==
    \A n \in matched \ digested :
        job[n].status = "SUCCESS" => \E d \in Digests : Live(d)
=============================================================================
