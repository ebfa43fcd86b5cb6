# TLA+ models of the Home Hero backend and its app

Home Hero is a marketplace: a consumer posts a job, providers bid on it, one is
awarded, does the work, both sides confirm, and either side may open a dispute
that an admin resolves. The backend is a Node/TypeScript process (Express,
Prisma, Postgres, Redis) and a second process with two worker loops, one for
background jobs, one for outgoing webhooks. The users have a React Native app.

Nearly all state is in Postgres rows, and nearly every operation is *read rows,
check, await, write rows*. A unit test runs one request at a time and mocks
Prisma. What it hardly reaches is what these models are about: two requests or
two workers between each other's awaits, a process that dies between two
writes, a lease that expires while its holder still works, a retry of something
half done; and in the app, answers that come late, in another order, or never,
while the user goes on.

## Inventory

Paths are relative to `src/src/`, those of the app to `src/home-hero-mobile/`;
`schema.prisma` is `src/prisma/schema.prisma`.

| component | state | operations | interacts with | hard behaviour | what makes it correct | module |
|---|---|---|---|---|---|---|
| **Job lifecycle** (`server.ts`, `routes/job*.ts`, `services/jobFlowGuards.ts`) | Job, Bid, CounterOffer, Dispute rows | bid, counter, accept or decline it, award, start, mark, confirm, cancel, open / resolve / patch a dispute | enqueues webhooks and jobs; gates reviews, contact, appointments, messages | guards are checked on an earlier read than the write; disputes are two writes | follows the documented lifecycle; an engaged job has an awardee; nobody completes alone; the other bids are settled | JobLifecycle, JobContract |
| **Mobile job screens** (`app/job/*`, `app/consumer/job/*`, `src/screens/*Bid*`) | what was loaded, the request under way | load, press, reload | the handlers above | seven screens, ten handlers, three read endpoints, written apart | an offered step is accepted; whose turn it is finds the button; what is shown was said | JobScreens |
| **Outgoing webhooks** (`webhooks/*.ts`, `routes/adminWebhooks.ts`) | deliveries, endpoints, attempt log | enqueue, claim, post, settle or reschedule, requeue, retry, toggle | every part enqueues; the receiver is external | two workers, crash with a batch in memory, a lease that expires under its holder, error after SUCCESS | SUCCESS was answered 2xx; posts stay within the attempts counted; nothing is forgotten | WebhookDelivery |
| **Background jobs** (`jobs/*.ts`, `worker.ts`) | BackgroundJob | enqueue, release stale leases, claim, run, succeed / fail / postpone, self-schedule | runs matches, digests, resets | lease against a late worker; a chain of runs that must not end | the owner's word only; every job finishes; a recurring job is always there | BackgroundJobs |
| **Match notifications, digests, push, the bell** (`services/jobMatch*.ts`, `services/expoPush.ts`, `routes/notificationPreferences.ts`) | match rows, notifications, preferences, push tokens, dead letters | announce, count caps, insert, push in batches, receipts, mark read | job queue, Expo | two announcements at once; a job hidden between its match and the digest; a batch half refused; optimistic marks | told once; what is stamped was reported; caps but for what is in flight; no push twice or forgotten | Notices, BackgroundJobs |
| **Billing** (`routes/payments.ts`, `services/stripeService.ts`, `services/addonPurchasesV2.ts`) and **its checkout** (`src/screens/SubscriptionScreen.tsx`, modals, hooks) | events, payments, subscription, purchases; the modal and its request | create an intent, Stripe webhook, confirm; press Pay, sheet, close | Stripe (at least once, unordered) | event recorded before it is applied; an answer lost after the money moved | granted at most once, only if paid; a charge is answered for | Billing, Checkouts |
| **Lead quota** (`services/providerEntitlements.ts`) | subscription usage, lead credits | month rollover, consume a lead | bids, grants | check, then unconditional increment; the month turns | no credit lost or made up | Billing |
| **Accounts and login throttling** (`server.ts` 1693-2045, `routes/authLogin.ts`, `services/loginBruteForceProtector.ts`) | User, links, Redis counters | sign up, verify, log in, forget, reset | mailer, Redis | a link used twice at once; INCR and PEXPIRE are two commands | guesses and resets are bounded; counters expire | Accounts |
| **Appointments, contact exchange, reviews** (`server.ts`, `routes/contactExchange.ts`, `routes/jobReviews.ts`) | their rows, the provider's rating | propose, confirm, cancel; request, decide; review, recompute | awarded job | check, then write; aggregate, then write | off by no more than the requests in flight; the rating is that of the reviews | Engagement |
| **Messages and moderation** (`services/jobMessageSendModeration.ts`, `safety/*`, `routes/attachment*.ts`) | messages, security events, restrictions, read states, files | send, report, upload, block, mark read, count unread | job, contact exchange, storage | status and approval read long before the insert; file and row are two writes | contact data and banned keywords are gated; violations escalate; counts exact; files kept | Messaging |
| **Administration, risky posts, AI budget** (`server.ts`, `ai/aiGateway.ts`) | flags, audit events, monthly tokens | suspend, hide, restore, close a report; post a job; call | messages, users | row, then event; absolute writes after a call | the trail says how things stand; the budget is kept | Trust |
| **Search** (`routes/providersSearch.ts`) | cached ranking, cursors | pages of a search, of the feed | providers that change | ranking changes between pages | each provider that stood still is seen once | Discovery |
| **Lists and session of the app** (`app/(tabs)/*`, `context/*`) | rows shown, cursor, bubbles; token, user, subscription | load, refresh, load more, search, send, log in and out | list endpoints | answers late or out of order, a user who logs out meanwhile | no holes, no duplicates; what was sent stays; the user shown is that of the token | Screens, Client |
| **Workspace of a user and forms** (`src/screens/Provider*Screen.tsx`, `app/favorites`, `app/consumer/create-job.tsx`, ...) | rows of his own, form, flags | load, type, save, delete, toggle, submit, leave | routes in `server.ts` | loads and commands interleave; a command given up is served yet | a quiet page shows what is kept; what was entered is saved once | Workspace |
| Attestation (`attestation/*`, `middleware/requireAttestation.ts`) | short cache | verify | Google, Apple | - | - | - |
| Statistics, payouts, ad revenue | aggregates | recompute | recurring job | - | - | - |
| Configuration, logs, metrics, validation | none | - | - | - | - | - |

`PROJECT.json` lists the components in more detail, and 40 hazards, each at its
line with the properties that watch it.

## Plan

Done: everything above that names a module, and a theorem for every invariant
and action property of the passing runs. What is left, in order of worth:

1. An outbox as the abstract specification of the two queues: each item is
   handled at least once, and none after it is final.
2. The form of the notification preferences, the block button of a provider's
   page, the counters of `middleware/rateLimitRedis.ts` (same hazard as the
   throttle), the cache of the AI gateway.

## Modules

Every module has the same shape: an action per await, with the guards on the
rows as they are when read and the writes as the code makes them, mostly by id
and without a condition; history variables, said to be such, for properties
that speak of the past; bounds in the guards, named as constants.

### JobLifecycle (one job and the requests that change it)

`job`, `bid`, `counter` and `dispute` are the rows; `req[r]` is what request
`r` carries over its awaits (`pc` names the write it makes next). Each handler
is a `...Read` action and a `...Commit` action. A handler with more awaits that
matter has more actions: placing a bid reads the job, then the own bid, then
inserts in a transaction; opening a dispute looks for an open one, creates the
row, then flags the job; resolving reads the dispute, the job, writes the
dispute, writes the job. The statements of one `prisma.$transaction` are one
action; all of them run READ COMMITTED. Where an insert meets a unique key the
action is the refusal. `Fail` is a rejected query or the end of the process
between two awaits: the request is gone and what it wrote stays.

`agreed` is a history variable: who has marked or confirmed completion.

**JobContract** is the abstract lifecycle of `docs/production-readiness.md`
("Job lifecycle transition correctness"): atomic award, start, mark, confirm by
the *other* side, cancel, dispute, resolve. `StrictTransitions` says that
JobLifecycle implements it, under `status <- job.status, provider <- job.awarded`.

**JobScreens** composes JobLifecycle, with one request at a time, and the seven
screens of the app that show a job and change it. `Offers` are the buttons a
screen enables for what it has loaded, `Accepts` the guards of the handlers
(the `May...` operators of JobLifecycle, which its actions use too).
`KnownRefusal` names the offers known to be refused. A behaviour is about a
scene: "all" (the server runs freely and all screens are compared with it), or
one screen, its user and the state the job is in when it is opened; then loads,
presses, lost answers and what others do interleave. Forms opened by a button
are one press there; their own behaviour is in Workspace. `StrictMoves` is the
refinement of JobContract through this composition.

### WebhookDelivery (deliveries, worker loops, admin)

`wk[w]` is the memory of one worker loop. A worker requeues expired leases,
selects candidates, claims (the guarded UPDATE and the re-read of the same
transaction are one action, because the UPDATE waits for row locks and tests
the status again), then handles the batch one by one: skip if the endpoint was
disabled, log the attempt, post, record the outcome. A database error in the
`try` lands in the `catch`, which treats it like a failed POST. `Abandon` is the
death of the process or an error that reaches the loop. Time is whether
`nextAttempt` has passed, so a lease may expire while its holder is at any of
these points, and another worker requeues and claims the row. `posts[w][d]` is
history: how often a worker has posted a delivery. The outcomes of a batch are
written by id, without a condition, so a late one overwrites what another worker
has recorded meanwhile, a SUCCESS too. How many of `Workers` are started is left
open (`Off`). One endpoint.

### BackgroundJobs (queue, recurring jobs, match and digest)

The same structure with leases (`lockedBy`, `lockedAt`): here the re-read of
the claim and both final writes are restricted to the worker's own lock. The
bodies of three kinds of job are modelled, await by await, because they write
rows other jobs read: a match job records the match and finds, creates or
advances the digest job; a digest counts, notifies, stamps; a recurring job
looks for its scheduled successor and creates it. Matches are identified with
the match job that recorded them. An admin hides posted jobs and shows them
again (`hidden`): a match job reads that (`MatchRead`) before it records
(`MatchCommit`), a digest when it counts and lists, but not when it stamps. What
was there and hidden at the count (`had`, `hid`) and which match jobs found their
job hidden (`skipped`) is history. `boot[w]` is the one-off scheduling at the
start of a worker, which runs beside the loop.

### Notices (announcements, push, preferences, the bell)

Three areas, one in a behaviour. "match": `run[w]` is a worker that announces a
job, from the candidates over the rows that say who knows, the preferences and
the caps to the transaction that inserts notifications and match rows; a
concurrent announcement makes it conflict. "push": the batches of one send, with
each message's ticket and receipt (`fate`), what is to be sent again, pruned
tokens and dead letters, over several attempts, with the throttle of a user as
INCR and PEXPIRE. "bell": the list of one user, with optimistic marks and the
events sent for what was read.

### Billing and Checkouts (one provider's purchases and lead quota)

`intent` and `sent` are Stripe: a client pays or is refused and tries again,
and an event goes out for each. `payment` is the status of the rows of plans and
add-ons (lead packs, zip codes, badge), `seen` the recorded events, `hook[h]` a
webhook request, `sub`, `credits`, `featured` and `badge` what is granted. A
delivery is `RecordEvent` (the unique key admits each event once) and then a
`Grant...` or `ApplyFailed`; `FailHook` is an await that rejects or a process
that dies in between, after which the event stays recorded. Any sent event may
be delivered at any time to any request.

`bidder[b]` draws on the quota in the transaction of its bid, but READ
COMMITTED: the action that reads the subscription, the one that reads the
credits and the one whose write becomes visible are three, and grants and the
turn of the month come between them.

**Checkouts** puts the app in front: the tier it shows, the modal that is open,
and the one press of Pay with its intent, payment sheet and confirmation, each
of which may be lost, refused or given up, while the webhook grants when it
likes and the app may be killed. `told` is what the app has said of a purchase.

### Accounts (one account)

Sign-up, verification, login with its throttle, forgotten password and reset.
Each Redis command is an action: the ones a login still has to send are its
`todo`. bcrypt is a comparison, a link is one secret of a mail. `guesses` counts
the wrong passwords compared since the last cooldown, `uses` the resets by a link.

### Engagement (appointments, contact exchange, reviews)

One provider and his jobs. A request checks hours and conflicts and then writes
an appointment; looks for a pending contact request, its cooldown, and creates
one; writes a review, aggregates, writes the average. Deciding and confirming
are read, then written by id.

### Messaging and Trust

Messaging: a sender reads the job, the approval of the exchange and what was
sent before (a text is plain, the same again, or off the platform: contact data
or a banned keyword, which the code classifies apart and then treats alike), logs
a violation, counts the recent ones, is restricted, or inserts
the message, with its file stored first and undone if the insert fails. Times
are small numbers, for windows are compared: `Window` (10 minutes, messages and
reports), `JobWindow` (60, spam signals) and `PostWindow` (30, jobs posted); a message may be committed out of
the order of its time (`late`). A restriction is written as it was computed when
the violations were counted, even over a longer one written meanwhile; where that
leaves a user with less than what he did since asks for, or an admin lifts a
restriction, `pardoned` records it. Trust adds admins (row, then audit event), the
post of a risky job (created, then hidden by a second write), and the AI budget.
`Mixes` say which kinds of request occur together in a behaviour.

### Screens, Client, Discovery, Workspace (the app, and the search)

**Screens**: the paged lists of a thread, the inbox and the jobs to browse. A
row is its position on the server. `call[c]` is a request, answered at one time
and applied at another; `latest` is the request a screen's `requestIdRef` stands
for, where it has one. `text[t]` is a message being sent: its bubble and POST.

**Client** adds the stored token, GET /me, and the subscription fetched and
cached; every request reads the token when it is sent, after it was started.

**Discovery**: a consumer walks through the pages of a search, ranked or from
the cache, or of the feed, while providers change or are suspended.

**Workspace**: the pages on which a user keeps rows of his own (quick replies,
bid templates, saved searches, availability, verification, profile, favourites,
blocks) and the forms that send one thing and close (a job, a file, a report, a
review, a dispute, a cancellation, a bid, a counter offer), with the routes
behind them. A load shows what the server had when it was served; a command is
sent, served in one or two steps, and answered; the app may give it up while the
server serves it yet. On a form the text may be changed while it is sent, and
the user may go back and open it again, when its flag is off though the first
request is under way. `off` records that the page is known to show something
older, `lost` the entries whose command was given up.

The three have specifications of their own (`Spec`, `DiscoverySpec`, `WorkSpec`),
which the theorems are about; `MCClient` runs them in turn, one in a behaviour.
**Lists** gives what ORDER BY, `sort` and `filter` make of a set or a list. Its
operators say what the result is, not how it is computed, so that they can be
reasoned about.

## Runs

| run | instance | question | answer |
|---|---|---|---|
| `job_screens` | 1 request, which may die; 2 providers, 2 disputes; 13 scenes | do the handlers keep the contract when they do not overlap, and do the screens agree with them, whatever is lost or late? | yes, but for `KnownRefusal` |
| `job_concurrent` | 2 requests, 1 provider, 2 disputes | what survives when two requests interleave at every await? | an engaged job has an awardee with a bid, a COMPLETED job has the word of both sides or a ruling, a DISPUTED job can be decided (for two requests at once; not for three) |
| `webhooks` | 1 worker and 2 deliveries, or 2 workers and 1 delivery; 2 attempts, 2 failures, 1 admin retry | what holds when a lease expires under a worker, and is each delivery settled? | no worker posts one more often than the limit, or than attempts were counted, and the count passes the limit by one at most; settled, or *parked*: PENDING with its attempts used up, which no claim selects |
| `jobs_single` | 1 worker, 1 crash; 2 match jobs and a digest, or 1 of them that is hidden, or 2 recurring rows | does every match job finish, does a chain go on? | yes; a chain goes on with one worker, until it is dead-lettered |
| `jobs_pair` | 2 workers, 1 crash, 1 job hidden; 1 match job and a digest of 1 attempt, or 2 and one of 2 | what do leases guarantee when they expire under a working worker, and does a digest stamp only what was reported? | a fresh lock excludes others; a finished job is finished for a reason; yes, but for what was hidden when the digest counted, or matched by another worker after that |
| `billing` | 2 webhook requests, 1 failure, 1 refused card; another client with two plans, leads and zip codes and a bid while the month turns, or the app that buys two things and may lose 1 request | is a purchase granted at most once and only if paid, are credits accounted for, does the app pass over a charge? | yes, yes, no |
| `billing_retry` | 1 webhook request, 1 failure; a plan and a lead pack | is what was paid eventually granted? | no, see the finding |
| `accounts` | 2 requests, 3 links, 2 passwords, 1 crash | how far are throttle and links overshot? | by the requests in flight; a counter without expiry is a crash's |
| `engagement` | 2 requests, 2 jobs, 3 appointments, 2 overlapping slots, 1 failure | how far off is what was checked and then written? | by the requests in flight; the rating is right again after one recomputation alone |
| `trust` | 2 requests, 2 jobs, 3 messages, 4 events, 1 failure; the mixes of `MCMixes` | are contact data and keywords gated, do violations escalate, are counts, files, moderation and budget right? | yes, with the exceptions the properties name |
| `client` | 2 requests, 2 messages or commands, 3 rows (search: 3 providers; workspace: 2 rows, 2 entries), 1 failure | is what the app shows right, and is what was entered saved once? | yes, unless it shows an error or is known to be older |
| `notices` | 2 workers, 3 ads and 1 provider or 2 and 2; 3 tokens, batches of 2; 2 bells; 1 failure | told once, caps, pushes, bell? | yes; caps are overshot by the announcements under way |

### Bounds, and why they are enough

* *Two requests.* Nearly every hazard of the handlers is one write landing
  between another handler's read and write, and a third request repeats the
  second. Disputes are the exception: see the findings for what takes three.
  Requests end and start again, so any sequence of operations occurs.
* *Two providers* where a second bid matters, one where only the interleaving
  does. *Two disputes* so that one can be resolved while another is open.
  `UndyingSpec` (`job_concurrent`) leaves out `Fail`, which `job_screens` has.
* *Two attempts* (`MaxAttempts`), the least for which a first failure is
  rescheduled and a second is the last. *One or two crashes or failures*: a crash
  loses a worker's memory whatever it was; a second one hits the recovery.
* *`Mixes`, `Scenes`, `Visits`, `OneKind`* say what occurs together in one
  behaviour, so that unrelated areas do not multiply. `OneKind` in `jobs_single`
  cuts off only the creation of rows of the other kind and where a job is hidden,
  for which no fairness is assumed; the recurring rows share nothing with the others. `EveryVisit` gives
  lost requests to every page but the two with rows that are added and edited
  and the verification, where the state space is largest without them.
* `billing`: limits of 1, 2 and 3 leads keep FREE < BASIC < PRO (5, 100 and a
  million in the code) and are all reached. One turn of the month is what a
  request can carry an old month over.
* *Two workers* on one delivery (`OneOrPair`, which cuts off only `Enqueue`, for
  which no fairness is assumed), or on matches and their digest: a lease may
  expire at any point of its holder. In `jobs_pair` (`OneOrSmooth`) there is one
  match job with all that may go wrong, whose digest is not tried again, or two
  that neither fail nor lose their lease, whose digest does. `MaxHides` 1 hides
  a job before its match, between match and count, or after; it may be shown at
  any time. In `jobs_single` only the one match job there is is hidden, without a
  crash.
* `trust`: windows of 2 (`JobWindow` 3, so that the first restriction for jobs is
  no longer than it, as in the code: 30 minutes against 60) and thresholds of 2
  and 3 keep the order of the steps of the escalation; times up to 3 let a
  window of 2 pass. Four events are the least for
  which a restriction is overwritten by a shorter one that was computed earlier.
* `client`: pages of 2 rows and 3 rows give a full and a short page; `PageSize` 1
  with 3 providers gives three pages of a search; marks 1 and 2 and `Unknown`
  give better, equal, worse and unknown. `SavedMax` 1 reaches the limit.
* `notices`: `Bodies` are the PUTs that change what an announcement reads;
  `BatchSize` 2 with 3 tokens gives a full and a short batch.

Symmetry is used only in runs that check invariants and action properties, never
with a liveness property. Deadlock checking is off where the system may stop: a
CANCELLED job without disputes, a user who stops, everything paid and granted.

### Fairness

`WF` of each worker's loop, and of time. The loops are `for (;;)` with every
error caught and every wait bounded: the POST has a timeout (`postWithTimeout`),
Prisma queries settle, and the process is started again by its supervisor when
it dies. Nothing is assumed of requests, admins, endpoints (they may answer
badly for ever) or of which outcome a POST has. `EventuallySettledOrParked` and
`EventuallyFinished` rest on this. For `PaidIsGranted` Stripe delivers each event
until it is recorded (it repeats a delivery until it is answered 2xx) and a
webhook request goes on while its awaits settle; nobody is assumed to buy, pay or
bid. No other property needs fairness.

## Proofs

TLAPS proves these for every value of the constants that satisfies the named
assumptions of the modules, whatever the number of requests, providers, disputes,
deliveries, jobs and workers and the bounds on failures. The assumptions say what
the code has:

* who is who: the consumer does not bid on the own job, admins are others, a
  purchase is of one kind, NULL is no row, user, worker or link;
* constants of the code: `MaxAttempts`, thresholds, caps and batches are positive,
  the limits of leads do not fall with the tier (`getBaseLeadLimitForTier`), a
  rating is 1 to 5 (`routes/jobReviews.ts`), slots and months exist; a restriction
  of the escalation is at least as long as the window of messages and reports
  (30 minutes and more against 10, `services/jobMessageSendModeration.ts`; not as
  that of jobs, 60, of which `Escalates` says nothing), an
  unknown response time sorts after every known one, pages have a row at least;
* finite sets where a property counts or sorts: requests (Accounts, Engagement),
  jobs, lead packs, workers, announced jobs and devices (Notices), providers that
  are searched, rows of a workspace.

JobScreens has an assumption too (`JobScreensAssumption`): the server serves one
request at a time, and a scene opens on a state a job can be in with no request
under way (`Opened`): for instance that a job at work has an awardee whose bid is
ACCEPTED. The screens' theorems are for every set of such scenes.

Four theorems have a hypothesis of their own, and are false of the code without it:
`SerialRequests` (one request at a time), `TwoRequests` and `~MayFail` (at most
two, which end), `OneWorker` (`ChainsStayAlive`).

**JobLifecycle_proofs**

* `TypeCorrect` from `TypeInv`: types, and that a request at a given point
  carries the values its next write needs.
* `EngagedJobsHaveAwardee` from `EngagedInv`, which adds that a request past a
  guard implying an award (`AfterAward`) still finds `awarded # None`, since no
  handler sets it back to NULL, and that an award in flight names a real bid.
* `CompletionsAreJustified` from `JustifiedInv`: `pendingFor` names the side
  opposite to one that has agreed, and a confirmation or a ruling in flight has
  its justification already. This is why the unconditional write of a late
  confirmation, which may break the lifecycle, cannot make a completion unjust.
* `SerialRequestsAreStrict`: with at most one request in flight what a request
  has read is still true when it writes (`SerialInv`), so each step is a
  JobContract step or a stutter: a refinement proof. `SerialRequestsSettleBids`
  adds that an offer is under way only while the job is OPEN.
* `DisputesAreResolvable`, for two requests. `DecidableInv` follows a dispute
  that *lasts*: unresolved, and no PATCH in flight about to write back a RESOLVED
  it read earlier. A DISPUTED job has one, or a request about to unflag it; and
  while a request is about to flag the job, one lasts that the other request is
  not about to resolve (`Announceable`). Two may be needed for that: it is here
  that a third request breaks the invariant, and the property.

The same module proves the properties of JobScreens, for any number of loads,
openings, presses and other people's requests:

* `ScreensMoveStrictly` and `ScreensSettleBids`. What a screen sends begins a
  handler by an action of JobLifecycle, so a step of the composition is a step of
  the server or a stutter (`ServerMoves`), and the invariants above hold here
  (`ServerInv`). `ScreenOK` gives what that needs of the screen: the request
  under way is a button of its user (`Sendable`), loads are numbered up to the
  latest.
* `WhatIsOfferedIsAccepted` compares, screen by screen, what is enabled with the
  guards, from `ServerInv` and `DealInv`: while a job is OPEN nobody is declined,
  and a counter offer that waits, or was accepted, is on a bid that waits, or was
  accepted. `TurnsAreFound` needs `ServerInv` alone.
* `OwnDoingIsShown` from `OwnInv`: after the answer to a request the screen shows
  what it did, or a load that will is under way (`Coming`); on the bids screen the
  one awaited is the latest, and its first read came after the answer.
* `ScreensInventNothing` from `SaidInv`: what nobody has said stays only while the
  request for it, or the load after it, is under way.

**WebhookDelivery_proofs**, for any number of workers: one invariant `Inv` for
three theorems. It says of
each worker's memory (`WellFormed`) that it has a delivery in hand exactly while
it handles one, that a delivery about to be recorded as SUCCESS was acked, and
that the attempts a worker remembers are at most the row's, since the row's
count only grows; that last part makes `DeadLettersAreExhausted` true.
`PostsAreBounded` adds `PostsInv`: what a worker has yet to post it has posted
less often than its limit and than its row counts (`Paid`), since it posts each
delivery of a batch once and each batch rests on a claim later than its last; and
the count over the limit is paid for by workers that found the row before and
claim it yet (`Finders`).

**BackgroundJobs_proofs**: `TypeInv`; `OwnerInv` (a worker whose id is on a row
it holds has the row's attempts: another worker's claim puts another id there);
`ProgressInv` (a match job in hand past its transaction is matched);
`ReasonInv` (the count at DEAD). `FinishedStaysFinished` and `FreshLocksProtect`
are action properties proved from `TypeInv` step by step. So is
`DigestsReportAll`, from what each worker knows (`Informed`): of the matches there
were at its count, those not stamped since were counted by it or hidden, and once
it has announced, reported or hidden. For one worker `ChainsStayAlive`: a recurring row that runs is due, so the later row its body finds or creates is
another one and outlives it (`ChainInv`). That "due" is what a second worker
takes away.

**Billing_proofs**

* `TypeInv`, and `OnceInv` for `GrantsAsPaid` and the rest. `OnceInv` says that only
  what Stripe sent is recorded, that no two requests hold the same event (it is
  recorded once), and that a request with a success in hand is about to grant
  something that was not granted before; so there is one grant at most,
  although the guard on the status of a plan's row does not ensure it: a failed
  event that comes late sets the row back. `CreditsAreAccounted` adds a lemma on
  the cardinality of the set of granted packs, and rests on every write of the
  credits being an increment.
* `CheckoutsImplementBilling`: every step of the server with the app in front of
  it is a step of Billing or a stutter, so what is proved of Billing under any
  client holds under this one (`CheckoutsGrantAsPaid`).
* `ChargesAreAnswered`: at each stage of a press the intent is as far as that
  stage says (`Reached`), and nothing was said of it yet but an earlier error.

**Users_proofs**, on Accounts and on Notices

* `TypeCorrect` and `CountersHaveExpiry`. `CountersExpire` is not inductive: a
  request could end with commands unsent. `IInv` is `TypeOK`, `Unsent` (a request
  has Redis commands left only in that phase) and `CountersExpire`; lemmas say
  what a concatenation and a tail of commands still contain. A step either leaves
  Redis aside (lemma `Aside`) or runs one command (lemma `Redis`); only a failure
  may drop what was to be sent, and it says so in `lost`.
* `GuessesAreBounded`: guesses past the threshold are paid for by requests that
  have the cooldown still to set (`Coolers`) or died before.
* `ResetsAreBounded`: the uses of a link and the requests that hold it are
  together no more than the requests, for once the row is cleared nobody can find
  the link again.
* `NotifiesOnce` and `CapsAreKept` from `AnnounceInv`: a notification and its match
  row are one transaction, guarded by a unique key; and a count together with the
  workers that have passed the cap on the strength of it never exceeds the cap
  less one plus the number of workers. Lemmas give what an insert adds to a count
  and that a count falls as the window moves.
* `PushesAreAccounted` from `PushInv`: every message of a send is in exactly one
  heap (to be throttled, in the batch, with a ticket, to be retried, to be
  buried, in the batches that are left), has no fate as long as it is in one, and
  has one when it is in none. Lemmas on queues without repetition say what a tail,
  an append and a split do to a heap.
* `BellsAgree` from `BellInv`: what an answer on its way says is still so when it
  arrives, as nothing is unread again; a mark the server has not got is carried
  by a request (`MarksCarried`); who has read what is told or will be (`ReadsTold`).

**Engagement_proofs**: `TypeCorrect`. `RacesAreBounded` counts by injection: of
appointments that overlap and are confirmed, or about to be, each but one has a
request of its own (`Crowds`); requests for contact that are pending or about to
be created, and decisions made or about to be, are together no more than the
requests. `RatingIsCurrent`: a recomputation that is alone holds the aggregate as
it is, since whoever writes a review joins it and takes that mark away.

**Trust_proofs**, on Messaging and Trust

* `BudgetIsKept`: in a month without a race a call between its read and its charge
  is the only one and knows what was spent (`Knows`); and nothing of a month is
  spent while the counter or a call belongs to an earlier one, so a late reset
  loses nothing (`Unspent`).
* `ContactIsGated`: a job that is closed or shared stays so, therefore a request
  that passed the test on a job read long ago may insert (`Gated`).
* `FilesAreKept`: a request's file is its own, and stored from its upload on
  until it is attached or removed (`Owns`).
* `ModerationIsAccounted`: between an admin's write and his event the request says
  how the target stands, afterwards the trail does (`Accounted`); and a post that
  must be hidden has a request that will hide it (`PostsOwn`).
* `ViolationsEscalate` from `EscalationInv`. What a user did, as long as enough of
  it is recent, is still to be counted by a request, or part of a restriction in
  flight or written that `Covers` it: it ends after every later time at which
  enough would still be recent. One no shorter than the window covers all there
  is when it is computed. The attempt to prove this found that `Escalates` had
  been false beyond the bound of three events it was checked with: a shorter
  restriction computed earlier may be written last. `Impose` and `pardoned` now
  follow the code there.
* `ReadIsExact` from `ReadInv`: what the mark of a thread covers was there when
  the thread was read, but for late messages (`Marked`), and the time of a mark is
  none, or one at which the thread was empty, or that of a message at the latest
  (`Timely`), so that whatever comes in time comes after it. For the total of the inbox, lemmas say that
  nothing is missed by looking only at messages after the earliest mark
  (`SinceEarliest`, `CountsAll`), and that a page as long as the threads are many
  holds each of them (`PageWhole`).

**Client_proofs**, on Client, Screens, Discovery and Workspace. A theory of sorted
lists comes first: that each finite set has one, and what an element in front, a
tail or a filter makes of it. Where one would argue by induction it takes a least
counterexample instead, as elsewhere in these modules.

* `SessionsAgree` from `SessionInv`: of logins one at most is being stored, while
  no token is in use (`OpsAgree`), the user shown is that of the token in use
  (`TokenAgrees`), and an answer that may still be shown is that user's
  (`AnswersAgree`).
* `ListsAreWhole` from `ScreensInv`: every cursor is the position of a row
  (`CursorsMade`), no list or answer has a row twice (`NothingTwice`), and
  what a list or an answer holds is a window on the rows, without a hole from its
  newest down to its cursor (`PagesWhole`); an answer is appended only where the
  windows meet.
* `TextsAreShown` from the same: a message acknowledged by the server is shown, or
  a first page that will hold it is asked for or due (`TextsComing`).
* `WalksAreWhole` from `DiscoveryInv`: of the providers that stood still, those
  seen are exactly the ones the cursor has passed (`Walked`), and the cached
  ranking is in order, has all of them and says the truth about them.
* `SavesAreEntered` and `PagesAreCurrent` from `WorkInv`: what a request in any
  stage may hold (`LoadsFit`, `ActsFit`), how many commands a page lets be under
  way (`OneSave`, `OneRow`), that what a command counted is still so when
  it writes (`Counts`), and that a page that does not know itself older shows what is kept,
  but for what the commands under way will change (`ShownCurrent`,
  `FieldsCurrent`, `HeartsCurrent`). `OneField` is proved beside it: unless a
  command was given up, what was served of a profile stays until it is answered.

Some theorems (`SuccessesAreAcked`, `DeadLettersAreExhausted`,
`PaidAddonsStayPaid`, `OwnersAreCurrent`, `FinishedStaysFinished`) state properties
no run repeats: the proof is the stronger check.

Only model-checked: liveness (`EventuallySettledOrParked`, `EventuallyFinished`,
and `PaidIsGranted`, which the run refutes), out of the prover's reach. The library's
induction theorems are too; what would need them is proved by a least
counterexample, and no operator of the modules proved about is RECURSIVE.

## Findings

`billing_retry` is the disagreement with a run of its own: a Stripe event is
recorded before it is applied (`routes/payments.ts`), so when applying it fails
the retry is taken for a replay and nothing is granted, against
`docs/cutover-staging-to-prod.md`.

Others are stated by a definition that no listed run checks. To see one, give
the configuration named here that definition alone, as INVARIANT or PROPERTY:

| definition | instance | what the code does | who says otherwise |
|---|---|---|---|
| `StrictTransitions` | `MCJobConcurrent.cfg` | status checked on an earlier read, written by id: a cancellation between the two is overwritten (`routes/jobAward.ts`) | `docs/production-readiness.md`, lifecycle |
| `AwardDeclinesOthers` | 1 request, 2 providers | accepting a counter offer makes a bid ACCEPTED and leaves the job OPEN; awarding another declines only the PENDING ones. Screens and routes that take any ACCEPTED bid then mean the wrong one | comment in the award of `server.ts` |
| `CounterLeadsToAward` | `MCJobScreens.cfg` | after an accepted counter offer no screen awards that bid | comments at the accept of a counter in `server.ts` and in `app/consumer/job/[id]/bids.tsx` |
| `OneClaimer` | `MCWebhookDelivery.cfg` | the re-read after the guarded UPDATE asks for the ids and PROCESSING only: it returns the rows another worker has claimed too, and both post them, on one counted attempt | comments in `webhooks/worker.ts`: "only one worker can claim", "for multi-instance it's still safe" |
| `KeywordsBlocked` | `MCTrust.cfg` | the gate classifies keywords of payments and scams apart from contact data, but lets both through once the job is no longer OPEN or the exchange is approved; two tests expect that | comments in `services/contactExchangeGate.ts`: such keywords "should remain blocked", "this MUST return bypass=false"; that in `jobMessageSendModeration.ts` speaks of "scam-like keywords OR gate rejected" |
| `ShownAreReported` | `MCJobsPair.cfg` with one worker | a digest counts and lists the matches of jobs that are not hidden, and stamps those of hidden ones too (`services/jobMatchDigest.ts`): when an admin shows the job again, its match is never reported | `docs/cutover-staging-to-prod.md`: matches accumulate until a digest reports them |
| `MatchesScheduled` | 1 worker, 1 match job, 1 digest, 1 crash | a match job that fails after its commit schedules no digest when it is retried | `docs/cutover-staging-to-prod.md` |
| `StableContinuation` | Discovery, ranked | ties are broken by rating and reviews when sorting and by id only after a cursor; an unknown response time comes back from the cache as 0 | the pagination test of `routes/providersSearch.test.ts` |
| `PaidIsConfirmed` | `MCCheckouts.cfg` | confirming wants `metadata.userId`, intents of add-ons carry `providerId` only: a paid add-on is answered 403, and pressing again pays twice | comment in `server.ts` |

Three more states have no definition of their own. Opening and resolving a
dispute are two writes each, and `DisputedIsResolvable` is for requests that end,
at most two at a time. A process that dies between the writes of a resolution
leaves the dispute RESOLVED and the job DISPUTED, and every further try answers
409. Three requests come to the same without a crash: between the two writes of
one resolution another request creates a second dispute, and a third resolves
that one; when both resolutions are done the opener flags the job, which is then
DISPUTED without a dispute to decide. With two workers a recurring job that one
of them has just postponed may be taken by the other before it is due, as the
claim does not test `runAt` again; it mistakes itself for its successor and the
chain ends: `ChainAlive` is for one worker.

What the models had to follow, and a reader of the code may not expect:

* **Jobs.** The screens offer what the handlers refuse in the cases listed by
  `KnownRefusal`. An award whose answer is lost is followed by the fallback
  accept, which is refused: the app reports an error although it has awarded.
* **Payments.** Two bids at once may spend the same lead: `NoOverdraw`, added to
  `MCCheckouts.cfg`, holds with one bidder and fails with two. A plan granted in a new month does not reset the leads used. Two
  zip codes merged at once may lose one. The app announces success before the
  webhook has granted; GET /subscription reads fields the add-on grants never
  write. The cached subscription is not keyed by its user.
* **Messages.** The unread total is exact only when every thread was opened once.
  A message whose transaction commits after a later one is never counted
  unread. When the moderation itself fails, the message goes through.
* **Webhooks.** A worker whose lease expired writes its outcome late: PENDING or
  FAILED may replace another worker's SUCCESS, and the delivery is posted again.
  An admin's retry of a DEAD delivery does not reset its attempts.
* **Notices.** Quiet hours and caps drop an instant match for good. When a batch of
  pushes fails the later ones are neither sent nor dead-lettered. Each of two
  requests at once announces the same notification as read. GET of the
  preferences fails for a user without a row; PUT with only the interval turns
  digests off.
* **Search.** The feed skips a row when the row of its cursor is suspended since;
  the key of the cached ranking leaves out the limit.
* **Workspace.** A command the app gave up and the user repeats is stored twice. A
  late edit overwrites a newer one, a load that overtakes shows the older list, a
  form reloaded on focus loses what was typed. A heart or star tapped twice is
  two commands in any order; a failed one rolls back to the rows it saw. A user who
  goes back from a form while it is sent has its answer close whatever screen is
  open by then. Concurrent PUTs of an availability may leave both. A verified
  provider who submits again is PENDING again.
* **Throttle.** A crash between INCR and PEXPIRE leaves a counter that does not
  expire (`CountersExpire` excuses just that).

## Not modelled

In the modelled components: deleting an endpoint (its deliveries go with it) and
replaying a delivery (a new row, like `Enqueue`); the rows of the attempt log; the
legacy ADDON payments (no route creates their intents any more); the fallbacks
for databases that lack a migration; prices, texts, wording and the audit log
where no property reads it; the bodies of recurring jobs that only aggregate; the
cache of the AI gateway; the counters of `middleware/rateLimitRedis.ts`; the form
of the notification preferences; the block button of a provider's page;
`app/job/[id]/counter.tsx`, which no screen links to; screens that only read
(analytics, earnings, dashboards, the admin's listings). Discovery assumes a
radius and leaves the arithmetic of the score to the marks a provider has.

Components: matching, ranking, risk sums, the price suggestion and the classifier
are pure scoring, without state that several actors share; attestation is calls
to two vendors and a short cache; statistics, payouts and ad revenue are
aggregates a recurring job recomputes from nothing; configuration, logs, metrics
and validation keep no state; serving files is I/O.
