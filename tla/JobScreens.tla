------------------------------ MODULE JobScreens ------------------------------
(***************************************************************************)
(* The screens of the mobile app that show a job and change it, in front   *)
(* of the server of JobLifecycle: what each screen offers for what it has  *)
(* loaded, and how its loads and its requests interleave with the steps    *)
(* of the server and with what other people do.                            *)
(*                                                                         *)
(*   myJob        app/consumer/job/[id].tsx                                *)
(*   bids         app/consumer/job/[id]/bids.tsx                           *)
(*   bidsOfList   screens/ConsumerJobBidsScreen.tsx, useConsumerJobBids.ts *)
(*   myJobOld     app/job/[id]/consumer.tsx                                *)
(*   jobDetail    app/job/[id].tsx                                         *)
(*   jobBids      app/job/[id]/bids.tsx                                    *)
(*   bidDetail    screens/BidDetailScreen.tsx                              *)
(*                                                                         *)
(* The first four are the consumer's, the others a provider's.  An offer   *)
(* is a pair <<act, provider>>: a button that can be pressed, and the      *)
(* provider whose bid it is about.  Forms opened by a button (bid, counter *)
(* offer, cancellation, dispute) are the button: their page validates the  *)
(* text, posts, and goes back, which makes the screen below load again.    *)
(*                                                                         *)
(* A behaviour is about one scene: "all", where the server runs freely and *)
(* every screen is compared with it, or one screen, a user and the state   *)
(* the job is in when he opens it.                                         *)
(***************************************************************************)
EXTENDS JobLifecycle

CONSTANTS Loads,       \* GET requests of the screen at one time
          Scenes,      \* bound: [view, me, job, bid, counter] of a behaviour
          MaxOpenings, \* bound: times the user opens or refreshes it
          MaxPresses,  \* bound: buttons he presses
          MaxOthers    \* bound: requests of other people, but in scene "all"

Acts == {"bid", "counter", "acceptCounter", "declineCounter", "award", "reject", "start",
         "mark", "confirm", "cancel", "dispute", "propose", "review", "message"}

ConsumerViews == {"myJob", "bids", "bidsOfList", "myJobOld"}
ProviderViews == {"jobDetail", "jobBids", "bidDetail"}
Views == ConsumerViews \cup ProviderViews

Scene == [view : Views \cup {"all"}, me : Users,
          job : [status : JobStatus, awarded : Providers \cup {None},
                 pendingFor : Users \cup {None}, completedAt : BOOLEAN],
          bid : [Providers -> OfferStatus], counter : [Providers -> OfferStatus],
          agreed : SUBSET Users]

Unbid == [p \in Providers |-> "NONE"]

(* A state in which the job is when nobody has a request under way, and in *)
(* scene "all" the one it begins in.                                       *)
Opened(s) ==
    /\ s.view = "all" => /\ s.job = [status |-> "OPEN", awarded |-> None, pendingFor |-> None,
                                     completedAt |-> FALSE]
                         /\ s.bid = Unbid /\ s.counter = Unbid
    /\ s.view \in ProviderViews <=> s.me \in Providers
    /\ s.job.awarded # None => s.bid[s.job.awarded] # "NONE"
    /\ s.job.status \notin {"OPEN", "CANCELLED"} =>
          s.job.awarded # None /\ s.bid[s.job.awarded] = "ACCEPTED"
    /\ s.job.status # "OPEN" => \A p \in Providers : s.bid[p] # "PENDING"
    /\ s.job.status \in {"OPEN", "AWARDED", "IN_PROGRESS"} => s.agreed = {}
    /\ s.job.status = "COMPLETED_PENDING_CONFIRMATION" =>
          /\ s.job.pendingFor \in {Consumer, s.job.awarded}
          /\ s.agreed = {Consumer, s.job.awarded} \ {s.job.pendingFor}

ASSUME JobScreensAssumption ==
    /\ \E r \in Requests : Requests = {r}      \* the handlers do not overlap
    /\ Scenes \subseteq Scene /\ \A s \in Scenes : Opened(s)

VARIABLES
    scene,
    shown,     \* what the screen shows, whether it was read after the user's last
               \*   request took effect, and whether the server said it, or None
    error,     \* its error state
    loading,   \* its loading flag
    load,      \* load[l]: a GET under way
    latest,    \* requestIdRef, counted by every screen, read by bids only
    post,      \* the POST under way, and how the last one ended
    budget,    \* bounds: openings, presses and others left
    overtaken  \* history: shown was read before, and answered after, the
               \*   answer to the user's last request

screen == <<shown, error, loading, load, latest, post, overtaken>>
jsVars == <<vars, scene, screen, budget>>

r1 == CHOOSE r \in Requests : TRUE
Me == scene.me
View == scene.view

NoLoad == [pc |-> "idle", id |-> 0, data |-> None, fresh |-> FALSE]
NoPost == [pc |-> "idle", act |-> None, ok |-> FALSE, again |-> FALSE, heard |-> "none"]

----------------------------------------------------------------------------
(* What the reads answer *)

(* GET /consumer/jobs/:jobId: awardedBid is the newest ACCEPTED bid,       *)
(* whichever provider the job was awarded to.                              *)
Named == IF \E p \in Providers : bid[p] = "ACCEPTED"
           THEN {p \in Providers : bid[p] = "ACCEPTED"} ELSE {None}
ConsumerJobData == {[status |-> job.status, mine |-> job.pendingFor = Consumer, named |-> p] :
                       p \in Named}

(* GET /provider/jobs/:jobId: the job, and the caller's own bid *)
ProviderJobData(me) == [status |-> job.status, mine |-> job.pendingFor = me,
                        bid |-> bid[me], counter |-> counter[me]]

(* GET /jobs/:jobId/bids *)
BidsData == [bid |-> bid, counter |-> counter]

Data(view, me) ==
    CASE view \in {"myJob", "myJobOld"} -> ConsumerJobData
      [] view = "bids" -> {[status |-> job.status, bid |-> bid, counter |-> counter]}
      [] view = "bidsOfList" -> {BidsData}
      [] OTHER -> {ProviderJobData(me)}

----------------------------------------------------------------------------
(* What the screens offer *)

When(cond, offers) == IF cond THEN offers ELSE {}
Engaged == {"AWARDED", "IN_PROGRESS"}
Disputable == {"IN_PROGRESS", "COMPLETED_PENDING_CONFIRMATION", "COMPLETED"}
Cancellable == {"OPEN", "AWARDED", "IN_PROGRESS"}

MyJobGates_AnyoneConfirms(d) ==                                       \* mutant
    When(d.status \in Cancellable, {"cancel"})
    \cup When(d.status = "IN_PROGRESS", {"mark"})
    \cup When(d.status = "COMPLETED_PENDING_CONFIRMATION", {"confirm"})

(* canCancel, canComplete, canConfirmComplete *)
MyJobGates(d) ==
    When(d.status \in Cancellable, {"cancel"})
    \cup When(d.status = "IN_PROGRESS", {"mark"})
    \cup When(d.status = "COMPLETED_PENDING_CONFIRMATION" /\ d.mine, {"confirm"})

MyJobDispute(d) == When(d.named # None /\ d.status \in Disputable, {"dispute"})
MyJobSchedule(d) == When(d.named # None /\ d.status \in Engaged, {"propose"})
MyJobAwarded(d) == When(d.named # None, {"message"})
MyJobReview(d) == When(d.named # None /\ d.status = "COMPLETED", {"review"})

MyJobOffers(d) == (MyJobGates(d) \cup MyJobDispute(d) \cup MyJobSchedule(d)
                   \cup MyJobAwarded(d) \cup MyJobReview(d)) \X {None}

MyJobOldOffers(d) == (When(d.status \in Cancellable, {"cancel"})
                      \cup When(d.status \in Disputable, {"dispute"})) \X {None}

(* acceptDisabled and counterLocked; acceptedBid is any ACCEPTED one *)
BidCard(d, p) ==
    LET accepted == {q \in Providers : d.bid[q] = "ACCEPTED"}
    IN  When(/\ d.status = "OPEN" /\ d.bid[p] = "PENDING" /\ d.counter[p] # "PENDING", {"award"})
        \cup When(/\ d.status = "OPEN" /\ d.bid[p] # "NONE" /\ d.bid[p] # "ACCEPTED"
                  /\ accepted = {}, {"counter"})

BidsOffers(d) == UNION {BidCard(d, p) \X {p} : p \in Providers}

(* Buttons of a PENDING bid, whatever its counter offer and the job's status *)
BidsOfListOffers(d) ==
    UNION {When(d.bid[p] = "PENDING", {"award", "reject"}) \X {p} : p \in Providers}

JobDetailCounter(d) == When(d.counter = "PENDING", {"acceptCounter", "declineCounter"})

(* canStartJob, canMarkComplete, canConfirmComplete *)
JobDetailWork(d) ==
    When(d.bid = "ACCEPTED",
         When(d.status = "AWARDED", {"start"})
         \cup When(d.status = "IN_PROGRESS", {"mark"})
         \cup When(d.status = "COMPLETED_PENDING_CONFIRMATION" /\ d.mine, {"confirm"})
         \cup When(d.status = "COMPLETED", {"review"}))

JobDetailSafety(d) ==
    When(d.bid = "ACCEPTED", When(d.status \in Disputable, {"dispute"})
                             \cup When(d.status \in Engaged, {"cancel"}))

(* bidLocked, canMessage *)
JobDetailBid(d) ==
    When(d.bid = "NONE" \/ (d.bid = "PENDING" /\ d.counter # "ACCEPTED"), {"bid"})
    \cup When(d.bid = "ACCEPTED" \/ d.status # "OPEN", {"message"})

JobDetailOffers(d) == JobDetailCounter(d) \cup JobDetailWork(d) \cup JobDetailSafety(d)
                      \cup JobDetailBid(d)

JobBidsOffers(d) == {"bid"} \cup When(d.counter = "PENDING", {"acceptCounter", "declineCounter"})

BidDetailEdit(d) == When(d.bid = "PENDING", {"bid"})
BidDetailPlace(d) == When(d.bid = "NONE", {"bid"})
BidDetailCounter(d) == When(d.counter = "PENDING", {"acceptCounter", "declineCounter"})

Offers(view, me, d) ==
    CASE view = "myJob" -> MyJobOffers(d)
      [] view = "myJobOld" -> MyJobOldOffers(d)
      [] view = "bids" -> BidsOffers(d)
      [] view = "bidsOfList" -> BidsOfListOffers(d)
      [] view = "jobDetail" -> JobDetailOffers(d) \X {me}
      [] view = "jobBids" -> JobBidsOffers(d) \X {me}
      [] view = "bidDetail" -> (BidDetailEdit(d) \cup BidDetailPlace(d) \cup BidDetailCounter(d)) \X {me}

----------------------------------------------------------------------------
(* What the server does with what they send *)

(* The other ones: who may schedule, review and write about this job *)
MayPropose == job.status \in Engaged /\ \E p \in Providers : bid[p] = "ACCEPTED"
MayReview(me) == /\ job.status = "COMPLETED" /\ ResolvedProviders # {None}
                 /\ me = Consumer \/ ResolvedProviders = {me}
MayMessage(me) == me = Consumer \/ (bid[me] # "NONE" /\ job.awarded \in {None, me})

(* A bid that is not PENDING, or whose counter offer is ACCEPTED, cannot   *)
(* be edited.                                                              *)
MayBid(me) == bid[me] \in {"NONE", "PENDING"} /\ counter[me] # "ACCEPTED"

(* Acts whose handlers JobLifecycle has: their guards, and how they begin  *)
Takes(me, act, p) ==
    CASE act = "bid" -> MayPlaceBid /\ MayBid(me)
      [] act = "counter" -> MayCounter(p)
      [] act = "acceptCounter" -> MayAcceptCounter(me)
      [] act = "declineCounter" -> MayDeclineCounter(me)
      [] act = "award" -> MayAward(p)
      [] act = "start" -> MayStart(me)
      [] act = "mark" -> MayMarkComplete(me)
      [] act = "confirm" -> MayConfirmComplete(me)
      [] act = "cancel" -> MayCancel(me)
      [] act = "dispute" -> MayDispute(me)
      [] OTHER -> FALSE                                 \* reject: no such route

Begins(me, act, p) ==
    CASE act = "bid" -> PlaceBidRead(r1, me)
      [] act = "counter" -> CounterRead(r1, p)
      [] act = "acceptCounter" -> AcceptCounterRead(r1, me)
      [] act = "declineCounter" -> DeclineCounterRead(r1, me)
      [] act = "award" -> AwardRead(r1, p)
      [] act = "start" -> StartRead(r1, me)
      [] act = "mark" -> MarkCompleteRead(r1, me)
      [] act = "confirm" -> ConfirmCompleteRead(r1, me)
      [] act = "cancel" -> CancelRead(r1, me)
      [] act = "dispute" -> OpenDisputeRead(r1, me)

(* With the server idle, the whole request succeeds. *)
Accepts(me, act, p) ==
    CASE act = "propose" -> MayPropose
      [] act = "review" -> MayReview(me)
      [] act = "message" -> MayMessage(me)
      [] act = "dispute" -> MayDispute(me) /\ ~\E d \in Disputes : Unresolved(d)
      [] OTHER -> Takes(me, act, p)

----------------------------------------------------------------------------
(* How the screens behave *)

(* An answer to a GET is dropped unless it is the latest's. *)
GuardsLoads(view) == view = "bids"

(* Forms go back to the screen, which then loads. *)
Forms == {"bid", "counter", "cancel", "dispute"}

ReloadsOnOk_NotConfirm(view, act) == act # "confirm"                  \* mutant
ReloadsOnOk(view, act) == view # "bidsOfList" \/ act \in Forms

ReloadsOnError_Never(view, act) == act \in Forms                      \* mutant
ReloadsOnError(view, act) == view = "myJob" \/ act \in Forms

(* A failed load takes what was shown away; these two screens keep it. *)
KeepsOnError(view) == view \in {"bidsOfList", "bidDetail"}

(* A failed request shows an error in the place of everything. *)
ErrorReplaces(view, act) == view = "jobDetail" /\ act \in {"acceptCounter", "declineCounter"}

(* Before a request, the consumer's page shows what it expects. *)
Expected(view, act, d) ==
    IF view = "myJob" /\ act = "mark"
      THEN [d EXCEPT !.status = "COMPLETED_PENDING_CONFIRMATION"] ELSE d

(* acceptBid: after the answer, the status of that bid only *)
Patched(d, p) == [d EXCEPT !.bid[p] = "ACCEPTED"]

----------------------------------------------------------------------------
InAll == View = "all"

JSInit ==
    /\ scene \in Scenes
    /\ job = scene.job /\ bid = scene.bid /\ counter = scene.counter
    /\ dispute = [d \in Disputes |-> [status |-> "NONE", ruling |-> None]]
    /\ agreed = scene.agreed
    /\ req = [r \in Requests |-> Blank]
    /\ shown = None /\ error = FALSE /\ loading = TRUE
    /\ load = [l \in Loads |-> NoLoad] /\ latest = 0
    /\ post = NoPost /\ overtaken = FALSE
    /\ budget = [openings |-> MaxOpenings, presses |-> MaxPresses, others |-> MaxOthers]

----------------------------------------------------------------------------
(* Loading *)

Free(l) == load[l].pc = "idle"
Asked(l) == [load EXCEPT ![l] = [NoLoad EXCEPT !.pc = "asked", !.id = latest + 1]]

(* The user comes to the screen, or presses refresh or retry. *)
Open(l) ==
    /\ ~InAll /\ budget.openings > 0 /\ Free(l)
    /\ load' = Asked(l)
    /\ latest' = latest + 1
    /\ loading' = TRUE /\ error' = FALSE
    /\ budget' = [budget EXCEPT !.openings = @ - 1]
    /\ UNCHANGED <<vars, scene, shown, post, overtaken>>

(* The server answers; the bids screen asks for the job, then for the bids. *)
ReadJob(l) ==
    /\ load[l].pc = "asked"
    /\ \E d \in Data(View, Me) :
          load' = [load EXCEPT ![l].pc = IF View = "bids" THEN "half" ELSE "read",
                               ![l].data = d, ![l].fresh = TRUE]
    /\ UNCHANGED <<vars, scene, shown, error, loading, latest, post, overtaken, budget>>

ReadBids(l) ==
    /\ load[l].pc = "half"
    /\ load' = [load EXCEPT ![l].pc = "read", ![l].data.bid = bid, ![l].data.counter = counter]
    /\ UNCHANGED <<vars, scene, shown, error, loading, latest, post, overtaken, budget>>

Dropped(l) == GuardsLoads(View) /\ load[l].id # latest

LoadAnswer(l) ==
    /\ load[l].pc = "read"
    /\ load' = [load EXCEPT ![l] = NoLoad]
    /\ IF Dropped(l)
         THEN UNCHANGED <<shown, loading, overtaken>>
         ELSE /\ shown' = [data |-> load[l].data, fresh |-> load[l].fresh, said |-> TRUE]
              /\ loading' = FALSE
              /\ overtaken' = (post.heard # "none" /\ ~load[l].fresh)
    /\ UNCHANGED <<vars, scene, error, latest, post, budget>>

LoadFailure(l) ==
    /\ ~Free(l)
    /\ load' = [load EXCEPT ![l] = NoLoad]
    /\ IF Dropped(l)
         THEN UNCHANGED <<shown, error, loading>>
         ELSE /\ shown' = IF KeepsOnError(View) THEN shown ELSE None
              /\ error' = TRUE
              /\ loading' = FALSE
    /\ UNCHANGED <<vars, scene, latest, post, overtaken, budget>>

----------------------------------------------------------------------------
(* Requests of the user *)

Posting == post.pc # "idle"

(* A button that is on the screen, and not disabled while a request is out *)
Press(o) ==
    /\ ~Posting /\ budget.presses > 0
    /\ shown # None /\ ~loading /\ ~(error /\ ~KeepsOnError(View))
    /\ o \in Offers(View, Me, shown.data) /\ o[1] \notin {"propose", "review", "message"}
    /\ post' = [NoPost EXCEPT !.pc = "asked", !.act = o]
    /\ shown' = [shown EXCEPT !.data = Expected(View, o[1], @),
                              !.said = @ /\ Expected(View, o[1], shown.data) = shown.data]
    /\ error' = FALSE
    /\ budget' = [budget EXCEPT !.presses = @ - 1]
    /\ UNCHANGED <<vars, scene, loading, load, latest, overtaken>>

Served(ok) == post' = [post EXCEPT !.pc = "served", !.ok = ok]

(* The server takes the request up, or refuses it. *)
Take ==
    /\ post.pc = "asked" /\ req[r1] = Blank
    /\ IF Takes(Me, post.act[1], post.act[2])
         THEN Begins(Me, post.act[1], post.act[2]) /\ post' = [post EXCEPT !.pc = "serving"]
         ELSE Served(FALSE) /\ UNCHANGED vars
    /\ UNCHANGED <<scene, shown, error, loading, load, latest, overtaken, budget>>

Stale(x) == IF x = None THEN None ELSE [x EXCEPT !.fresh = FALSE]

Step(r) == Bidding(r) \/ Working(r) \/ Disputing(r)

(* It goes on with it; what was read before a change is stale. *)
Serve ==
    /\ post.pc = "serving"
    /\ \/ Step(r1) /\ IF req'[r1] = Blank THEN Served(~At(r1, "dispute.find")) ELSE UNCHANGED post
       \/ Fail(r1) /\ Served(FALSE)
    /\ IF rows' = rows
         THEN UNCHANGED <<shown, load>>
         ELSE /\ shown' = Stale(shown)
              /\ load' = [l \in Loads |-> [load[l] EXCEPT !.fresh = FALSE]]
    /\ UNCHANGED <<scene, error, loading, latest, overtaken, budget>>

(* Everybody else, and the user on another device *)
Others ==
    /\ post.pc # "serving"
    /\ req[r1] = Blank /\ ~InAll => budget.others > 0
    /\ Step(r1) \/ Fail(r1)
    /\ budget' = IF req[r1] = Blank /\ ~InAll THEN [budget EXCEPT !.others = @ - 1] ELSE budget
    /\ UNCHANGED <<scene, screen>>

Reloads(heard) ==
    IF heard = "ok" THEN ReloadsOnOk(View, post.act[1]) ELSE ReloadsOnError(View, post.act[1])

(* The answer comes, or is lost: award is then tried by the other route. *)
Hear(heard) ==
    /\ post.pc = "served" /\ (heard = "ok" => post.ok)
    /\ IF heard = "error" /\ View = "bidsOfList" /\ post.act[1] = "award" /\ ~post.again
         THEN /\ post' = [post EXCEPT !.pc = "asked", !.again = TRUE]
              /\ UNCHANGED <<shown, error, loading, load, latest, overtaken>>
         ELSE /\ post' = [NoPost EXCEPT !.act = post.act, !.heard = heard]
              /\ overtaken' = FALSE
              /\ IF Reloads(heard)
                   THEN \E l \in Loads :
                           /\ Free(l) /\ load' = Asked(l) /\ latest' = latest + 1
                           /\ loading' = TRUE /\ error' = FALSE /\ UNCHANGED shown
                   ELSE /\ UNCHANGED <<load, latest, loading>>
                        /\ error' = (heard = "error" /\ ErrorReplaces(View, post.act[1]))
                        /\ shown' = IF View = "bidsOfList" /\ heard = "ok" /\ shown # None
                                      THEN [shown EXCEPT !.data = Patched(@, post.act[2])]
                                      ELSE shown
    /\ UNCHANGED <<vars, scene, budget>>

JSNext ==
    \/ \E l \in Loads : Open(l) \/ ReadJob(l) \/ ReadBids(l) \/ LoadAnswer(l) \/ LoadFailure(l)
    \/ \E a \in Acts, p \in Providers \cup {None} : Press(<<a, p>>)
    \/ Take \/ Serve \/ Others
    \/ \E h \in {"ok", "error"} : Hear(h)

JSSpec == JSInit /\ [][JSNext]_jsVars
----------------------------------------------------------------------------
(* Comparing every screen with the server, which is idle. *)
Idle == req[r1] = Blank
Shows(view, me, act) == \A d \in Data(view, me) : \E o \in Offers(view, me, d) : o[1] = act
UsersOf(view) == IF view \in ConsumerViews THEN {Consumer} ELSE Providers

(* The offers known to be refused: bids and answers to counter offers are  *)
(* offered whatever the job's status; an own bid that was ACCEPTED through *)
(* a counter offer passes for an award; anybody may write once a job is    *)
(* not OPEN; there is no route to reject a bid; a dispute whose opening    *)
(* failed half-way is not seen on the job.                                 *)
KnownRefusal(view, me, act, p) ==
    \/ act \in {"bid", "acceptCounter", "declineCounter"} /\ job.status # "OPEN"
    \/ act = "bid" /\ view = "jobBids"
    \/ view = "jobDetail" /\ bid[me] = "ACCEPTED" /\ job.awarded # me
    \/ view = "jobDetail" /\ act = "message"
    \/ act = "reject"
    \/ act = "dispute" /\ \E d \in Disputes : Unresolved(d)

(***************************************************************************)
(* A button that a screen enables, for what the server answers now, makes  *)
(* a request the server accepts, whatever has happened to the job, with    *)
(* the exceptions of KnownRefusal: the gates of seven screens, written     *)
(* against three read endpoints, agree with the guards of ten handlers.    *)
(***************************************************************************)
OffersAccepted ==
    InAll /\ Idle =>
        \A view \in Views : \A me \in UsersOf(view) : \A d \in Data(view, me) :
            \A o \in Offers(view, me, d) :
                Accepts(me, o[1], o[2]) \/ KnownRefusal(view, me, o[1], o[2])

(***************************************************************************)
(* Whoever a job waits for finds the button: the consumer can award a      *)
(* PENDING bid or its provider answer the counter offer, the awarded       *)
(* provider can start, both can say the work is done, and the one who has  *)
(* to confirm it, who takes part and has not agreed yet, can.              *)
(***************************************************************************)
TurnFound ==
    InAll /\ Idle =>
        /\ job.status = "OPEN" => \A p \in Providers : bid[p] = "PENDING" =>
              \/ \A d \in Data("bids", Consumer) : <<"award", p>> \in BidsOffers(d)
              \/ Shows("jobDetail", p, "acceptCounter")
        /\ job.status = "AWARDED" => Shows("jobDetail", job.awarded, "start")
        /\ job.status = "IN_PROGRESS" => /\ Shows("jobDetail", job.awarded, "mark")
                                         /\ Shows("myJob", Consumer, "mark")
        /\ SomeoneCanConfirm
        /\ job.status = "COMPLETED_PENDING_CONFIRMATION" =>
              IF job.pendingFor = Consumer THEN Shows("myJob", Consumer, "confirm")
              ELSE Shows("jobDetail", job.pendingFor, "confirm")

(***************************************************************************)
(* "many apps do that [decline other bids, change job status] when the     *)
(* CONSUMER accepts a bid, not here" (POST /bids/:bidId/counter/accept),   *)
(* and "Resolve the counter flow before awarding" (the bids screen): a bid *)
(* whose counter offer was accepted can then be awarded from a screen of   *)
(* the consumer.                                                           *)
(***************************************************************************)
CounterLeadsToAward ==
    InAll /\ Idle /\ job.status = "OPEN" =>
        \A p \in Providers : counter[p] = "ACCEPTED" =>
            \E view \in {"bids", "bidsOfList"} : \A d \in Data(view, Consumer) :
                <<"award", p>> \in Offers(view, Consumer, d)

----------------------------------------------------------------------------
Quiet == ~Posting /\ \A l \in Loads : Free(l)

(***************************************************************************)
(* Once the screen is quiet, what it shows was read after the user's last  *)
(* acknowledged request took effect (on the consumer's page, after the     *)
(* failed ones too), or answered to an earlier load, later: which cannot   *)
(* happen on the bids screen, where an answer to an earlier load is        *)
(* dropped.  The list of bids only shows that its own bid is ACCEPTED.  A  *)
(* reload that fails leaves an error, or what was shown before.            *)
(***************************************************************************)
OwnDoingShown ==
    /\ Quiet /\ shown # None /\ ~error
    /\ \/ post.heard = "ok"
       \/ post.heard = "error" /\ ReloadsOnError(View, post.act[1])
    =>
        \/ shown.fresh
        \/ overtaken /\ View # "bids"
        \/ View = "bidsOfList" /\ shown.data.bid[post.act[2]] = "ACCEPTED"

(***************************************************************************)
(* What a quiet screen shows, the server has said: the status the          *)
(* consumer's page expects of its request goes when the request fails, and *)
(* nobody else's bid is marked with the one accepted.                      *)
(***************************************************************************)
NothingInvented == Quiet /\ shown # None => shown.said

(***************************************************************************)
(* The job moves as JobContract says, whichever screens move it, and in    *)
(* scene "all" from its beginning.                                         *)
(***************************************************************************)
StrictMoves == (InAll => Contract!Init) /\ [][Contract!Next]_(Contract!vars)
=============================================================================
