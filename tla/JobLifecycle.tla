---------------------------- MODULE JobLifecycle ----------------------------
(***************************************************************************)
(* One job of the marketplace with its bids, counter offers and disputes,  *)
(* and the HTTP requests that change them.                                 *)
(*                                                                         *)
(* Every handler has the shape                                             *)
(*     read rows; check guards; ...; write rows by id                      *)
(* with an await at each ";" and no condition in the write, so a request   *)
(* is a small process: the Read action of an operation evaluates its       *)
(* guards on the rows as they are then, and its Commit action writes       *)
(* whatever the rows have become since.  A guard that fails answers 4xx    *)
(* and changes nothing, so a Read action is enabled only when they pass.   *)
(* The statements of one prisma.$transaction are one Commit.               *)
(*                                                                         *)
(* Left out: notifications, webhook enqueues and the audit log (none       *)
(* feeds back into these rows), prices and texts and their moderation      *)
(* (which refuses a request before it reads the job), the lead a new bid   *)
(* costs (a quota of its own), the cancellation metadata columns, hiding,  *)
(* and the fallbacks for databases that lack a migration.                  *)
(***************************************************************************)
EXTENDS Naturals, FiniteSets

CONSTANTS Consumer,   \* the user who posted the job
          Providers,  \* users with role PROVIDER who may bid
          Admin,      \* a user with role ADMIN
          None,       \* SQL NULL
          Requests,   \* requests the server can be serving at one time
          Disputes,   \* dispute rows that can be created (bound)
          MayFail     \* TRUE: a request can die between two of its awaits

Users == {Consumer} \cup Providers

JobStatus == {"OPEN", "AWARDED", "IN_PROGRESS", "COMPLETED_PENDING_CONFIRMATION",
              "COMPLETED", "DISPUTED", "CANCELLED"}
OfferStatus == {"NONE", "PENDING", "ACCEPTED", "DECLINED"}   \* NONE: no row
DisputeStatus == {"NONE", "OPEN", "INVESTIGATING", "RESOLVED"}
Rulings == {"COMPLETED", "CANCELLED"}

ASSUME UsersAssumption ==
    /\ Consumer \notin Providers
    /\ Admin \notin Users
    /\ None \notin Users \cup Disputes \cup Rulings \cup {Admin}
    /\ MayFail \in BOOLEAN

VARIABLES
    job,      \* the Job row: status, awarded(ProviderId), pendingFor
              \*   (completionPendingForUserId), completedAt (TRUE: not NULL)
    bid,      \* bid[p]: status of p's bid, unique per (job, provider)
    counter,  \* counter[p]: status of the counter offer on p's bid
    dispute,  \* dispute[d]: status and resolutionJobStatus (ruling)
    req,      \* req[r]: what request r will do next, and the values it carries
    agreed    \* history: users who marked the job complete or confirmed it

rows == <<job, bid, counter, dispute, agreed>>
vars == <<job, bid, counter, dispute, agreed, req>>

----------------------------------------------------------------------------
(* Requests *)

PCs == {"idle", "bid.find", "bid.create", "counter.upsert", "counter.accept",
        "counter.decline", "award.commit", "start.commit", "mark.commit",
        "confirm.commit", "cancel.commit", "dispute.find", "dispute.create",
        "dispute.flag", "resolve.job", "resolve.commit", "resolve.flag",
        "patch.commit"}

Blank == [pc |-> "idle", user |-> None, provider |-> None, pendingFor |-> None,
          dispute |-> None, status |-> None]

(* Request r starts: its first read has passed every guard. *)
Begin(r, state) == req[r] = Blank /\ req' = [req EXCEPT ![r] = state]

(* Request r goes on after an await, or ends (with a response, or an error). *)
Continue(r, state) == req' = [req EXCEPT ![r] = state]
Finish(r) == Continue(r, Blank)
At(r, pc) == req[r].pc = pc

Init ==
    /\ job = [status |-> "OPEN", awarded |-> None, pendingFor |-> None,
              completedAt |-> FALSE]
    /\ bid = [p \in Providers |-> "NONE"]
    /\ counter = [p \in Providers |-> "NONE"]
    /\ dispute = [d \in Disputes |-> [status |-> "NONE", ruling |-> None]]
    /\ agreed = {}
    /\ req = [r \in Requests |-> Blank]

----------------------------------------------------------------------------
(* services/jobFlowGuards.ts *)

CanOpenDispute(s) == s \in {"IN_PROGRESS", "COMPLETED", "COMPLETED_PENDING_CONFIRMATION"}
CanMarkComplete(s) == s = "IN_PROGRESS"
CanConfirmComplete(s) == s = "COMPLETED_PENDING_CONFIRMATION"
CanCancelJob_NotFinal(s) == s \notin {"COMPLETED", "CANCELLED"}       \* mutant
CanCancelJob(s) == s \in {"OPEN", "AWARDED", "IN_PROGRESS"}

(* resolveParticipants: awardedProviderId, else the provider of any ACCEPTED bid *)
ResolvedProviders ==
    LET accepted == {p \in Providers : bid[p] = "ACCEPTED"}
    IN  IF job.awarded # None THEN {job.awarded}
        ELSE IF accepted # {} THEN accepted ELSE {None}

(* The providers u takes part with, himself if he is one *)
PartnersOf(u) == {p \in ResolvedProviders \ {None} : u \in {Consumer, p}}

----------------------------------------------------------------------------
(* Bidding and negotiation, while the job is OPEN *)

(* POST /jobs/:jobId/bids reads the job, then the provider's own bid.  An  *)
(* edit of a PENDING bid changes its price and text only, and ends there.  *)
MayPlaceBid == job.status = "OPEN"

PlaceBidRead(r, p) ==
    /\ MayPlaceBid
    /\ Begin(r, [Blank EXCEPT !.pc = "bid.find", !.provider = p])
    /\ UNCHANGED rows

PlaceBidFind(r) ==
    /\ At(r, "bid.find")
    /\ IF bid[req[r].provider] = "NONE"
         THEN Continue(r, [req[r] EXCEPT !.pc = "bid.create"])
         ELSE Finish(r)
    /\ UNCHANGED rows


(* @@unique([jobId, providerId]): the second create fails and rolls back *)
CreateBid(b, p) == IF b[p] = "NONE" THEN [b EXCEPT ![p] = "PENDING"] ELSE b

PlaceBidCommit(r) ==
    /\ At(r, "bid.create")
    /\ bid' = CreateBid(bid, req[r].provider)
    /\ Finish(r)
    /\ UNCHANGED <<job, counter, dispute, agreed>>

(* POST /bids/:bidId/counter *)
MayCounter(p) == bid[p] = "PENDING" /\ job.status = "OPEN" /\ counter[p] # "ACCEPTED"

CounterRead(r, p) ==
    /\ MayCounter(p)
    /\ Begin(r, [Blank EXCEPT !.pc = "counter.upsert", !.provider = p])
    /\ UNCHANGED rows

CounterUpsert(r) ==
    /\ At(r, "counter.upsert")
    /\ counter' = [counter EXCEPT ![req[r].provider] = "PENDING"]
    /\ Finish(r)
    /\ UNCHANGED <<job, bid, dispute, agreed>>

(* POST /bids/:bidId/counter/accept *)
MayAcceptCounter(p) == job.status = "OPEN" /\ counter[p] = "PENDING" /\ bid[p] = "PENDING"

AcceptCounterRead(r, p) ==
    /\ MayAcceptCounter(p)
    /\ Begin(r, [Blank EXCEPT !.pc = "counter.accept", !.provider = p])
    /\ UNCHANGED rows

AcceptCounterCommit(r) ==
    /\ At(r, "counter.accept")
    /\ counter' = [counter EXCEPT ![req[r].provider] = "ACCEPTED"]
    /\ bid' = [bid EXCEPT ![req[r].provider] = "ACCEPTED"]
    /\ Finish(r)
    /\ UNCHANGED <<job, dispute, agreed>>

(* POST /bids/:bidId/counter/decline does not look at the bid's status *)
MayDeclineCounter(p) == job.status = "OPEN" /\ counter[p] = "PENDING"

DeclineCounterRead(r, p) ==
    /\ MayDeclineCounter(p)
    /\ Begin(r, [Blank EXCEPT !.pc = "counter.decline", !.provider = p])
    /\ UNCHANGED rows

DeclineCounterCommit(r) ==
    /\ At(r, "counter.decline")
    /\ counter' = [counter EXCEPT ![req[r].provider] = "DECLINED"]
    /\ Finish(r)
    /\ UNCHANGED <<job, bid, dispute, agreed>>

----------------------------------------------------------------------------
(* Award, start, completion, cancellation *)

(* POST /jobs/:jobId/award and POST /jobs/:jobId/bids/:bidId/accept; the   *)
(* status of the chosen bid is not looked at.                              *)
MayAward(p) == job.status = "OPEN" /\ bid[p] # "NONE"

AwardRead(r, p) ==
    /\ MayAward(p)
    /\ Begin(r, [Blank EXCEPT !.pc = "award.commit", !.provider = p])
    /\ UNCHANGED rows

AwardedBids_OthersKept(b, p) == [b EXCEPT ![p] = "ACCEPTED"]          \* mutant

(* The chosen bid is accepted, the other PENDING ones are declined. *)
AwardedBids(b, p) ==
    [q \in Providers |-> IF q = p THEN "ACCEPTED"
                         ELSE IF b[q] = "PENDING" THEN "DECLINED" ELSE b[q]]

AwardCommit(r) ==
    /\ At(r, "award.commit")
    /\ bid' = AwardedBids(bid, req[r].provider)
    /\ job' = [job EXCEPT !.status = "AWARDED", !.awarded = req[r].provider]
    /\ Finish(r)
    /\ UNCHANGED <<counter, dispute, agreed>>

(* POST /jobs/:id/start *)
MayStart(p) == job.status = "AWARDED" /\ job.awarded = p

StartRead(r, p) ==
    /\ MayStart(p)
    /\ Begin(r, [Blank EXCEPT !.pc = "start.commit", !.user = p])
    /\ UNCHANGED rows

StartCommit(r) ==
    /\ At(r, "start.commit")
    /\ job' = [job EXCEPT !.status = "IN_PROGRESS"]
    /\ Finish(r)
    /\ UNCHANGED <<bid, counter, dispute, agreed>>

OtherParticipant_Self(u, p) == u                                      \* mutant
OtherParticipant(u, p) == IF u = Consumer THEN p ELSE Consumer

(* POST /jobs/:id/mark-complete by a participant *)
MayMarkComplete(u) == PartnersOf(u) # {} /\ CanMarkComplete(job.status)

MarkCompleteRead(r, u) ==
    \E p \in PartnersOf(u) :
        /\ CanMarkComplete(job.status)
        /\ Begin(r, [Blank EXCEPT !.pc = "mark.commit", !.user = u,
                         !.pendingFor = OtherParticipant(u, p)])
        /\ UNCHANGED rows

(* POST /jobs/:jobId/complete does the same, for the consumer alone. *)
CompleteRead(r) == MarkCompleteRead(r, Consumer)

MarkCompleteCommit(r) ==
    /\ At(r, "mark.commit")
    /\ job' = [job EXCEPT !.status = "COMPLETED_PENDING_CONFIRMATION",
                          !.pendingFor = req[r].pendingFor,
                          !.completedAt = FALSE]
    /\ agreed' = agreed \cup {req[r].user}
    /\ Finish(r)
    /\ UNCHANGED <<bid, counter, dispute>>

MayConfirm_Anyone(u) == TRUE                                          \* mutant

(* POST /jobs/:id/confirm-complete: only the user the job waits for *)
MayConfirm(u) == job.pendingFor = u

MayConfirmComplete(u) ==
    PartnersOf(u) # {} /\ CanConfirmComplete(job.status) /\ MayConfirm(u)

ConfirmCompleteRead(r, u) ==
    /\ MayConfirmComplete(u)
    /\ Begin(r, [Blank EXCEPT !.pc = "confirm.commit", !.user = u])
    /\ UNCHANGED rows

ConfirmCompleteCommit(r) ==
    /\ At(r, "confirm.commit")
    /\ job' = [job EXCEPT !.status = "COMPLETED", !.pendingFor = None,
                          !.completedAt = TRUE]
    /\ agreed' = agreed \cup {req[r].user}
    /\ Finish(r)
    /\ UNCHANGED <<bid, counter, dispute>>

(* POST /jobs/:jobId/cancel, by the consumer, the provider or an admin *)
MayCancel(u) ==
    /\ u \in {Consumer, Admin} \cup (ResolvedProviders \ {None})
    /\ CanCancelJob(job.status)
    /\ u \in Providers => job.status \in {"AWARDED", "IN_PROGRESS"}

CancelRead(r, u) ==
    /\ MayCancel(u)
    /\ Begin(r, [Blank EXCEPT !.pc = "cancel.commit", !.user = u])
    /\ UNCHANGED rows

CancelledJob_Released(j) == [j EXCEPT !.status = "CANCELLED", !.awarded = None]  \* mutant

(* awardedProviderId stays *)
CancelledJob(j) == [j EXCEPT !.status = "CANCELLED"]

CancelCommit(r) ==
    /\ At(r, "cancel.commit")
    /\ bid' = [p \in Providers |-> IF bid[p] = "NONE" THEN "NONE" ELSE "DECLINED"]
    /\ job' = CancelledJob(job)
    /\ Finish(r)
    /\ UNCHANGED <<counter, dispute, agreed>>

----------------------------------------------------------------------------
(* Disputes.  Opening and resolving write two rows, one await apart. *)

Unresolved(d) == dispute[d].status \in {"OPEN", "INVESTIGATING"}

(* POST /jobs/:jobId/disputes *)
MayDispute(u) == CanOpenDispute(job.status) /\ u \in {Consumer} \cup ResolvedProviders

OpenDisputeRead(r, u) ==
    /\ MayDispute(u)
    /\ \E d \in Disputes : dispute[d].status = "NONE"       \* bound: a row is left
    /\ Begin(r, [Blank EXCEPT !.pc = "dispute.find", !.user = u])
    /\ UNCHANGED rows

OpenDisputeFind(r) ==
    /\ At(r, "dispute.find")
    /\ IF \E d \in Disputes : Unresolved(d)
         THEN Finish(r)                                       \* 409
         ELSE Continue(r, [req[r] EXCEPT !.pc = "dispute.create"])
    /\ UNCHANGED rows

OpenDisputeCreate(r) ==
    /\ At(r, "dispute.create")
    /\ \E d \in Disputes :
          /\ dispute[d].status = "NONE"
          /\ dispute' = [dispute EXCEPT ![d].status = "OPEN"]
          /\ Continue(r, [req[r] EXCEPT !.pc = "dispute.flag", !.dispute = d])
    /\ UNCHANGED <<job, bid, counter, agreed>>

OpenDisputeFlag(r) ==
    /\ At(r, "dispute.flag")
    /\ job' = [job EXCEPT !.status = "DISPUTED"]
    /\ Finish(r)
    /\ UNCHANGED <<bid, counter, dispute, agreed>>

(* POST /admin/disputes/:id/resolve *)
ResolveRead(r, d, ruling) ==
    /\ Unresolved(d)
    /\ Begin(r, [Blank EXCEPT !.pc = "resolve.job", !.dispute = d, !.status = ruling])
    /\ UNCHANGED rows

ResolveReadJob(r) ==
    /\ At(r, "resolve.job")
    /\ IF job.status = "DISPUTED"
         THEN Continue(r, [req[r] EXCEPT !.pc = "resolve.commit"])
         ELSE Finish(r)                                       \* 400
    /\ UNCHANGED rows

ResolveCommit(r) ==
    /\ At(r, "resolve.commit")
    /\ dispute' = [dispute EXCEPT ![req[r].dispute] =
                      [status |-> "RESOLVED", ruling |-> req[r].status]]
    /\ Continue(r, [req[r] EXCEPT !.pc = "resolve.flag"])
    /\ UNCHANGED <<job, bid, counter, agreed>>

ResolveFlag(r) ==
    /\ At(r, "resolve.flag")
    /\ job' = [job EXCEPT !.status = req[r].status]
    /\ Finish(r)
    /\ UNCHANGED <<bid, counter, dispute, agreed>>

PatchStatuses_All == {"OPEN", "INVESTIGATING", "RESOLVED"}            \* mutant

(* What the body of PATCH /admin/disputes/:id may ask for *)
PatchStatuses == {"OPEN", "INVESTIGATING"}

(* PATCH /admin/disputes/:id: the status in the body, else the one it read *)
PatchDisputeRead(r, d, status) ==
    /\ dispute[d].status # "NONE"
    /\ status \in PatchStatuses \cup {dispute[d].status}
    /\ Begin(r, [Blank EXCEPT !.pc = "patch.commit", !.dispute = d, !.status = status])
    /\ UNCHANGED rows

PatchDisputeCommit(r) ==
    /\ At(r, "patch.commit")
    /\ dispute' = [dispute EXCEPT ![req[r].dispute].status = req[r].status]
    /\ Finish(r)
    /\ UNCHANGED <<job, bid, counter, agreed>>

----------------------------------------------------------------------------
(* An await rejects, or the process dies: the request does no more writes. *)
Fail(r) ==
    /\ MayFail
    /\ req[r] # Blank
    /\ Finish(r)
    /\ UNCHANGED rows

Bidding(r) ==
    \/ \E p \in Providers : \/ PlaceBidRead(r, p) \/ CounterRead(r, p)
                            \/ AcceptCounterRead(r, p) \/ DeclineCounterRead(r, p)
    \/ PlaceBidFind(r) \/ PlaceBidCommit(r) \/ CounterUpsert(r)
    \/ AcceptCounterCommit(r) \/ DeclineCounterCommit(r)

Working(r) ==
    \/ \E p \in Providers : AwardRead(r, p) \/ StartRead(r, p)
    \/ \E u \in Users : MarkCompleteRead(r, u) \/ ConfirmCompleteRead(r, u)
    \/ \E u \in Users \cup {Admin} : CancelRead(r, u)
    \/ CompleteRead(r)
    \/ AwardCommit(r) \/ StartCommit(r) \/ MarkCompleteCommit(r)
    \/ ConfirmCompleteCommit(r) \/ CancelCommit(r)

Disputing(r) ==
    \/ \E u \in Users : OpenDisputeRead(r, u)
    \/ \E d \in Disputes, s \in Rulings : ResolveRead(r, d, s)
    \/ \E d \in Disputes, s \in DisputeStatus : PatchDisputeRead(r, d, s)
    \/ OpenDisputeFind(r) \/ OpenDisputeCreate(r) \/ OpenDisputeFlag(r)
    \/ ResolveReadJob(r) \/ ResolveCommit(r) \/ ResolveFlag(r)
    \/ PatchDisputeCommit(r)

Next == \E r \in Requests : Bidding(r) \/ Working(r) \/ Disputing(r) \/ Fail(r)

Spec == Init /\ [][Next]_vars
----------------------------------------------------------------------------
(* Type invariant. *)
TypeOK ==
    /\ job \in [status : JobStatus, awarded : Providers \cup {None},
                pendingFor : Users \cup {None}, completedAt : BOOLEAN]
    /\ bid \in [Providers -> OfferStatus]
    /\ counter \in [Providers -> OfferStatus]
    /\ dispute \in [Disputes -> [status : DisputeStatus, ruling : Rulings \cup {None}]]
    /\ agreed \in SUBSET Users
    /\ req \in [Requests -> [pc : PCs, user : Users \cup {Admin, None},
                             provider : Providers \cup {None},
                             pendingFor : Users \cup {None},
                             dispute : Disputes \cup {None},
                             status : Rulings \cup DisputeStatus \cup {None}]]

(***************************************************************************)
(* However requests interleave and fail, a job that has left OPEN for      *)
(* anything but CANCELLED has an awarded provider, who bid on it: the      *)
(* completion, dispute, message and attachment handlers, which all derive  *)
(* the second participant from awardedProviderId, always find one.         *)
(***************************************************************************)
EngagedHasAwardee ==
    job.status \notin {"OPEN", "CANCELLED"} =>
        job.awarded # None /\ bid[job.awarded] # "NONE"

(***************************************************************************)
(* However requests interleave and fail, a job is COMPLETED only when both *)
(* sides said so (the consumer and a provider each marked or confirmed it) *)
(* or an admin has ruled on a dispute of it.                               *)
(***************************************************************************)
BothSidesAgreed == Consumer \in agreed /\ \E p \in Providers : p \in agreed
SomeRuling == \E d \in Disputes : dispute[d].ruling # None
JustifiedCompletion == job.status = "COMPLETED" => BothSidesAgreed \/ SomeRuling

(***************************************************************************)
(* With at most two requests at a time, none of which fails half-way, a    *)
(* DISPUTED job can be decided: it has a dispute an admin can still        *)
(* resolve, or one is being resolved.  (Without one, POST                  *)
(* /admin/disputes/:id/resolve answers 409 for ever.  Three requests can   *)
(* bring that about: between the two writes of a resolution another        *)
(* request creates a second dispute and a third one starts to resolve it;  *)
(* when both resolutions have ended, the second dispute flags the job.)    *)
(***************************************************************************)
DisputedIsResolvable ==
    job.status = "DISPUTED" => \/ \E d \in Disputes : Unresolved(d)
                               \/ \E r \in Requests : At(r, "resolve.flag")

(***************************************************************************)
(* One request at a time: while the job is engaged its awardee holds an    *)
(* ACCEPTED bid, and nobody is left waiting on a PENDING bid.              *)
(***************************************************************************)
BidsSettled ==
    /\ job.status \notin {"OPEN", "CANCELLED"} => bid[job.awarded] = "ACCEPTED"
    /\ job.status # "OPEN" => \A p \in Providers : bid[p] # "PENDING"

(***************************************************************************)
(* One request at a time: a job that waits for a confirmation waits for a  *)
(* participant who has not agreed yet, so that confirm-complete neither    *)
(* refuses everybody nor lets one side confirm its own claim.              *)
(***************************************************************************)
SomeoneCanConfirm ==
    job.status = "COMPLETED_PENDING_CONFIRMATION" =>
        job.pendingFor \in {Consumer, job.awarded} \ agreed

(***************************************************************************)
(* "accept chosen, decline others" (the comment on the accept handler):    *)
(* once a job is awarded no other provider's bid is ACCEPTED.              *)
(***************************************************************************)
AwardDeclinesOthers ==
    job.status = "AWARDED" => \A p \in Providers \ {job.awarded} : bid[p] # "ACCEPTED"

(***************************************************************************)
(* "Strict job state transitions ... must be enforced": the job's status,  *)
(* awardee and agreement move as JobContract says.                         *)
(***************************************************************************)
Contract == INSTANCE JobContract WITH status <- job.status, provider <- job.awarded
StrictTransitions == Contract!Spec
=============================================================================
