----------------------------- MODULE Engagement -----------------------------
(***************************************************************************)
(* What the two sides of an awarded job agree on besides the work itself:  *)
(* appointments (src/server.ts), the exchange of contact data              *)
(* (routes/contactExchange.ts) and reviews (routes/jobReviews.ts).         *)
(*                                                                         *)
(* Every handler checks something it has read and writes later, by id.     *)
(* All jobs have the same provider, as the calendar and the rating are     *)
(* his; "consumer" is the owner of the job in question.  Two reads in a    *)
(* row are one action where the first one can't change its answer any more *)
(* or where a later answer could only end the request.                     *)
(***************************************************************************)
EXTENDS Naturals, Sequences, FiniteSets

CONSTANTS Requests,    \* requests in flight at once
          Jobs,
          Appts,       \* rows of Appointment
          Slots,       \* pairs <<startAt, endAt>> anybody proposes
          Ratings,     \* stars anybody gives
          MaxContacts, \* bound: rows of ContactExchangeRequest per job
          MaxFailures, \* bound: rejected awaits
          Mixes,       \* bound: sets of <<kind, job>>, what is requested in one behaviour
          None         \* no job, no row

Kinds == {"appointment", "contact", "review"}

ASSUME EngagementAssumption ==
    /\ IsFiniteSet(Requests) /\ IsFiniteSet(Jobs)
    /\ Slots \subseteq Nat \X Nat /\ Slots # {}
    /\ Ratings \subseteq 1..5
    /\ MaxContacts \in Nat /\ MaxFailures \in Nat
    /\ Mixes \subseteq SUBSET (Kinds \X Jobs)
    /\ None \notin Jobs \cup Appts

VARIABLES
    stage,    \* stage[j]: the statuses of job j the handlers here tell apart
    awarded,  \* jobs with an awardedProviderId, which is never cleared
    hours,    \* slots within the provider's availability
    appt,     \* appt[a]: row of Appointment
    contact,  \* contact[j]: its requests to exchange contact data, oldest first
    cooling,  \* <<j, u>>: u asked for the contact data of j less than 10 minutes ago
    review,   \* review[j][side]: the stars that side gave, 0 without a row
    profile,  \* ProviderProfile: number and sum of the ratings
    req,      \* req[r]: where request r is and what it carries
    raced,    \* history: the profile was last written by overlapping reviews, or one died
    failures, \* failures so far
    mix       \* the member of Mixes this behaviour is about

places == <<stage, awarded>>
booking == <<hours, appt>>
exchange == <<contact, cooling>>
rating == <<review, profile, raced>>
vars == <<places, booking, exchange, rating, req, failures, mix>>

(* OPEN; AWARDED and IN_PROGRESS; COMPLETED; and the rest *)
Stages == {"open", "bookable", "completed", "other"}
ApptStatus == {"NONE", "PROPOSED", "CONFIRMED", "CANCELLED"}
ContactStatus == {"PENDING", "APPROVED", "REJECTED"}
Sides == {"consumer", "provider"}
Users == Sides \cup {"admin"}

Idle == [pc |-> "idle", op |-> "", job |-> None, row |-> None, slot |-> CHOOSE s \in Slots : TRUE,
         user |-> "admin", n |-> 0, seen |-> <<0, 0>>, alone |-> TRUE]
NoAppt == [status |-> "NONE", job |-> None, slot |-> Idle.slot, event |-> FALSE]

Init == /\ mix \in Mixes
        /\ stage = [j \in Jobs |-> "open"]
        /\ awarded = {}
        /\ hours = {}
        /\ appt = [a \in Appts |-> NoAppt]
        /\ contact = [j \in Jobs |-> <<>>]
        /\ cooling = {}
        /\ review = [j \in Jobs |-> [s \in Sides |-> 0]]
        /\ profile = <<0, 0>>
        /\ req = [r \in Requests |-> Idle]
        /\ raced = FALSE
        /\ failures = 0

May(kind, j) == <<kind, j>> \in mix

At(r, pc) == req[r].pc = pc
Become(r, s) == req' = [req EXCEPT ![r] = s]
Goto(r, pc) == Become(r, [req[r] EXCEPT !.pc = pc])
End(r) == Become(r, Idle)
GoOnIf(r, cond, pc) == IF cond THEN Goto(r, pc) ELSE End(r)

----------------------------------------------------------------------------
(* The job, which the handlers of JobLifecycle move *)

NextStages(s) == CASE s = "open" -> {"bookable", "other"}       \* award; cancel
                   [] s = "bookable" -> {"other"}               \* complete, cancel, dispute
                   [] s = "other" -> {"completed"}              \* confirm, resolve
                   [] s = "completed" -> {"other"}              \* dispute

JobMoves(j) ==
    /\ \E k \in Kinds : May(k, j)
    /\ stage[j] = "other" => j \in awarded
    /\ \E s \in NextStages(stage[j]) :
          /\ stage' = [stage EXCEPT ![j] = s]
          /\ awarded' = IF s = "bookable" THEN awarded \cup {j} ELSE awarded
    /\ UNCHANGED <<booking, exchange, rating, req, failures, mix>>

----------------------------------------------------------------------------
(* Appointments *)

(* PUT /provider/availability: delete and create in one transaction *)
PutAvailability(S) ==
    /\ \E j \in Jobs : May("appointment", j)
    /\ hours' = S
    /\ UNCHANGED <<places, appt, exchange, rating, req, failures, mix>>

Bookable(j) == stage[j] = "bookable"

ProposeRead(r, j, a, s) ==
    /\ At(r, "idle") /\ May("appointment", j)
    /\ appt[a].status = "NONE"
    /\ \A q \in Requests : req[q].row # a
    /\ Bookable(j)
    /\ Become(r, [Idle EXCEPT !.pc = "hours", !.op = "propose", !.job = j, !.row = a, !.slot = s])
    /\ UNCHANGED <<places, booking, exchange, rating, failures, mix>>

ConfirmRead(r, a) ==
    /\ At(r, "idle")
    /\ appt[a].status = "PROPOSED"
    /\ Become(r, [Idle EXCEPT !.pc = "job", !.op = "confirm", !.job = appt[a].job, !.row = a,
                              !.slot = appt[a].slot])
    /\ UNCHANGED <<places, booking, exchange, rating, failures, mix>>

ConfirmJob(r) ==
    /\ At(r, "job")
    /\ GoOnIf(r, Bookable(req[r].job), "hours")
    /\ UNCHANGED <<places, booking, exchange, rating, failures, mix>>

(* assertProviderAvailableAndNoConflicts: two reads *)
HoursRead(r) ==
    /\ At(r, "hours")
    /\ GoOnIf(r, req[r].slot \in hours, "conflict")
    /\ UNCHANGED <<places, booking, exchange, rating, failures, mix>>

Overlap(s, t) == s[1] < t[2] /\ s[2] > t[1]

Conflict(a, s) == \E b \in Appts \ {a} : appt[b].status = "CONFIRMED" /\ Overlap(appt[b].slot, s)

ConflictRead(r) ==
    /\ At(r, "conflict")
    /\ GoOnIf(r, ~Conflict(req[r].row, req[r].slot), "book")
    /\ UNCHANGED <<places, booking, exchange, rating, failures, mix>>

(* The insert of a proposal, the update of a confirmation *)
Book(r) ==
    LET a == req[r].row
    IN  /\ At(r, "book")
        /\ appt' = [appt EXCEPT ![a] =
               IF req[r].op = "propose"
                 THEN [NoAppt EXCEPT !.status = "PROPOSED", !.job = req[r].job, !.slot = req[r].slot]
                 ELSE [@ EXCEPT !.status = "CONFIRMED"]]
        /\ End(r)
        /\ UNCHANGED <<places, hours, exchange, rating, failures, mix>>

CancelRead(r, a) ==
    /\ At(r, "idle")
    /\ appt[a].status \in {"PROPOSED", "CONFIRMED"}
    /\ Become(r, [Idle EXCEPT !.pc = "cancel", !.row = a])
    /\ UNCHANGED <<places, booking, exchange, rating, failures, mix>>

CancelWrite(r) ==
    /\ At(r, "cancel")
    /\ appt' = [appt EXCEPT ![req[r].row].status = "CANCELLED"]
    /\ End(r)
    /\ UNCHANGED <<places, hours, exchange, rating, failures, mix>>

EventRead(r, a) ==
    /\ At(r, "idle")
    /\ appt[a].status = "CONFIRMED"
    /\ Become(r, [Idle EXCEPT !.pc = "event", !.row = a])
    /\ UNCHANGED <<places, booking, exchange, rating, failures, mix>>

EventWrite(r) ==
    /\ At(r, "event")
    /\ appt' = [appt EXCEPT ![req[r].row].event = TRUE]
    /\ End(r)
    /\ UNCHANGED <<places, hours, exchange, rating, failures, mix>>

----------------------------------------------------------------------------
(* Contact exchange *)

Pending(j) == {i \in DOMAIN contact[j] : contact[j][i].status = "PENDING"}
Creating(j) == {r \in Requests : req[r].op = "contact" /\ req[r].job = j}

(* findFirst PENDING, whoever asked: 409 *)
Free_OwnOnly(j, u) == \A i \in Pending(j) : contact[j][i].by # u      \* mutant
Free(j, u) == Pending(j) = {}

ContactFind(r, j, u) ==
    /\ At(r, "idle") /\ May("contact", j)
    /\ j \in awarded
    /\ Len(contact[j]) + Cardinality(Creating(j)) < MaxContacts
    /\ Free(j, u)
    /\ Become(r, [Idle EXCEPT !.pc = "cooldown", !.op = "contact", !.job = j, !.user = u])
    /\ UNCHANGED <<places, booking, exchange, rating, failures, mix>>

(* The last request of this user *)
ContactCooldown(r) ==
    /\ At(r, "cooldown")
    /\ GoOnIf(r, <<req[r].job, req[r].user>> \notin cooling, "ask")
    /\ UNCHANGED <<places, booking, exchange, rating, failures, mix>>

ContactCreate(r) ==
    LET j == req[r].job
    IN  /\ At(r, "ask")
        /\ contact' = [contact EXCEPT ![j] =
                          Append(@, [by |-> req[r].user, status |-> "PENDING", decisions |-> 0])]
        /\ cooling' = cooling \cup {<<j, req[r].user>>}
        /\ End(r)
        /\ UNCHANGED <<places, booking, rating, failures, mix>>

CooldownPasses(j, u) ==
    /\ <<j, u>> \in cooling
    /\ cooling' = cooling \ {<<j, u>>}
    /\ UNCHANGED <<places, booking, contact, rating, req, failures, mix>>

Decidable(j, u) == {i \in Pending(j) : contact[j][i].by # u}

(* The newest PENDING request of somebody else *)
DecideFind(r, j, u, d) ==
    /\ At(r, "idle") /\ May("contact", j)
    /\ \E i \in Decidable(j, u) :
          /\ \A k \in Decidable(j, u) : k <= i
          /\ Become(r, [Idle EXCEPT !.pc = d, !.job = j, !.n = i])
    /\ UNCHANGED <<places, booking, exchange, rating, failures, mix>>

Decided(c, d) == [by |-> c.by, status |-> d, decisions |-> c.decisions + 1]

(* By id, whatever the row has become *)
DecideWrite(r) ==
    LET j == req[r].job
        i == req[r].n
    IN  /\ req[r].pc \in {"APPROVED", "REJECTED"}
        /\ contact' = [contact EXCEPT ![j][i] = Decided(@, req[r].pc)]
        /\ End(r)
        /\ UNCHANGED <<places, booking, cooling, rating, failures, mix>>

----------------------------------------------------------------------------
(* Reviews *)

(* What a provider gives is aggregated nowhere: it is one number here. *)
StarsBy(side) == IF side = "consumer" THEN Ratings ELSE {CHOOSE n \in Ratings : TRUE}

InWindow(q) == req[q].pc \in {"aggregate", "upsert"}

(* COMPLETED, an awarded provider, and a side of the job *)
ReviewRead(r, j, side, n) ==
    /\ At(r, "idle") /\ May("review", j) /\ n \in StarsBy(side)
    /\ stage[j] = "completed" /\ j \in awarded
    /\ Become(r, [Idle EXCEPT !.pc = "find", !.job = j, !.user = side, !.n = n])
    /\ UNCHANGED <<places, booking, exchange, rating, failures, mix>>

ReviewFind(r) ==
    /\ At(r, "find")
    /\ Goto(r, IF review[req[r].job][req[r].user] = 0 THEN "create" ELSE "update")
    /\ UNCHANGED <<places, booking, exchange, rating, failures, mix>>

(* Only a review of the provider changes his rating. *)
Recomputes_NewOnly(r) == req[r].user = "consumer" /\ At(r, "create")  \* mutant
Recomputes(r) == req[r].user = "consumer"

(* The insert is refused if the reviewer's row exists by now. *)
ReviewWrite(r) ==
    LET j == req[r].job
        side == req[r].user
        refused == At(r, "create") /\ review[j][side] # 0
        alone == ~\E q \in Requests \ {r} : InWindow(q)
    IN  /\ req[r].pc \in {"create", "update"}
        /\ review' = IF refused THEN review ELSE [review EXCEPT ![j][side] = req[r].n]
        /\ IF refused \/ ~Recomputes(r)
             THEN End(r)
             ELSE req' = [q \in Requests |->
                             IF q = r THEN [req[r] EXCEPT !.pc = "aggregate", !.alone = alone]
                             ELSE IF InWindow(q) THEN [req[q] EXCEPT !.alone = FALSE]
                             ELSE req[q]]
        /\ UNCHANGED <<places, booking, exchange, profile, raced, failures, mix>>

(* Number and sum of the consumers' ratings; the average is their quotient. *)
AggregateOf(stars) ==
    LET given(n) == Cardinality({j \in Jobs : stars[j] = n})
    IN  <<Cardinality({j \in Jobs : stars[j] # 0}),
          given(1) + 2 * given(2) + 3 * given(3) + 4 * given(4) + 5 * given(5)>>

Aggregate == AggregateOf([j \in Jobs |-> review[j]["consumer"]])

(* recomputeProviderRating: a read and an absolute write *)
AggregateRead(r) ==
    /\ At(r, "aggregate")
    /\ Become(r, [req[r] EXCEPT !.pc = "upsert", !.seen = Aggregate])
    /\ UNCHANGED <<places, booking, exchange, rating, failures, mix>>

ProfileUpsert(r) ==
    /\ At(r, "upsert")
    /\ profile' = req[r].seen
    /\ raced' = ~req[r].alone
    /\ End(r)
    /\ UNCHANGED <<places, booking, exchange, review, failures, mix>>

----------------------------------------------------------------------------
(* An await of r rejects, or the process ends: what was written stays. *)
Fail(r) ==
    /\ ~At(r, "idle")
    /\ failures < MaxFailures
    /\ failures' = failures + 1
    /\ raced' = (raced \/ InWindow(r))
    /\ End(r)
    /\ UNCHANGED <<places, booking, exchange, review, profile, mix>>

Next ==
    \/ \E j \in Jobs : JobMoves(j) \/ \E u \in Users : CooldownPasses(j, u)
    \/ \E S \in {{}, Slots} : PutAvailability(S)
    \/ \E r \in Requests :
          \/ \E a \in Appts : \/ ConfirmRead(r, a) \/ CancelRead(r, a) \/ EventRead(r, a)
                              \/ \E j \in Jobs, s \in Slots : ProposeRead(r, j, a, s)
          \/ \E j \in Jobs, u \in Users :
                ContactFind(r, j, u) \/ \E d \in {"APPROVED", "REJECTED"} : DecideFind(r, j, u, d)
          \/ \E j \in Jobs, side \in Sides, n \in Ratings : ReviewRead(r, j, side, n)
          \/ ConfirmJob(r) \/ HoursRead(r) \/ ConflictRead(r) \/ Book(r)
          \/ CancelWrite(r) \/ EventWrite(r)
          \/ ContactCooldown(r) \/ ContactCreate(r) \/ DecideWrite(r)
          \/ ReviewFind(r) \/ ReviewWrite(r) \/ AggregateRead(r) \/ ProfileUpsert(r)
          \/ Fail(r)

Spec == Init /\ [][Next]_vars

----------------------------------------------------------------------------
(* Appointments of the provider that are confirmed and overlap pairwise, as *)
(* many as there are requests at most: a confirmation checks for conflicts  *)
(* before it writes (src/server.ts, confirm), so each of them was in flight *)
(* when the first of the others was written, whatever is cancelled or       *)
(* confirmed again in between.  One request at a time never double-books.   *)
BookingsBounded ==
    \A S \in SUBSET {a \in Appts : appt[a].status = "CONFIRMED"} :
        (\A a, b \in S : Overlap(appt[a].slot, appt[b].slot)) => Cardinality(S) <= Cardinality(Requests)

(* As many requests for contact data are pending for a job as there are     *)
(* requests in flight at most, and one of them is decided that often at     *)
(* most: an approval can overrule a refusal, and the reverse, only if both  *)
(* were in flight at once (routes/contactExchange.ts).                      *)
ContactBounded ==
    \A j \in Jobs :
        /\ Cardinality(Pending(j)) <= Cardinality(Requests)
        /\ \A i \in DOMAIN contact[j] : contact[j][i].decisions <= Cardinality(Requests)

BoundedByRequests == BookingsBounded /\ ContactBounded

(* The rating of the provider's profile is that of his reviews, unless a    *)
(* recomputation is under way, or the last one overlapped another or died   *)
(* (routes/jobReviews.ts, recomputeProviderRating): the next review that is *)
(* alone repairs what a race has spoilt.                                    *)
RatingCurrent == ~raced /\ (\A r \in Requests : ~InWindow(r)) => profile = Aggregate

=============================================================================
