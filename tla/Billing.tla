------------------------------ MODULE Billing ------------------------------
(***************************************************************************)
(* What one provider buys through Stripe, what the webhook of              *)
(* src/routes/payments.ts grants for it, and the lead quota the bids of    *)
(* the provider draw on (src/services/providerEntitlements.ts).            *)
(*                                                                         *)
(* Stripe is external: it sends an event for every attempt to pay, in any  *)
(* order, and again until it is answered 2xx, perhaps several times.  A    *)
(* webhook request records the event id under a unique key, applies the    *)
(* event in one transaction and answers; a later delivery of a recorded    *)
(* event is answered 200 and changes nothing, and so is no step here.      *)
(*                                                                         *)
(* Transactions run READ COMMITTED, and an upsert with an empty update is  *)
(* a SELECT when the row is there: what a transaction has read is carried  *)
(* to the step in which its writes become visible.                         *)
(*                                                                         *)
(* Left out: amounts, receipts and logs; the old ADDON kind (whose intents *)
(* no route creates any more, and with it the extra monthly leads it       *)
(* granted); renewsAt, which nothing reads.                                *)
(***************************************************************************)
EXTENDS Integers, FiniteSets

CONSTANTS Basics,      \* StripePayment rows: a subscription of tier BASIC each
          Pros,        \* StripePayment rows: a subscription of tier PRO each
          LeadPacks,   \* AddonPurchase rows: one lead credit each
          Zips,        \* AddonPurchase rows: featuring one zip code each
          Badges,      \* AddonPurchase rows: the verification badge each
          Hooks,       \* webhook requests that can be in flight at one time
          Bidders,     \* the provider's own requests in flight at one time
          FreeLimit,   \* getBaseLeadLimitForTier, FREE
          BasicLimit,  \* getBaseLeadLimitForTier, BASIC
          ProLimit,    \* getBaseLeadLimitForTier, PRO
          MaxMonth,    \* bound: months that pass
          MaxRefusals, \* bound: purchases whose card is refused at first
          MaxFailures, \* bound: webhook requests that fail
          None         \* no event in hand

Plans == Basics \cup Pros
Addons == LeadPacks \cup Zips \cup Badges
Purchases == Plans \cup Addons
Events == [kind : {"succeeded", "failed"}, of : Purchases]

ASSUME BillingAssumption ==
    /\ Basics \cap Pros = {}
    /\ Plans \cap Addons = {}
    /\ LeadPacks \cap (Zips \cup Badges) = {}
    /\ Zips \cap Badges = {}
    /\ IsFiniteSet(LeadPacks)
    /\ FreeLimit \in Nat \ {0}
    /\ BasicLimit \in Nat
    /\ ProLimit \in Nat
    /\ FreeLimit <= BasicLimit
    /\ BasicLimit <= ProLimit
    /\ MaxMonth \in Nat
    /\ MaxRefusals \in Nat
    /\ MaxFailures \in Nat
    /\ None \notin Events

Statuses == {"NONE", "PENDING", "SUCCEEDED", "FAILED"}                \* NONE: no row

VARIABLES
    intent,    \* intent[p]: the payment intent at Stripe: none,
               \*   offered (the client has its secret), paid
    sent,      \* events Stripe sends
    payment,   \* payment[p]: status of the StripePayment or AddonPurchase row
    seen,      \* StripeWebhookEvent rows
    hook,      \* hook[h]: where webhook request h is, and what it holds
    sub,       \* the Subscription row: tier, month (usageMonthKey), used
               \*   (leadsUsedThisMonth)
    credits,   \* ProviderEntitlement.leadCredits
    featured,  \* ProviderEntitlement.featuredZipCodes
    bidder,    \* bidder[b]: where the provider's request b is, and what it holds
    month,     \* the current month
    granted,   \* history: how often each purchase was granted
    spent,     \* history: lead credits spent
    failures   \* failures so far

stripe == <<intent, sent>>
quota == <<sub, credits>>
vars == <<stripe, payment, seen, hook, quota, featured, bidder, month, granted, spent,
          failures>>

Waiting == [pc |-> "idle", event |-> None, month |-> 0, zips |-> {}]
Silent == [pc |-> "idle", month |-> 0]

Init == /\ intent = [p \in Purchases |-> "none"]
        /\ sent = {}
        /\ payment = [p \in Purchases |-> "NONE"]
        /\ seen = {}
        /\ hook = [h \in Hooks |-> Waiting]
        /\ sub = [tier |-> "FREE", month |-> 0, used |-> 0]
        /\ credits = 0
        /\ featured = {}
        /\ bidder = [b \in Bidders |-> Silent]
        /\ month = 0
        /\ granted = [p \in Purchases |-> 0]
        /\ spent = 0
        /\ failures = 0

----------------------------------------------------------------------------
(* Buying *)

(* createPaymentIntent and createProviderAddonPaymentIntentV2: the intent  *)
(* at Stripe, then the PENDING row.  If the row cannot be stored, the      *)
(* client never learns the secret it could pay with.                       *)
CreateIntent(p) ==
    /\ intent[p] = "none"
    /\ intent' = [intent EXCEPT ![p] = "offered"]
    /\ payment' = [payment EXCEPT ![p] = "PENDING"]
    /\ UNCHANGED <<sent, seen, hook, quota, featured, bidder, month, granted, spent,
                   failures>>

(* A card is refused, and the client may try again. *)
Refuse(p) ==
    /\ intent[p] = "offered"
    /\ Cardinality({e \in sent : e.kind = "failed"}) < MaxRefusals
    /\ sent' = sent \cup {[kind |-> "failed", of |-> p]}
    /\ UNCHANGED <<intent, payment, seen, hook, quota, featured, bidder, month, granted,
                   spent, failures>>

Pay(p) ==
    /\ intent[p] = "offered"
    /\ intent' = [intent EXCEPT ![p] = "paid"]
    /\ sent' = sent \cup {[kind |-> "succeeded", of |-> p]}
    /\ UNCHANGED <<payment, seen, hook, quota, featured, bidder, month, granted, spent,
                   failures>>

----------------------------------------------------------------------------
(* POST /payments/webhook *)

Proceed(h, state) == hook' = [hook EXCEPT ![h] = state]
Done(h) == Proceed(h, Waiting)
Handles(h, kind, kinds) ==
    /\ hook[h].pc = "apply"
    /\ hook[h].event.kind = kind
    /\ hook[h].event.of \in kinds

IsReplay_Never(e) == FALSE                                            \* mutant
IsReplay(e) == e \in seen

(* recordStripeWebhookEventOnce; what follows takes the month as it is now. *)
RecordEvent(h, e) ==
    /\ hook[h] = Waiting
    /\ e \in sent
    /\ ~IsReplay(e)
    /\ seen' = seen \cup {e}
    /\ Proceed(h, [Waiting EXCEPT !.pc = "apply", !.event = e, !.month = month])
    /\ UNCHANGED <<stripe, payment, quota, featured, bidder, month, granted, spent,
                   failures>>

(* updateMany ... WHERE status <> 'SUCCEEDED': only the first success grants *)
FirstSuccess(p) == payment[p] # "SUCCEEDED"
Grant(p) == /\ payment' = [payment EXCEPT ![p] = "SUCCEEDED"]
            /\ granted' = [granted EXCEPT ![p] = @ + 1]

TierOf(p) == IF p \in Basics THEN "BASIC" ELSE "PRO"

(* The tier, and the month: leadsUsedThisMonth is not reset with it. *)
GrantPlan(h) ==
    LET p == hook[h].event.of
    IN  /\ Handles(h, "succeeded", Plans)
        /\ IF FirstSuccess(p)
             THEN Grant(p) /\ sub' = [sub EXCEPT !.tier = TierOf(p), !.month = hook[h].month]
             ELSE UNCHANGED <<payment, granted, sub>>
        /\ Done(h)
        /\ UNCHANGED <<stripe, seen, credits, featured, bidder, month, spent, failures>>

GrantLeadPack(h) ==
    LET p == hook[h].event.of
    IN  /\ Handles(h, "succeeded", LeadPacks)
        /\ IF FirstSuccess(p)
             THEN Grant(p) /\ credits' = credits + 1
             ELSE UNCHANGED <<payment, granted, credits>>
        /\ Done(h)
        /\ UNCHANGED <<stripe, seen, sub, featured, bidder, month, spent, failures>>

(* The zip codes are read, merged in memory and written back. *)
GrantZipRead(h) ==
    /\ Handles(h, "succeeded", Zips)
    /\ IF FirstSuccess(hook[h].event.of)
         THEN Proceed(h, [hook[h] EXCEPT !.pc = "merge", !.zips = featured])
         ELSE Done(h)
    /\ UNCHANGED <<stripe, payment, seen, quota, featured, bidder, month, granted, spent,
                   failures>>

GrantZipCommit(h) ==
    LET p == hook[h].event.of
    IN  /\ hook[h].pc = "merge"
        /\ Grant(p)
        /\ featured' = hook[h].zips \cup {p}
        /\ Done(h)
        /\ UNCHANGED <<stripe, seen, quota, bidder, month, spent, failures>>

(* verificationBadge := true: there once any of Badges was granted *)
GrantBadge(h) ==
    LET p == hook[h].event.of
    IN  /\ Handles(h, "succeeded", Badges)
        /\ IF FirstSuccess(p) THEN Grant(p) ELSE UNCHANGED <<payment, granted>>
        /\ Done(h)
        /\ UNCHANGED <<stripe, seen, quota, featured, bidder, month, spent, failures>>

MayFailAddon(p) == payment[p] # "SUCCEEDED"

(* applyPaymentIntentFailedFromWebhook: guarded for an add-on, not for a plan *)
ApplyFailed(h) ==
    LET p == hook[h].event.of
    IN  /\ Handles(h, "failed", Purchases)
        /\ payment' = IF p \in Plans \/ MayFailAddon(p)
                        THEN [payment EXCEPT ![p] = "FAILED"] ELSE payment
        /\ Done(h)
        /\ UNCHANGED <<stripe, seen, quota, featured, bidder, month, granted, spent,
                       failures>>

(* An await rejects (400) or the process dies: Stripe will deliver again. *)
FailHook(h) ==
    /\ failures < MaxFailures
    /\ hook[h] # Waiting
    /\ Done(h)
    /\ failures' = failures + 1
    /\ UNCHANGED <<stripe, payment, seen, quota, featured, bidder, month, granted, spent>>

----------------------------------------------------------------------------
(* The lead quota *)

Act(b, state) == bidder' = [bidder EXCEPT ![b] = state]
End(b) == Act(b, Silent)

LimitOf(tier) == CASE tier = "FREE"  -> FreeLimit
                   [] tier = "BASIC" -> BasicLimit
                   [] tier = "PRO"   -> ProLimit
HasLeads(s) == s.used < LimitOf(s.tier)

(* ensureSubscriptionUsageIsCurrent, for GET /subscription or the edit of *)
(* a bid: a row that was read with another month is reset.                 *)
ViewRead(b) ==
    /\ bidder[b] = Silent
    /\ sub.month # month
    /\ Act(b, [pc |-> "reset", month |-> month])
    /\ UNCHANGED <<stripe, payment, seen, hook, quota, featured, month, granted, spent,
                   failures>>

ViewReset_AllLeads(b) ==                                              \* mutant
    /\ bidder[b].pc = "reset"
    /\ sub' = [sub EXCEPT !.month = bidder[b].month, !.used = 0]
    /\ credits' = 0
    /\ End(b)
    /\ UNCHANGED <<stripe, payment, seen, hook, featured, month, granted, spent,
                   failures>>
ViewReset(b) ==
    /\ bidder[b].pc = "reset"
    /\ sub' = [sub EXCEPT !.month = bidder[b].month, !.used = 0]
    /\ End(b)
    /\ UNCHANGED <<stripe, payment, seen, hook, credits, featured, month, granted, spent,
                   failures>>

(* consumeLeadIfAvailable, in the transaction of a new bid: the monthly    *)
(* leads first (all of them, if the row is of another month) ...           *)
ConsumeRead(b) ==
    /\ bidder[b] = Silent
    /\ Act(b, [pc |-> IF sub.month # month THEN "first"
                      ELSE IF HasLeads(sub) THEN "monthly" ELSE "credits",
               month |-> month])
    /\ UNCHANGED <<stripe, payment, seen, hook, quota, featured, month, granted, spent,
                   failures>>

(* ... then the credits, or 402. *)
ConsumeReadCredits(b) ==
    /\ bidder[b].pc = "credits"
    /\ IF credits > 0 THEN Act(b, [bidder[b] EXCEPT !.pc = "credit"]) ELSE End(b)
    /\ UNCHANGED <<stripe, payment, seen, hook, quota, featured, month, granted, spent,
                   failures>>

ConsumeMonthly(b) ==
    /\ bidder[b].pc \in {"first", "monthly"}
    /\ sub' = IF bidder[b].pc = "first"
                THEN [sub EXCEPT !.month = bidder[b].month, !.used = 1]
                ELSE [sub EXCEPT !.used = @ + 1]
    /\ End(b)
    /\ UNCHANGED <<stripe, payment, seen, hook, credits, featured, month, granted, spent,
                   failures>>

ConsumeCredit(b) ==
    /\ bidder[b].pc = "credit"
    /\ credits' = credits - 1
    /\ spent' = spent + 1
    /\ End(b)
    /\ UNCHANGED <<stripe, payment, seen, hook, sub, featured, month, granted, failures>>

(* The bid cannot be inserted: the transaction rolls back. *)
RollBack(b) ==
    /\ bidder[b] # Silent
    /\ End(b)
    /\ UNCHANGED <<stripe, payment, seen, hook, quota, featured, month, granted, spent,
                   failures>>

MonthPasses ==
    /\ month < MaxMonth
    /\ month' = month + 1
    /\ UNCHANGED <<stripe, payment, seen, hook, quota, featured, bidder, granted, spent,
                   failures>>

----------------------------------------------------------------------------
Buying == \E p \in Purchases : CreateIntent(p) \/ Refuse(p) \/ Pay(p)

Applying(h) == \/ GrantPlan(h) \/ GrantLeadPack(h) \/ GrantBadge(h)
               \/ GrantZipRead(h) \/ GrantZipCommit(h) \/ ApplyFailed(h)

Bidding(b) == \/ ViewRead(b) \/ ViewReset(b)
              \/ ConsumeRead(b) \/ ConsumeReadCredits(b)
              \/ ConsumeMonthly(b) \/ ConsumeCredit(b) \/ RollBack(b)

Next == \/ Buying
        \/ \E h \in Hooks : \/ \E e \in Events : RecordEvent(h, e)
                            \/ Applying(h) \/ FailHook(h)
        \/ \E b \in Bidders : Bidding(b)
        \/ MonthPasses

Spec == Init /\ [][Next]_vars

(* Stripe delivers every event until it is answered 2xx, and the awaits of *)
(* a webhook request settle.                                               *)
Fairness == /\ \A e \in Events : WF_vars(\E h \in Hooks : RecordEvent(h, e))
            /\ \A h \in Hooks : WF_vars(Applying(h))

FairSpec == Spec /\ Fairness

----------------------------------------------------------------------------
(* Type invariant. *)
HookMemory == [pc : {"idle", "apply", "merge"}, event : Events \cup {None},
               month : 0..MaxMonth, zips : SUBSET Zips]
BidderMemory == [pc : {"idle", "reset", "first", "monthly", "credits", "credit"},
                 month : 0..MaxMonth]
Subscription == [tier : {"FREE", "BASIC", "PRO"}, month : 0..MaxMonth, used : Nat]
TypeOK ==
    /\ intent \in [Purchases -> {"none", "offered", "paid"}]
    /\ sent \in SUBSET Events
    /\ payment \in [Purchases -> Statuses]
    /\ seen \in SUBSET Events
    /\ hook \in [Hooks -> HookMemory]
    /\ \A h \in Hooks : hook[h].event = None <=> hook[h].pc = "idle"
    /\ sub \in Subscription
    /\ credits \in Int
    /\ featured \in SUBSET Zips
    /\ bidder \in [Bidders -> BidderMemory]
    /\ month \in 0..MaxMonth
    /\ granted \in [Purchases -> Nat]
    /\ spent \in Nat
    /\ failures \in 0..MaxFailures

(***************************************************************************)
(* Whatever is delivered, in whatever order and how often, a purchase is   *)
(* granted at most once, and only if it was paid.  For a plan the status   *)
(* of the row does not ensure it, since a late failed event sets it back.  *)
(***************************************************************************)
GrantedAsPaid ==
    \A p \in Purchases : granted[p] <= (IF intent[p] = "paid" THEN 1 ELSE 0)

(***************************************************************************)
(* No lead credit is lost or made up while grants and bids interleave:     *)
(* what is left and what was spent is what was granted.                    *)
(***************************************************************************)
CreditsAccounted == credits + spent = Cardinality({p \in LeadPacks : granted[p] > 0})

(***************************************************************************)
(* A paid add-on is never shown as failed or pending again: the event of   *)
(* an attempt that failed before may be delivered after the success.       *)
(***************************************************************************)
PaidAddonStaysPaid ==
    [][\A p \in Addons : payment[p] = "SUCCEEDED" => payment'[p] = "SUCCEEDED"]_vars

(***************************************************************************)
(* One bid at a time: no credit is spent that is not there, and no more    *)
(* leads of a month than some plan the provider paid for allows, or the    *)
(* free one, while grants (also of a smaller plan) and the turn of the     *)
(* month come between the check and the increment.                         *)
(***************************************************************************)
NoOverdraw ==
    /\ credits >= 0
    /\ \E tier \in {"FREE"} \cup {TierOf(p) : p \in {q \in Plans : granted[q] > 0}} :
          sub.used <= LimitOf(tier)

(***************************************************************************)
(* "Rely on replay safety: Stripe will retry deliveries and the backend is *)
(* idempotent" (docs/cutover-staging-to-prod.md): what was paid is         *)
(* eventually granted, also when a delivery fails.                         *)
(***************************************************************************)
PaidIsGranted == \A p \in Purchases : intent[p] = "paid" ~> granted[p] > 0
=============================================================================
