-------------------------- MODULE Billing_proofs --------------------------
(***************************************************************************)
(* Proofs about Billing, and about Checkouts, which puts the app in front  *)
(* of it, for any purchases, requests and bounds.                          *)
(***************************************************************************)
EXTENDS Checkouts, FiniteSetTheorems, TLAPS

----------------------------------------------------------------------------
(* Types *)

(* What a webhook request holds is of its type, and only the success of a
   zip add-on is ever being merged. *)
WellFormed(m) == /\ m \in HookMemory
                 /\ m.event = None <=> m.pc = "idle"
                 /\ m.pc = "merge" => m.event.kind = "succeeded" /\ m.event.of \in Zips

HooksOK == hook \in [Hooks -> HookMemory] /\ \A h \in Hooks : WellFormed(hook[h])

(* What TypeOK says of the rows *)
PurchasesOK == /\ intent \in [Purchases -> {"none", "offered", "paid"}]
               /\ sent \in SUBSET Events
               /\ payment \in [Purchases -> Statuses]
               /\ seen \in SUBSET Events
               /\ granted \in [Purchases -> Nat]

(* What TypeOK says of the quota and its requests *)
QuotaOK == /\ sub \in Subscription
           /\ credits \in Int
           /\ featured \in SUBSET Zips
           /\ bidder \in [Bidders -> BidderMemory]
           /\ month \in 0..MaxMonth
           /\ spent \in Nat

TypeInv == HooksOK /\ PurchasesOK /\ QuotaOK /\ failures \in 0..MaxFailures

(* The memory of a request that waits is well formed. *)
LEMMA WaitingMemory == WellFormed(Waiting)
  BY BillingAssumption DEF Waiting, HookMemory, WellFormed

(* A webhook request moves to a well-formed memory. *)
LEMMA HookMoves ==
    ASSUME HooksOK, NEW h \in Hooks, NEW m, WellFormed(m), Proceed(h, m)
    PROVE  HooksOK'
<1>1. hook' = [hook EXCEPT ![h] = m] /\ m \in HookMemory
  BY DEF Proceed, WellFormed
<1>2. \A g \in Hooks : hook'[g] = m \/ hook'[g] = hook[g]
  BY <1>1 DEF HooksOK
<1> QED BY <1>1, <1>2 DEF HooksOK

(* A request that ends leaves the memories well formed. *)
LEMMA HookEnds == ASSUME HooksOK, NEW h \in Hooks, Done(h) PROVE HooksOK'
  BY HookMoves, WaitingMemory DEF Done

(* What a request holds while it handles an event. *)
LEMMA InHand ==
    ASSUME HooksOK, NEW h \in Hooks, hook[h].pc # "idle"
    PROVE  /\ hook[h].event \in Events
           /\ hook[h].event.of \in Purchases
           /\ hook[h].month \in 0..MaxMonth
           /\ hook[h].zips \in SUBSET Zips
           /\ hook[h].pc = "merge" => /\ hook[h].event.kind = "succeeded"
                                      /\ hook[h].event.of \in Zips
  BY DEF HooksOK, WellFormed, HookMemory, Events

(* The writes to the Subscription row keep its type. *)
LEMMA SubscriptionWritten ==
    ASSUME sub \in Subscription, NEW m \in 0..MaxMonth
    PROVE  /\ \A p : [sub EXCEPT !.tier = TierOf(p), !.month = m] \in Subscription
           /\ [sub EXCEPT !.month = m, !.used = 0] \in Subscription
           /\ [sub EXCEPT !.month = m, !.used = 1] \in Subscription
           /\ [sub EXCEPT !.used = @ + 1] \in Subscription
<1>1. \A p : [sub EXCEPT !.tier = TierOf(p), !.month = m] \in Subscription
  BY DEF Subscription, TierOf
<1>2. [sub EXCEPT !.month = m, !.used = 0] \in Subscription
  BY DEF Subscription
<1>3. [sub EXCEPT !.month = m, !.used = 1] \in Subscription
  BY DEF Subscription
<1>4. [sub EXCEPT !.used = @ + 1] \in Subscription
  BY DEF Subscription
<1> QED BY <1>1, <1>2, <1>3, <1>4

(* Only webhook requests move webhook requests. *)
LEMMA HooksStep == TypeInv /\ [Next]_vars => HooksOK'
<1> SUFFICES ASSUME TypeInv, [Next]_vars PROVE HooksOK'
  OBVIOUS
<1> HooksOK
  BY DEF TypeInv
<1>1. CASE UNCHANGED hook
  BY <1>1 DEF HooksOK
<1>2. ASSUME NEW h \in Hooks, NEW e \in Events, RecordEvent(h, e) PROVE HooksOK'
  <2> DEFINE m == [Waiting EXCEPT !.pc = "apply", !.event = e, !.month = month]
  <2>1. WellFormed(m)
    BY BillingAssumption DEF Waiting, HookMemory, TypeInv, QuotaOK, WellFormed
  <2>2. Proceed(h, m)
    BY <1>2 DEF RecordEvent
  <2> QED BY <2>1, <2>2, HookMoves
<1>3. ASSUME NEW h \in Hooks, GrantZipRead(h) PROVE HooksOK'
  <2> DEFINE m == [hook[h] EXCEPT !.pc = "merge", !.zips = featured]
  <2>1. WellFormed(m)
    BY <1>3 DEF GrantZipRead, Handles, HookMemory, TypeInv, HooksOK, QuotaOK, WellFormed
  <2>2. Proceed(h, m) \/ Done(h)
    BY <1>3 DEF GrantZipRead
  <2> QED BY <2>1, <2>2, HookMoves, HookEnds
<1>4. ASSUME NEW h \in Hooks, Done(h) PROVE HooksOK'
  BY <1>4, HookEnds
<1>5. \/ UNCHANGED hook
      \/ \E h \in Hooks : \/ \E e \in Events : RecordEvent(h, e)
                          \/ GrantZipRead(h)
                          \/ Done(h)
  BY DEF Next, vars, Buying, CreateIntent, Refuse, Pay, Applying, GrantPlan, GrantLeadPack,
         GrantBadge, GrantZipCommit, ApplyFailed, FailHook, Bidding, ViewRead, ViewReset, ConsumeRead,
         ConsumeReadCredits, ConsumeMonthly, ConsumeCredit, RollBack, MonthPasses
<1> QED BY <1>1, <1>2, <1>3, <1>4, <1>5

(* The rows of purchases and events keep their types. *)
LEMMA PurchasesStep == TypeInv /\ [Next]_vars => PurchasesOK'
<1> SUFFICES ASSUME TypeInv, [Next]_vars PROVE PurchasesOK'
  OBVIOUS
<1> USE DEF PurchasesOK, Statuses, stripe
<1> HooksOK /\ PurchasesOK
  BY DEF TypeInv
<1>0. CASE UNCHANGED <<stripe, payment, seen, granted>>
  BY <1>0
<1>1. ASSUME NEW p \in Purchases, CreateIntent(p) \/ Refuse(p) \/ Pay(p) PROVE PurchasesOK'
  <2>1. CASE CreateIntent(p)
    BY <2>1 DEF CreateIntent
  <2>2. CASE Refuse(p)
    BY <2>2 DEF Refuse, Events
  <2>3. CASE Pay(p)
    BY <2>3 DEF Pay, Events
  <2> QED BY <1>1, <2>1, <2>2, <2>3
<1>2. ASSUME NEW h \in Hooks, NEW e \in Events, RecordEvent(h, e) PROVE PurchasesOK'
  BY <1>2 DEF RecordEvent
<1>3. ASSUME NEW p \in Purchases, Grant(p), UNCHANGED <<stripe, seen>> PROVE PurchasesOK'
  BY <1>3 DEF Grant
<1>4. ASSUME NEW h \in Hooks, Applying(h) PROVE PurchasesOK'
  <2>1. CASE GrantPlan(h)
    BY <1>0, <1>3, <2>1, InHand DEF GrantPlan, Handles
  <2>2. CASE GrantLeadPack(h)
    BY <1>0, <1>3, <2>2, InHand DEF GrantLeadPack, Handles
  <2>3. CASE GrantZipRead(h)
    BY <2>3 DEF GrantZipRead
  <2>4. CASE GrantZipCommit(h)
    BY <1>3, <2>4, InHand DEF GrantZipCommit
  <2>5. CASE ApplyFailed(h)
    <3>1. hook[h].event.of \in Purchases
      BY <2>5, InHand DEF ApplyFailed, Handles
    <3> QED BY <2>5, <3>1 DEF ApplyFailed
  <2>6. CASE GrantBadge(h)
    BY <1>0, <1>3, <2>6, InHand DEF GrantBadge, Handles
  <2> QED BY <1>4, <2>1, <2>2, <2>3, <2>4, <2>5, <2>6 DEF Applying
<1>5. ASSUME NEW h \in Hooks, FailHook(h) PROVE PurchasesOK'
  BY <1>5 DEF FailHook
<1>6. ASSUME NEW b \in Bidders, Bidding(b) PROVE PurchasesOK'
  BY <1>0, <1>6 DEF Bidding, ViewRead, ViewReset, ConsumeRead, ConsumeReadCredits,
                    ConsumeMonthly, ConsumeCredit, RollBack
<1>7. CASE MonthPasses
  BY <1>7 DEF MonthPasses
<1>8. CASE UNCHANGED vars
  BY <1>8 DEF vars
<1> QED BY <1>1, <1>2, <1>4, <1>5, <1>6, <1>7, <1>8 DEF Next, Buying

(* The quota and the requests that draw on it keep their types. *)
LEMMA QuotaStep == TypeInv /\ [Next]_vars => QuotaOK' /\ failures' \in 0..MaxFailures
<1> SUFFICES ASSUME TypeInv, [Next]_vars PROVE QuotaOK' /\ failures' \in 0..MaxFailures
  OBVIOUS
<1> USE DEF QuotaOK, quota
<1> HooksOK /\ QuotaOK /\ failures \in 0..MaxFailures
  BY DEF TypeInv
<1>0. CASE UNCHANGED <<quota, featured, bidder, month, spent, failures>>
  BY <1>0
<1>1. ASSUME NEW h \in Hooks, Applying(h) PROVE QuotaOK' /\ failures' \in 0..MaxFailures
  <2>1. CASE GrantPlan(h)
    <3>1. hook[h].month \in 0..MaxMonth
      BY <2>1, InHand DEF GrantPlan, Handles
    <3>2. [sub EXCEPT !.tier = TierOf(hook[h].event.of), !.month = hook[h].month] \in Subscription
      <4>1. sub \in Subscription
        OBVIOUS
      <4> QED BY ONLY <3>1, <4>1, SubscriptionWritten
    <3>3. sub' \in Subscription
      BY <2>1, <3>2 DEF GrantPlan
    <3> QED BY <2>1, <3>3 DEF GrantPlan
  <2>2. CASE GrantLeadPack(h)
    BY <2>2 DEF GrantLeadPack
  <2>3. CASE GrantZipRead(h)
    BY <2>3 DEF GrantZipRead
  <2>4. CASE GrantZipCommit(h)
    <3>1. hook[h].event.of \in Zips /\ hook[h].zips \in SUBSET Zips
      BY <2>4, InHand DEF GrantZipCommit
    <3> QED BY <2>4, <3>1 DEF GrantZipCommit
  <2>5. CASE ApplyFailed(h)
    BY <2>5 DEF ApplyFailed
  <2>6. CASE GrantBadge(h)
    BY <2>6 DEF GrantBadge
  <2> QED BY <1>1, <2>1, <2>2, <2>3, <2>4, <2>5, <2>6 DEF Applying
<1>2. ASSUME NEW h \in Hooks, FailHook(h) PROVE QuotaOK' /\ failures' \in 0..MaxFailures
  BY <1>2, BillingAssumption DEF FailHook
<1>3. ASSUME NEW b \in Bidders, Bidding(b) PROVE QuotaOK' /\ failures' \in 0..MaxFailures
  <2> USE DEF Act, End, Silent, BidderMemory
  <2>0. bidder[b].month \in 0..MaxMonth /\ 0 \in 0..MaxMonth
    BY BillingAssumption
  <2>1. CASE ViewRead(b)
    BY <2>1 DEF ViewRead
  <2>2. CASE ViewReset(b)
    <3>1. sub' \in Subscription
      BY <2>0, <2>2, SubscriptionWritten DEF ViewReset
    <3> QED BY <2>0, <2>2, <3>1 DEF ViewReset
  <2>3. CASE ConsumeRead(b)
    BY <2>3 DEF ConsumeRead
  <2>4. CASE ConsumeReadCredits(b)
    BY <2>0, <2>4 DEF ConsumeReadCredits
  <2>5. CASE ConsumeMonthly(b)
    <3>1. sub' \in Subscription
      BY <2>0, <2>5, SubscriptionWritten DEF ConsumeMonthly
    <3> QED BY <2>0, <2>5, <3>1 DEF ConsumeMonthly
  <2>6. CASE ConsumeCredit(b)
    BY <2>0, <2>6 DEF ConsumeCredit
  <2>7. CASE RollBack(b)
    BY <2>0, <2>7 DEF RollBack
  <2> QED BY <1>3, <2>1, <2>2, <2>3, <2>4, <2>5, <2>6, <2>7 DEF Bidding
<1>4. CASE MonthPasses
  BY <1>4, BillingAssumption DEF MonthPasses
<1>5. ASSUME NEW h \in Hooks, NEW e \in Events, RecordEvent(h, e)
      PROVE  QuotaOK' /\ failures' \in 0..MaxFailures
  BY <1>5 DEF RecordEvent
<1>6. CASE Buying
  BY <1>0, <1>6 DEF Buying, CreateIntent, Refuse, Pay
<1>7. CASE UNCHANGED vars
  BY <1>7 DEF vars
<1> QED BY <1>1, <1>2, <1>3, <1>4, <1>5, <1>6, <1>7 DEF Next

(* TypeInv is an invariant. *)
LEMMA TypeHolds == Spec => []TypeInv
<1>1. Init => TypeInv
  BY BillingAssumption, WaitingMemory
     DEF Init, TypeInv, HooksOK, PurchasesOK, QuotaOK, Statuses, Subscription, BidderMemory,
         Silent, WellFormed
<1>2. TypeInv /\ [Next]_vars => TypeInv'
  BY HooksStep, PurchasesStep, QuotaStep DEF TypeInv
<1> QED BY <1>1, <1>2, PTL DEF Spec

(***************************************************************************)
(* Rows and memories keep their types.                                     *)
(***************************************************************************)
THEOREM TypeCorrect == Spec => []TypeOK
<1>1. TypeInv => TypeOK
  BY DEF TypeInv, HooksOK, PurchasesOK, QuotaOK, WellFormed, TypeOK
<1> QED BY <1>1, TypeHolds, PTL

----------------------------------------------------------------------------
(* Once and only if paid *)

Success(p) == [kind |-> "succeeded", of |-> p]

(* An event is recorded once, so one request at most handles a success, and
   what it is about to grant was not granted before.                        *)
OnceInv ==
    /\ seen \subseteq sent
    /\ \A p \in Purchases : Success(p) \in sent => intent[p] = "paid"
    /\ \A p \in Purchases : granted[p] > 0 => granted[p] = 1 /\ Success(p) \in seen
    /\ \A p \in Purchases : payment[p] = "SUCCEEDED" => granted[p] > 0
    /\ \A h \in Hooks : hook[h].pc # "idle" => hook[h].event \in seen
    /\ \A h \in Hooks : hook[h].pc # "idle" /\ hook[h].event.kind = "succeeded" =>
                           granted[hook[h].event.of] = 0
    /\ \A g, h \in Hooks : hook[g].pc # "idle" /\ hook[h].pc # "idle" /\ g # h =>
                              hook[g].event # hook[h].event

(* A success is known by its purchase. *)
LEMMA SuccessIs == ASSUME NEW e \in Events, e.kind = "succeeded" PROVE e = Success(e.of)
  BY DEF Events, Success

(* A request that ends leaves the others as they are. *)
LEMMA OthersStay ==
    ASSUME HooksOK, NEW h \in Hooks, Done(h)
    PROVE  \A g \in Hooks : hook'[g].pc # "idle" => g # h /\ hook'[g] = hook[g]
  BY DEF HooksOK, Done, Proceed, Waiting

(* A grant by the one request that handles the success keeps OnceInv. *)
LEMMA GrantOnce ==
    ASSUME TypeInv, OnceInv, NEW h \in Hooks, hook[h].pc # "idle",
           hook[h].event.kind = "succeeded", Grant(hook[h].event.of), Done(h),
           UNCHANGED <<stripe, seen>>
    PROVE  OnceInv'
<1> DEFINE p == hook[h].event.of
<1> HooksOK /\ PurchasesOK
  BY DEF TypeInv
<1>1. p \in Purchases /\ hook[h].event = Success(p) /\ hook[h].event \in seen
  BY InHand, SuccessIs DEF OnceInv
<1>2. granted' = [granted EXCEPT ![p] = 1]
  <2>1. granted[p] = 0
    BY <1>1 DEF OnceInv
  <2>2. granted' = [granted EXCEPT ![p] = granted[p] + 1]
    BY DEF Grant
  <2> QED BY <2>1, <2>2
<1>3. payment' = [payment EXCEPT ![p] = "SUCCEEDED"]
  BY DEF Grant
<1>4. \A g \in Hooks : hook'[g].pc # "idle" =>
          hook'[g] = hook[g] /\ g # h /\ hook[g].event # Success(p) /\ hook[g].event \in Events
  BY <1>1, OthersStay, InHand DEF OnceInv
<1>5. \A g \in Hooks : hook'[g].pc # "idle" /\ hook'[g].event.kind = "succeeded" =>
          hook'[g].event.of # p /\ hook'[g].event.of \in Purchases
  BY <1>4, SuccessIs DEF Events
<1>6. \A q \in Purchases : q # p => granted'[q] = granted[q] /\ payment'[q] = payment[q]
  BY <1>2, <1>3 DEF PurchasesOK
<1>7. granted'[p] = 1
  BY <1>1, <1>2 DEF PurchasesOK
<1>8. seen' = seen /\ sent' = sent /\ intent' = intent
  BY DEF stripe
<1> HIDE DEF p
<1>9. \A q \in Purchases : granted'[q] > 0 => granted'[q] = 1 /\ Success(q) \in seen'
  BY <1>1, <1>6, <1>7, <1>8 DEF OnceInv
<1>10. \A q \in Purchases : payment'[q] = "SUCCEEDED" => granted'[q] > 0
  BY <1>6, <1>7 DEF OnceInv
<1>11. \A g \in Hooks : hook'[g].pc # "idle" /\ hook'[g].event.kind = "succeeded" =>
          granted'[hook'[g].event.of] = 0
  BY <1>4, <1>5, <1>6 DEF OnceInv
<1> QED BY <1>4, <1>8, <1>9, <1>10, <1>11 DEF OnceInv

(* Every step keeps OnceInv. *)
LEMMA OnceStep == TypeInv /\ OnceInv /\ [Next]_vars => OnceInv'
<1> SUFFICES ASSUME TypeInv, OnceInv, [Next]_vars PROVE OnceInv'
  OBVIOUS
<1> HooksOK /\ PurchasesOK
  BY DEF TypeInv
<1>0. CASE UNCHANGED <<stripe, payment, seen, hook, granted>>
  BY <1>0 DEF OnceInv, stripe
<1>1. ASSUME NEW p \in Purchases, CreateIntent(p) \/ Refuse(p) \/ Pay(p) PROVE OnceInv'
  <2>1. CASE CreateIntent(p)
    BY <2>1 DEF CreateIntent, OnceInv, PurchasesOK
  <2>2. CASE Refuse(p)
    BY <2>2 DEF Refuse, OnceInv, Success
  <2>3. CASE Pay(p)
    BY <2>3 DEF Pay, OnceInv, PurchasesOK, Success
  <2> QED BY <1>1, <2>1, <2>2, <2>3
<1>2. ASSUME NEW h \in Hooks, NEW e \in Events, RecordEvent(h, e) PROVE OnceInv'
  <2>1. /\ e \in sent /\ e \notin seen /\ seen' = seen \cup {e}
        /\ UNCHANGED <<stripe, payment, granted>>
    BY <1>2 DEF RecordEvent, IsReplay
  <2>2. hook'[h].event = e /\ \A g \in Hooks : g # h => hook'[g] = hook[g]
    BY <1>2 DEF RecordEvent, Proceed, HooksOK, Waiting
  <2>3. e.kind = "succeeded" => granted[e.of] = 0
    <3>1. e.of \in Purchases /\ (e.kind = "succeeded" => e = Success(e.of))
      BY SuccessIs DEF Events
    <3> QED BY <2>1, <3>1 DEF OnceInv, PurchasesOK
  <2> QED BY <2>1, <2>2, <2>3 DEF OnceInv, stripe
<1>3. ASSUME NEW h \in Hooks, Done(h), UNCHANGED <<stripe, payment, seen, granted>>
      PROVE  OnceInv'
  BY <1>3, OthersStay DEF OnceInv, stripe
<1>4. ASSUME NEW h \in Hooks, Applying(h) PROVE OnceInv'
  <2>1. CASE GrantPlan(h)
    BY <2>1, <1>3, GrantOnce DEF GrantPlan, Handles
  <2>2. CASE GrantLeadPack(h)
    BY <2>2, <1>3, GrantOnce DEF GrantLeadPack, Handles
  <2>3. CASE GrantZipRead(h)
    <3>1. CASE FirstSuccess(hook[h].event.of)
      <4>1. hook' = [hook EXCEPT ![h] = [hook[h] EXCEPT !.pc = "merge", !.zips = featured]]
        BY <2>3, <3>1 DEF GrantZipRead, Proceed
      <4>2. /\ \A g \in Hooks : hook'[g].event = hook[g].event
            /\ \A g \in Hooks : hook'[g].pc # "idle" => hook[g].pc # "idle"
        BY <2>3, <4>1 DEF GrantZipRead, Handles, HooksOK, HookMemory
      <4> QED BY <2>3, <4>2 DEF GrantZipRead, OnceInv, stripe
    <3>2. CASE ~FirstSuccess(hook[h].event.of)
      BY <2>3, <3>2, <1>3 DEF GrantZipRead
    <3> QED BY <3>1, <3>2
  <2>4. CASE GrantZipCommit(h)
    BY <2>4, GrantOnce, InHand DEF GrantZipCommit
  <2>5. CASE ApplyFailed(h)
    <3>1. /\ Done(h) /\ UNCHANGED <<stripe, seen, granted>>
          /\ \A p \in Purchases : payment'[p] = "SUCCEEDED" => payment[p] = "SUCCEEDED"
      BY <2>5 DEF ApplyFailed, PurchasesOK
    <3> QED BY <3>1, OthersStay DEF OnceInv, stripe
  <2>6. CASE GrantBadge(h)
    BY <2>6, <1>3, GrantOnce DEF GrantBadge, Handles
  <2> QED BY <1>4, <2>1, <2>2, <2>3, <2>4, <2>5, <2>6 DEF Applying
<1>5. ASSUME NEW h \in Hooks, FailHook(h) PROVE OnceInv'
  BY <1>5, <1>3 DEF FailHook
<1>6. ASSUME NEW b \in Bidders, Bidding(b) PROVE OnceInv'
  BY <1>0, <1>6 DEF Bidding, ViewRead, ViewReset, ConsumeRead, ConsumeReadCredits,
                    ConsumeMonthly, ConsumeCredit, RollBack
<1>7. CASE MonthPasses
  BY <1>0, <1>7 DEF MonthPasses
<1>8. CASE UNCHANGED vars
  BY <1>0, <1>8 DEF vars
<1> QED BY <1>1, <1>2, <1>4, <1>5, <1>6, <1>7, <1>8 DEF Next, Buying

(* OnceInv is an invariant. *)
LEMMA OnceHolds == Spec => []OnceInv
<1>1. Init => OnceInv
  BY DEF Init, OnceInv, Waiting
<1> QED BY <1>1, OnceStep, TypeHolds, PTL DEF Spec

(***************************************************************************)
(* However events are duplicated, reordered and interleaved, and whatever  *)
(* fails: at most one grant for a purchase, and only if it was paid.       *)
(***************************************************************************)
THEOREM GrantsAsPaid == Spec => []GrantedAsPaid
<1>1. TypeInv /\ OnceInv => GrantedAsPaid
  BY DEF TypeInv, PurchasesOK, OnceInv, GrantedAsPaid
<1> QED BY <1>1, TypeHolds, OnceHolds, PTL

(***************************************************************************)
(* A paid add-on stays paid, whatever failed attempts are reported late.   *)
(***************************************************************************)
THEOREM PaidAddonsStayPaid == Spec => PaidAddonStaysPaid
<1> DEFINE A == \A p \in Addons : payment[p] = "SUCCEEDED" => payment'[p] = "SUCCEEDED"
<1>1. TypeInv /\ OnceInv /\ [Next]_vars => [A]_vars
  <2> SUFFICES ASSUME TypeInv, OnceInv, Next, NEW p \in Addons, payment[p] = "SUCCEEDED"
               PROVE  payment'[p] = "SUCCEEDED"
    OBVIOUS
  <2> HooksOK /\ PurchasesOK /\ p \in Purchases /\ p \notin Plans
    BY BillingAssumption DEF TypeInv, Purchases
  <2>1. intent[p] = "paid"
    BY DEF OnceInv
  <2>2. ASSUME NEW q \in Purchases, CreateIntent(q) \/ Refuse(q) \/ Pay(q)
        PROVE  payment'[p] = payment[p]
    BY <2>1, <2>2 DEF CreateIntent, Refuse, Pay, PurchasesOK
  <2>3. ASSUME NEW q \in Purchases, Grant(q) PROVE payment'[p] = "SUCCEEDED"
    BY <2>3 DEF Grant, PurchasesOK
  <2>4. ASSUME NEW h \in Hooks, ApplyFailed(h) PROVE payment'[p] = payment[p]
    BY <2>4 DEF ApplyFailed, MayFailAddon, PurchasesOK
  <2>5. ASSUME NEW h \in Hooks, Applying(h) PROVE payment'[p] = "SUCCEEDED"
    BY <2>3, <2>4, <2>5, InHand DEF Applying, GrantPlan, GrantLeadPack, GrantBadge,
                                    GrantZipRead, GrantZipCommit, Handles
  <2>6. \/ UNCHANGED payment
        \/ \E h \in Hooks : Applying(h)
        \/ \E q \in Purchases : CreateIntent(q) \/ Refuse(q) \/ Pay(q)
    BY DEF Next, Buying, RecordEvent, FailHook, MonthPasses, Bidding, ViewRead, ViewReset,
           ConsumeRead, ConsumeReadCredits, ConsumeMonthly, ConsumeCredit, RollBack
  <2> QED BY <2>2, <2>5, <2>6
<1> QED BY <1>1, TypeHolds, OnceHolds, PTL DEF Spec, PaidAddonStaysPaid

----------------------------------------------------------------------------
(* Lead credits *)

GrantedPacks == {p \in LeadPacks : granted[p] > 0}

(* Granting something other than a lead pack leaves GrantedPacks alone, and
   granting a pack for the first time adds it. *)
LEMMA PacksGranted ==
    ASSUME PurchasesOK, NEW p \in Purchases, Grant(p)
    PROVE  GrantedPacks' = GrantedPacks \cup ({p} \cap LeadPacks)
<1>1. \A q \in LeadPacks : q \in Purchases
  BY DEF Purchases, Addons
<1>2. \A q \in Purchases : granted'[q] = IF q = p THEN granted[p] + 1 ELSE granted[q]
  BY DEF Grant, PurchasesOK
<1>3. granted[p] + 1 > 0
  BY DEF PurchasesOK
<1> QED BY <1>1, <1>2, <1>3 DEF GrantedPacks

(***************************************************************************)
(* What is left of the lead credits and what was spent is what was         *)
(* granted, however grants and bids interleave.                            *)
(***************************************************************************)
THEOREM CreditsAreAccounted == Spec => []CreditsAccounted
<1>1. Init => CreditsAccounted
  <2> SUFFICES ASSUME Init PROVE CreditsAccounted
    OBVIOUS
  <2>1. {p \in LeadPacks : granted[p] > 0} = {}
    BY DEF Init, Purchases, Addons
  <2> QED BY <2>1, FS_EmptySet DEF Init, CreditsAccounted
<1>2. TypeInv /\ OnceInv /\ CreditsAccounted /\ [Next]_vars => CreditsAccounted'
  <2> SUFFICES ASSUME TypeInv, OnceInv, CreditsAccounted, [Next]_vars PROVE CreditsAccounted'
    OBVIOUS
  <2> HooksOK /\ PurchasesOK /\ QuotaOK
    BY DEF TypeInv
  <2>0. CASE UNCHANGED <<credits, spent, granted>>
    BY <2>0 DEF CreditsAccounted
  <2>1. ASSUME NEW p \in Purchases \ LeadPacks, Grant(p), UNCHANGED <<credits, spent>>
        PROVE  CreditsAccounted'
    <3>1. GrantedPacks' = GrantedPacks
      BY <2>1, PacksGranted
    <3> QED BY <2>1, <3>1 DEF CreditsAccounted, GrantedPacks
  <2>2. ASSUME NEW h \in Hooks, GrantLeadPack(h) PROVE CreditsAccounted'
    <3> DEFINE p == hook[h].event.of
    <3>1. CASE FirstSuccess(p)
      <4>1. Grant(p) /\ credits' = credits + 1 /\ spent' = spent
        BY <2>2, <3>1 DEF GrantLeadPack
      <4>2. p \in LeadPacks /\ p \in Purchases /\ granted[p] = 0
        BY <2>2, InHand DEF GrantLeadPack, Handles, OnceInv
      <4>3. p \notin GrantedPacks /\ GrantedPacks' = GrantedPacks \cup {p}
        BY <4>1, <4>2, PacksGranted DEF GrantedPacks
      <4>4. IsFiniteSet(GrantedPacks)
        BY BillingAssumption, FS_Subset DEF GrantedPacks
      <4>5. Cardinality(GrantedPacks') = Cardinality(GrantedPacks) + 1
        BY <4>3, <4>4, FS_AddElement
      <4>6. Cardinality(GrantedPacks) \in Nat
        BY <4>4, FS_CardinalityType
      <4> QED BY <4>1, <4>5, <4>6 DEF CreditsAccounted, GrantedPacks, QuotaOK
    <3>2. CASE ~FirstSuccess(p)
      BY <2>0, <2>2, <3>2 DEF GrantLeadPack
    <3> QED BY <3>1, <3>2
  <2>3. ASSUME NEW b \in Bidders, ConsumeCredit(b) PROVE CreditsAccounted'
    BY <2>3 DEF ConsumeCredit, CreditsAccounted, QuotaOK
  <2>4. ASSUME NEW h \in Hooks, GrantPlan(h) \/ GrantZipCommit(h) \/ GrantBadge(h)
        PROVE  CreditsAccounted'
    <3>1. hook[h].event.of \in Purchases \ LeadPacks
      BY <2>4, InHand, BillingAssumption DEF GrantPlan, GrantZipCommit, GrantBadge, Handles, Addons
    <3> QED BY <2>0, <2>1, <2>4, <3>1 DEF GrantPlan, GrantZipCommit, GrantBadge, quota
  <2>5. \/ UNCHANGED <<credits, spent, granted>>
        \/ \E h \in Hooks : GrantLeadPack(h) \/ GrantPlan(h) \/ GrantZipCommit(h) \/ GrantBadge(h)
        \/ \E b \in Bidders : ConsumeCredit(b)
    BY DEF Next, vars, quota, Buying, CreateIntent, Refuse, Pay, RecordEvent, Applying,
           GrantZipRead, ApplyFailed, FailHook, Bidding, ViewRead, ViewReset, ConsumeRead,
           ConsumeReadCredits, ConsumeMonthly, RollBack, MonthPasses
  <2> QED BY <2>0, <2>2, <2>3, <2>4, <2>5
<1> QED BY <1>1, <1>2, TypeHolds, OnceHolds, PTL DEF Spec

----------------------------------------------------------------------------
(* The app in front *)

PayPCs == {"idle", "create", "created", "sheet", "confirm", "answer"}
PayMemory == [pc : PayPCs, of : Purchases \cup {None}, ok : BOOLEAN]
Paying == pay.pc # "idle"

(* One press at a time, and it is about one purchase from intent to answer. *)
PressInv ==
    /\ pay \in PayMemory
    /\ Paying => pay.of \in Purchases
    /\ intent \in [Purchases -> {"none", "offered", "paid"}]
    /\ told \in [Purchases -> {"nothing", "success", "cancelled", "error"}]
    /\ scene \in [app : BOOLEAN, sold : SUBSET Purchases]

(* How far the intent of the press under way is *)
Reached(pc, stage) == CASE pc = "create" -> stage = "none"
                        [] pc \in {"created", "sheet"} -> stage = "offered"
                        [] pc \in {"confirm", "answer"} -> stage = "paid"
                        [] OTHER -> TRUE

(* What the app has said of a purchase whose intent is not offered yet may *)
(* be an error, for it may be pressed again; and of the purchase under way *)
(* it has said nothing else either.  An answer refuses what is an add-on.  *)
AnswerInv ==
    /\ \A p \in Purchases : intent[p] = "none" => told[p] \in {"nothing", "error"}
    /\ Paying => told[pay.of] \in {"nothing", "error"} /\ Reached(pay.pc, intent[pay.of])
    /\ pay.pc = "answer" => (pay.ok <=> pay.of \in Plans)
    /\ ChargesAnswered
CheckoutInv == PressInv /\ (scene.app => AnswerInv)

(* The two spellings of a press: none, and one that goes on. *)
LEMMA PressIsOver == NoPay \in PayMemory /\ NoPay.pc = "idle"
  BY DEF NoPay, PayMemory, PayPCs

(* The app leaves the rows of Billing alone, or moves them as a client of it. *)
LEMMA AppBuys == ASSUME PressInv, App PROVE UNCHANGED vars \/ Buying
<1>1. ASSUME ServeCreate \/ SheetRefuses \/ SheetPays PROVE Buying
  BY <1>1 DEF ServeCreate, SheetRefuses, SheetPays, Buying, PressInv, Paying
<1> QED BY <1>1
     DEF App, ServeLoad, LoadAnswer, Refresh, OpenModal, CloseModal, PressPay, OpenSheet,
         SheetEnds, ServeConfirm, PayAnswer, LosePay, Killed

(* Webhook requests and bids leave the intents alone. *)
LEMMA IntentsStay ==
    ASSUME \/ \E b \in Bidders : Bidding(b)
           \/ MonthPasses
           \/ \E h \in Hooks : (\E e \in Events : RecordEvent(h, e)) \/ Applying(h) \/ FailHook(h)
    PROVE  intent' = intent
  BY DEF vars, stripe, quota, RecordEvent, Applying, GrantPlan, GrantLeadPack, GrantBadge,
         GrantZipRead, GrantZipCommit, ApplyFailed, FailHook, Bidding, ViewRead, ViewReset,
         ConsumeRead, ConsumeReadCredits, ConsumeMonthly, ConsumeCredit, RollBack, MonthPasses

(* A step that leaves intents, press and what was said alone. *)
LEMMA CheckoutBeside ==
    ASSUME CheckoutInv, UNCHANGED <<intent, pay, told, lost, scene>> PROVE CheckoutInv'
  BY DEF CheckoutInv, PressInv, AnswerInv, ChargesAnswered, Paying

(* The press under way goes on to m, and the app says nothing new. *)
LEMMA PressMoves ==
    ASSUME PressInv, Paying, NEW pc \in PayPCs \ {"idle"}, NEW ok \in BOOLEAN,
           pay' = [pay EXCEPT !.pc = pc, !.ok = ok],
           NEW stage \in {"none", "offered", "paid"}, intent' = [intent EXCEPT ![pay.of] = stage],
           UNCHANGED <<told, lost, scene>>,
           stage = "none" => intent[pay.of] = "none",
           scene.app => /\ AnswerInv /\ Reached(pc, stage)
                        /\ pc = "answer" => (ok <=> pay.of \in Plans)
    PROVE  CheckoutInv'
<1>1. /\ pay' \in PayMemory /\ pay'.pc = pc /\ pay'.of = pay.of /\ pay'.ok = ok
      /\ pay.of \in Purchases
  BY DEF PressInv, PayMemory, Paying
<1>2. PressInv'
  BY <1>1 DEF PressInv
<1>3. intent'[pay.of] = stage /\ \A p \in Purchases \ {pay.of} : intent'[p] = intent[p]
  BY <1>1 DEF PressInv
<1>4. ASSUME scene.app PROVE AnswerInv'
  <2>0. AnswerInv /\ Reached(pc, stage) /\ (pc = "answer" => (ok <=> pay.of \in Plans))
    BY <1>4
  <2>1. \A p \in Purchases : intent'[p] = "none" => told[p] \in {"nothing", "error"}
    BY <1>3, <2>0 DEF AnswerInv
  <2>2. told[pay.of] \in {"nothing", "error"}
    BY <2>0 DEF AnswerInv
  <2>3. ASSUME NEW p \in Purchases
        PROVE  /\ told[p] = "success" => intent'[p] = "paid"
               /\ told[p] = "cancelled" => intent'[p] # "paid"
               /\ intent'[p] = "paid" =>
                     \/ told[p] = "success"
                     \/ pay.of = p /\ pc \in {"confirm", "answer"}
                     \/ p \in lost
                     \/ p \in Addons /\ told[p] = "error"
    <3>1. CASE p = pay.of
      BY <1>3, <2>0, <2>2, <3>1 DEF Reached, PayPCs
    <3>2. CASE p # pay.of
      BY <1>3, <1>4, <2>0, <3>2 DEF AnswerInv, ChargesAnswered
    <3> QED BY <3>1, <3>2
  <2>4. ChargesAnswered'
    BY <1>1, <2>3 DEF ChargesAnswered
  <2> QED BY <1>1, <1>3, <2>0, <2>1, <2>2, <2>4 DEF AnswerInv, Paying
<1> QED BY <1>2, <1>4 DEF CheckoutInv

(* The press under way ends, with what the app says of it. *)
LEMMA PressEnds ==
    ASSUME CheckoutInv, Paying, NEW what \in {"success", "cancelled", "error"},
           Ends(pay.of, what), UNCHANGED <<intent, scene>>, lost \subseteq lost',
           scene.app => /\ what = "success" => intent[pay.of] = "paid"
                        /\ what = "cancelled" => intent[pay.of] = "offered"
                        /\ what = "error" => \/ intent[pay.of] # "paid"
                                             \/ pay.of \in lost'
                                             \/ pay.of \in Addons
    PROVE  CheckoutInv'
<1>0. pay.of \in Purchases /\ PressInv
  BY DEF CheckoutInv, PressInv
<1>1. pay'.pc = "idle" /\ pay' \in PayMemory
  BY PressIsOver DEF Ends
<1>2. told'[pay.of] = what /\ \A p \in Purchases \ {pay.of} : told'[p] = told[p]
  BY <1>0 DEF Ends, PressInv
<1>3. PressInv'
  BY <1>0, <1>1 DEF PressInv, Ends, Paying
<1>4. ASSUME scene.app PROVE AnswerInv'
  <2>0. AnswerInv
    BY <1>4 DEF CheckoutInv
  <2>1. \A p \in Purchases : intent[p] = "none" => told'[p] \in {"nothing", "error"}
    BY <1>2, <1>4, <2>0 DEF AnswerInv
  <2>2. ASSUME NEW p \in Purchases
        PROVE  /\ told'[p] = "success" => intent[p] = "paid"
               /\ told'[p] = "cancelled" => intent[p] # "paid"
               /\ intent[p] = "paid" =>
                     \/ told'[p] = "success"
                     \/ p \in lost'
                     \/ p \in Addons /\ told'[p] = "error"
    <3>1. CASE p = pay.of
      BY <1>2, <1>4, <3>1
    <3>2. CASE p # pay.of
      BY <1>2, <1>4, <2>0, <3>2 DEF AnswerInv, ChargesAnswered
    <3> QED BY <3>1, <3>2
  <2>3. ChargesAnswered'
    BY <2>2 DEF ChargesAnswered
  <2> QED BY <1>1, <2>1, <2>3 DEF AnswerInv, Paying
<1> QED BY <1>3, <1>4 DEF CheckoutInv

(* A press starts on a purchase without an intent. *)
LEMMA PressStarts ==
    ASSUME CheckoutInv, NEW p \in Purchases, PressPay(p), UNCHANGED intent PROVE CheckoutInv'
<1> DEFINE m == [NoPay EXCEPT !.pc = "create", !.of = p]
<1>1. m.pc = "create" /\ m.of = p /\ m \in PayMemory
  BY DEF NoPay, PayMemory, PayPCs
<1>2. /\ pay' = m /\ pay.pc = "idle" /\ intent[p] = "none"
      /\ UNCHANGED <<told, lost, scene>>
  BY DEF PressPay, MayPay
<1> HIDE DEF m
<1>3. PressInv'
  BY <1>1, <1>2 DEF CheckoutInv, PressInv
<1>4. ASSUME scene.app PROVE AnswerInv'
  BY <1>1, <1>2, <1>4 DEF CheckoutInv, AnswerInv, ChargesAnswered, Paying, Reached
<1> QED BY <1>2, <1>3, <1>4 DEF CheckoutInv

(* The app is killed: the purchase is one of those cut off. *)
LEMMA PressIsKilled == ASSUME CheckoutInv, Killed, UNCHANGED intent PROVE CheckoutInv'
<1>1. /\ pay'.pc = "idle" /\ pay' \in PayMemory /\ Paying /\ pay.of \in Purchases
      /\ lost' = lost \cup {pay.of} /\ UNCHANGED <<told, scene>>
  BY PressIsOver DEF Killed, CheckoutInv, PressInv, Paying
<1>2. PressInv'
  BY <1>1 DEF CheckoutInv, PressInv, Paying
<1>3. ASSUME scene.app PROVE AnswerInv'
  <2>1. ChargesAnswered'
    BY <1>1, <1>3 DEF CheckoutInv, AnswerInv, ChargesAnswered
  <2> QED BY <1>1, <1>3, <2>1 DEF CheckoutInv, AnswerInv, Paying
<1> QED BY <1>1, <1>2, <1>3 DEF CheckoutInv

(* Each step of the app. *)
LEMMA AppStep == ASSUME CheckoutInv, App PROVE CheckoutInv'
<1> PressInv
  BY DEF CheckoutInv
<1>0. Paying => pay \in PayMemory /\ pay.of \in Purchases /\ pay.ok \in BOOLEAN
  BY DEF PressInv, PayMemory
<1>a. ASSUME NEW pc \in PayPCs \ {"idle"}, pay' = [pay EXCEPT !.pc = pc], Paying
      PROVE  pay' = [pay EXCEPT !.pc = pc, !.ok = pay.ok]
  BY <1>0, <1>a DEF PayMemory
<1>b. Paying => intent = [intent EXCEPT ![pay.of] = intent[pay.of]]
                  /\ intent[pay.of] \in {"none", "offered", "paid"}
  BY <1>0 DEF PressInv
<1>1. CASE ServeLoad \/ LoadAnswer \/ Refresh \/ CloseModal \/ (\E m \in Modals : OpenModal(m))
  BY <1>1, CheckoutBeside
     DEF ServeLoad, LoadAnswer, Refresh, CloseModal, OpenModal, vars, stripe
<1>2. CASE SheetRefuses
  BY <1>2, CheckoutBeside DEF SheetRefuses, Refuse, appVars
<1>3. ASSUME NEW p \in Purchases, PressPay(p) PROVE CheckoutInv'
  BY <1>3, PressStarts DEF PressPay, vars, stripe
<1>4. CASE ServeCreate
  <2>1. /\ Paying /\ intent' = [intent EXCEPT ![pay.of] = "offered"]
        /\ pay' = [pay EXCEPT !.pc = "created"] /\ UNCHANGED <<told, lost, scene>>
    BY <1>4 DEF ServeCreate, CreateIntent, Paying
  <2>2. Reached("created", "offered") /\ "created" \in PayPCs \ {"idle"}
    BY DEF Reached, PayPCs
  <2>3. pay' = [pay EXCEPT !.pc = "created", !.ok = pay.ok]
    BY <1>a, <2>1, <2>2
  <2> QED BY <1>0, <2>1, <2>2, <2>3, PressMoves DEF CheckoutInv
<1>5. CASE OpenSheet
  <2>1. /\ Paying /\ intent' = intent /\ pay.pc = "created"
        /\ pay' = [pay EXCEPT !.pc = "sheet"] /\ UNCHANGED <<told, lost, scene>>
    BY <1>5 DEF OpenSheet, Paying, vars, stripe
  <2>2. (scene.app => Reached("sheet", intent[pay.of])) /\ "sheet" \in PayPCs \ {"idle"}
    BY <2>1 DEF Reached, PayPCs, CheckoutInv, AnswerInv
  <2>3. pay' = [pay EXCEPT !.pc = "sheet", !.ok = pay.ok]
    BY <1>a, <2>1, <2>2
  <2> QED BY <1>0, <1>b, <2>1, <2>2, <2>3, PressMoves DEF CheckoutInv
<1>6. CASE SheetPays
  <2>1. /\ Paying /\ intent' = [intent EXCEPT ![pay.of] = "paid"]
        /\ pay' = [pay EXCEPT !.pc = "confirm"] /\ UNCHANGED <<told, lost, scene>>
    BY <1>6 DEF SheetPays, Pay, Paying
  <2>2. Reached("confirm", "paid") /\ "confirm" \in PayPCs \ {"idle"}
    BY DEF Reached, PayPCs
  <2>3. pay' = [pay EXCEPT !.pc = "confirm", !.ok = pay.ok]
    BY <1>a, <2>1, <2>2
  <2> QED BY <1>0, <2>1, <2>2, <2>3, PressMoves DEF CheckoutInv
<1>7. CASE ServeConfirm
  <2>1. /\ Paying /\ intent' = intent /\ pay.pc = "confirm"
        /\ pay' = [pay EXCEPT !.pc = "answer", !.ok = Confirmed(pay.of)]
        /\ UNCHANGED <<told, lost, scene>>
    BY <1>7 DEF ServeConfirm, Paying, vars, stripe
  <2>2. scene.app => intent[pay.of] = "paid"
    BY <2>1 DEF Reached, CheckoutInv, AnswerInv
  <2>3. /\ scene.app => /\ Reached("answer", intent[pay.of])
                        /\ Confirmed(pay.of) <=> pay.of \in Plans
        /\ "answer" \in PayPCs \ {"idle"} /\ Confirmed(pay.of) \in BOOLEAN
    BY <2>2 DEF Reached, PayPCs, Confirmed, NamesUser
  <2> QED BY <1>0, <1>b, <2>1, <2>3, PressMoves DEF CheckoutInv
<1>8. CASE SheetEnds
  <2>1. PICK what \in {"cancelled", "error"} : Ends(pay.of, what)
    BY <1>8 DEF SheetEnds
  <2>2. Paying /\ pay.pc = "sheet" /\ UNCHANGED <<intent, scene, lost>>
    BY <1>8 DEF SheetEnds, Paying, vars, stripe
  <2>3. scene.app => intent[pay.of] = "offered"
    BY <2>2 DEF Reached, CheckoutInv, AnswerInv
  <2> QED BY <2>1, <2>2, <2>3, PressEnds
<1>9. CASE PayAnswer
  <2>1. Paying /\ pay.pc = "answer" /\ UNCHANGED <<intent, scene, lost>>
    BY <1>9 DEF PayAnswer, Paying, vars, stripe
  <2>2. scene.app => intent[pay.of] = "paid" /\ (pay.ok \/ pay.of \in Addons)
    BY <1>0, <2>1 DEF Reached, CheckoutInv, AnswerInv, Purchases
  <2>3. \/ pay.ok /\ Ends(pay.of, "success")
        \/ ~pay.ok /\ Ends(pay.of, "error")
    BY <1>9 DEF PayAnswer
  <2> QED BY <2>1, <2>2, <2>3, PressEnds
<1>10. CASE LosePay
  <2>1. /\ Paying /\ UNCHANGED <<intent, scene>> /\ lost' = lost \cup {pay.of}
        /\ Ends(pay.of, "error")
    BY <1>10 DEF LosePay, Paying, vars, stripe
  <2> QED BY <2>1, PressEnds
<1>11. CASE Killed
  BY <1>11, PressIsKilled DEF Killed, vars, stripe
<1> QED BY <1>1, <1>2, <1>3, <1>4, <1>5, <1>6, <1>7, <1>8, <1>9, <1>10, <1>11 DEF App

LEMMA CheckoutStep ==
    CheckoutInv /\ [CheckoutsNext]_<<vars, appVars>> => CheckoutInv'
<1> SUFFICES ASSUME CheckoutInv, [CheckoutsNext]_<<vars, appVars>> PROVE CheckoutInv'
  OBVIOUS
<1>1. ASSUME ~scene.app, NEW p \in Purchases, CreateIntent(p) \/ Refuse(p) \/ Pay(p),
             UNCHANGED appVars
      PROVE  CheckoutInv'
  BY <1>1 DEF CreateIntent, Refuse, Pay, appVars, CheckoutInv, PressInv, Paying
<1>2. ASSUME intent' = intent, UNCHANGED appVars PROVE CheckoutInv'
  BY <1>2, CheckoutBeside DEF appVars
<1>3. CASE UNCHANGED <<vars, appVars>>
  BY <1>2, <1>3 DEF vars, stripe
<1>4. \A p \in scene.sold : p \in Purchases
  BY DEF CheckoutInv, PressInv
<1> QED BY <1>1, <1>2, <1>3, <1>4, AppStep, IntentsStay DEF CheckoutsNext

LEMMA CheckoutHolds == CheckoutsSpec => []CheckoutInv
<1>1. CheckoutsInit => CheckoutInv
  BY CheckoutsAssumption, PressIsOver
     DEF CheckoutsInit, Init, CheckoutInv, PressInv, AnswerInv, ChargesAnswered, Paying, NoPay
<1> QED BY <1>1, CheckoutStep, PTL DEF CheckoutsSpec

(***************************************************************************)
(* Every charge is answered for, whatever is lost, refused, repeated or    *)
(* killed, while the webhook grants when it likes: "success" means paid,   *)
(* "cancelled" not paid, and what was paid is said so or will be, unless a *)
(* request of it was lost or it is an add-on.                              *)
(***************************************************************************)
THEOREM ChargesAreAnswered == CheckoutsSpec => []ChargesAnswered
<1>1. CheckoutInv => ChargesAnswered
  BY DEF CheckoutInv, AnswerInv, ChargesAnswered
<1> QED BY <1>1, CheckoutHolds, PTL

(***************************************************************************)
(* The composition of app and server implements the server: every step of  *)
(* Checkouts is a step of Billing or leaves its rows alone, so what is     *)
(* proved of any client of Billing holds with the app in front of it.      *)
(***************************************************************************)
THEOREM CheckoutsImplementBilling == CheckoutsSpec => Spec
<1>1. CheckoutsInit => Init
  BY DEF CheckoutsInit
<1>2. CheckoutInv /\ [CheckoutsNext]_<<vars, appVars>> => [Next]_vars
  <2> SUFFICES ASSUME CheckoutInv, [CheckoutsNext]_<<vars, appVars>> PROVE [Next]_vars
    OBVIOUS
  <2>1. PressInv /\ \A p \in scene.sold : p \in Purchases
    BY DEF CheckoutInv, PressInv
  <2> QED BY <2>1, AppBuys DEF CheckoutsNext, Next, Buying
<1> QED BY <1>1, <1>2, CheckoutHolds, PTL DEF CheckoutsSpec, Spec

(***************************************************************************)
(* With the app in front, too, a purchase is granted at most once and only *)
(* if it was paid, and no lead credit is lost or made up.                  *)
(***************************************************************************)
THEOREM CheckoutsGrantAsPaid == CheckoutsSpec => [](GrantedAsPaid /\ CreditsAccounted)
  BY CheckoutsImplementBilling, GrantsAsPaid, CreditsAreAccounted, PTL
=============================================================================
