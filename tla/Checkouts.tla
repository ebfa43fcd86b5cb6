----------------------------- MODULE Checkouts -----------------------------
(***************************************************************************)
(* How one provider buys in the app: the subscription screen               *)
(* (src/home-hero-mobile/src/screens/SubscriptionScreen.tsx), its four     *)
(* checkout modals, the payment sheet of Stripe, and the requests that     *)
(* create, confirm and show, over the rows and webhooks of Billing.        *)
(*                                                                         *)
(* A press of Pay awaits, one after the other, the intent, the sheet and   *)
(* the confirmation.  Any request may be lost before or after the server   *)
(* did its part, and the app may be killed; the money is moved by the      *)
(* sheet alone, and what was bought is granted by the webhook alone.       *)
(*                                                                         *)
(* Every row of Purchases is one press.  GET /subscription shows the badge *)
(* and the zip codes of ProviderProfile and the extra leads of the         *)
(* subscription, which no grant of an add-on writes any more: of what it   *)
(* shows only the tier changes.  A button to downgrade is answered 403     *)
(* (POST /subscription/downgrade and /upgrade refuse whatever is asked).   *)
(***************************************************************************)
EXTENDS Billing

CONSTANTS Scenes,  \* bound: [app, sold], whether the app buys, and what can be bought
          MaxLost  \* bound: requests lost, and deaths of the app

ASSUME CheckoutsAssumption ==
    /\ Scenes \subseteq [app : BOOLEAN, sold : SUBSET Purchases]
    /\ MaxLost \in Nat

VARIABLES
    scene,  \* the member of Scenes this behaviour is about
    shown,  \* the tier on the screen; None before the first answer
    load,   \* the newest GET /subscription: idle, asked, or answered with a tier
    modal,  \* the modal that is open, or None
    pay,    \* the press of Pay under way: where it is, of which row, the answer
    told,   \* history: what the app last said of each purchase
    lost    \* history: the purchases a lost request, or the death of the app, cut off

appVars == <<scene, shown, load, modal, pay, told, lost>>

Modals == {"BASIC", "PRO", "leads", "zips", "badge"}
ModalOf(p) == CASE p \in Basics -> "BASIC" [] p \in Pros -> "PRO" [] p \in LeadPacks -> "leads"
                [] p \in Zips -> "zips" [] p \in Badges -> "badge"
NoLoad == [pc |-> "idle", tier |-> "FREE"]
Asked == [NoLoad EXCEPT !.pc = "asked"]
NoPay == [pc |-> "idle", of |-> None, ok |-> FALSE]

Cut == Cardinality(lost)

CheckoutsInit ==
    /\ Init
    /\ scene \in Scenes
    /\ shown = None
    /\ load = Asked                                          \* useFocusEffect
    /\ modal = None
    /\ pay = NoPay
    /\ told = [p \in Purchases |-> "nothing"]
    /\ lost = {}

----------------------------------------------------------------------------
(* The screen *)

(* GET /subscription answers with the tier of the row. *)
ServeLoad ==
    /\ load.pc = "asked"
    /\ load' = [pc |-> "answered", tier |-> sub.tier]
    /\ UNCHANGED <<vars, scene, shown, modal, pay, told, lost>>

(* An answer, or an error, which leaves the plans of the last answer. *)
LoadAnswer ==
    /\ load.pc = "answered"
    /\ \/ shown' = load.tier
       \/ UNCHANGED shown
    /\ load' = NoLoad
    /\ UNCHANGED <<vars, scene, modal, pay, told, lost>>

(* The button in the header, or Retry; an older request is then ignored. *)
Refresh ==
    /\ modal = None
    /\ load' = Asked
    /\ UNCHANGED <<vars, scene, shown, modal, pay, told, lost>>

(* getTierHierarchy *)
Rank(tier) == CASE tier = "FREE" -> 0 [] tier = "BASIC" -> 1 [] tier = "PRO" -> 2

(* The plans are not drawn while they are loaded. *)
Offered(m) == m \in {"BASIC", "PRO"} => Rank(m) > Rank(shown)

OpenModal(m) ==
    /\ modal = None /\ load.pc = "idle" /\ shown # None
    /\ Offered(m)
    /\ modal' = m
    /\ UNCHANGED <<vars, scene, shown, load, pay, told, lost>>

(* handleClose does nothing while a payment is processed. *)
MayClose == pay.pc = "idle"

CloseModal ==
    /\ modal # None /\ MayClose
    /\ modal' = None
    /\ UNCHANGED <<vars, scene, shown, load, pay, told, lost>>

----------------------------------------------------------------------------
(* A payment: initiatePayment and initiateAddonPayment *)

MayPay_AtAnyTime == TRUE                                              \* mutant
(* The button Pay is disabled while status is "processing". *)
MayPay == pay.pc = "idle"

(* handlePayment, handlePay *)
PressPay(p) ==
    /\ modal = ModalOf(p) /\ MayPay
    /\ p \in scene.sold /\ intent[p] = "none"
    /\ pay' = [NoPay EXCEPT !.pc = "create", !.of = p]
    /\ UNCHANGED <<vars, scene, shown, load, modal, told, lost>>

(* POST /payments/create-intent and POST /provider/addons/purchase *)
ServeCreate ==
    /\ pay.pc = "create" /\ intent[pay.of] = "none"
    /\ CreateIntent(pay.of)
    /\ pay' = [pay EXCEPT !.pc = "created"]
    /\ UNCHANGED <<scene, shown, load, modal, told, lost>>

(* initPaymentSheet, presentPaymentSheet *)
OpenSheet ==
    /\ pay.pc = "created"
    /\ pay' = [pay EXCEPT !.pc = "sheet"]
    /\ UNCHANGED <<vars, scene, shown, load, modal, told, lost>>

(* Within the sheet a refused card may be tried again. *)
SheetRefuses ==
    /\ pay.pc = "sheet"
    /\ Refuse(pay.of)
    /\ UNCHANGED appVars

SheetPays ==
    /\ pay.pc = "sheet"
    /\ Pay(pay.of)
    /\ pay' = [pay EXCEPT !.pc = "confirm"]
    /\ UNCHANGED <<scene, shown, load, modal, told, lost>>

Ends(p, what) == pay' = NoPay /\ told' = [told EXCEPT ![p] = what]

(* The user cancels, or the sheet cannot be set up or fails. *)
SheetEnds ==
    /\ pay.pc = "sheet"
    /\ \E what \in {"cancelled", "error"} : Ends(pay.of, what)
    /\ UNCHANGED <<vars, scene, shown, load, modal, lost>>

(* POST /payments/confirm answers 200 if the intent has succeeded and its  *)
(* metadata name the user: those of a plan do (userId), those of an add-on *)
(* name the provider (providerId), and the answer is 403.                  *)
NamesUser(p) == p \in Plans
Confirmed(p) == intent[p] = "paid" /\ NamesUser(p)

ServeConfirm ==
    /\ pay.pc = "confirm"
    /\ pay' = [pay EXCEPT !.pc = "answer", !.ok = Confirmed(pay.of)]
    /\ UNCHANGED <<vars, scene, shown, load, modal, told, lost>>

(* The modal closes and the screen loads; or it shows the error, with Pay. *)
PayAnswer ==
    /\ pay.pc = "answer"
    /\ IF pay.ok
         THEN Ends(pay.of, "success") /\ modal' = None /\ load' = Asked
         ELSE Ends(pay.of, "error") /\ UNCHANGED <<modal, load>>
    /\ UNCHANGED <<vars, scene, shown, lost>>

(* A request, or its answer, is lost: "Payment failed", though it may be paid. *)
LosePay ==
    /\ pay.pc \in {"create", "created", "confirm", "answer"}
    /\ Cut < MaxLost
    /\ lost' = lost \cup {pay.of}
    /\ Ends(pay.of, "error")
    /\ UNCHANGED <<vars, scene, shown, load, modal>>

(* The app is killed and started again: the last subscription is cached. *)
Killed ==
    /\ pay.pc # "idle"
    /\ Cut < MaxLost
    /\ lost' = lost \cup {pay.of}
    /\ pay' = NoPay /\ modal' = None /\ load' = Asked
    /\ UNCHANGED <<vars, scene, shown, told>>

----------------------------------------------------------------------------
App == \/ ServeLoad \/ LoadAnswer \/ Refresh
       \/ \E m \in Modals : OpenModal(m)
       \/ CloseModal
       \/ \E p \in Purchases : PressPay(p)
       \/ ServeCreate \/ OpenSheet \/ SheetRefuses \/ SheetPays \/ SheetEnds
       \/ ServeConfirm \/ PayAnswer \/ LosePay \/ Killed

(* Without the app, another client buys, bids and lets months pass. *)
CheckoutsNext ==
    \/ scene.app /\ App
    \/ /\ ~scene.app
       /\ \/ \E p \in scene.sold : CreateIntent(p) \/ Refuse(p) \/ Pay(p)
          \/ \E b \in Bidders : Bidding(b)
          \/ MonthPasses
       /\ UNCHANGED appVars
    \/ /\ \E h \in Hooks : (\E e \in Events : RecordEvent(h, e)) \/ Applying(h) \/ FailHook(h)
       /\ UNCHANGED appVars

CheckoutsSpec == CheckoutsInit /\ [][CheckoutsNext]_<<vars, appVars>>

----------------------------------------------------------------------------
(***************************************************************************)
(* Every charge is answered for, however requests are lost, the card is    *)
(* refused and the webhook grants: the app said "success" of a purchase    *)
(* only if it was paid and "cancelled" only if it was not; and of one that *)
(* was paid it said so, or is about to, unless a request of it was lost or *)
(* it is an add-on, which /payments/confirm takes for somebody else's.     *)
(***************************************************************************)
ChargesAnswered ==
    scene.app =>
        \A p \in Purchases :
            /\ told[p] = "success" => intent[p] = "paid"
            /\ told[p] = "cancelled" => intent[p] # "paid"
            /\ intent[p] = "paid" =>
                  \/ told[p] = "success"
                  \/ pay.of = p /\ pay.pc \in {"confirm", "answer"}
                  \/ p \in lost
                  \/ p \in Addons /\ told[p] = "error"

(***************************************************************************)
(* "The client may call POST /payments/confirm after Stripe succeeds to    *)
(* refresh UI state" (src/server.ts, POST /provider/addons/purchase): what *)
(* was paid is not reported as failed unless a request was lost.           *)
(***************************************************************************)
PaidIsConfirmed ==
    \A p \in Purchases : intent[p] = "paid" /\ told[p] = "error" => p \in lost
=============================================================================
