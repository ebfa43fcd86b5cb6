------------------------- MODULE MCWebhookDelivery -------------------------
(* An instance of WebhookDelivery for TLC. *)
EXTENDS WebhookDelivery

(* One worker that is up has two deliveries, two workers have one.  What    *)
(* this cuts off is Enqueue, which no fairness condition asks for.          *)
OneOrPair == \/ \E w \in Workers : At(w, "off")
             \/ \E d \in Deliveries : delivery[d].status = "NONE"
=============================================================================
