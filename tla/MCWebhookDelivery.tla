--------------------------- MODULE MCWebhookDelivery ---------------------------
(* WebhookDelivery on small instances. *)
EXTENDS WebhookDelivery

CONSTANTS d1, d2, w1, i1

AtHome == [a \in {d1, d2, w1} |-> i1]
===============================================================================
