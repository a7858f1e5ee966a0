------------------------- MODULE MCWebhookDelivery -------------------------
(* WebhookDelivery for two events that share a delivery id.                *)
EXTENDS WebhookDelivery
CONSTANTS d1

MCDeliveryId == [e \in Event |-> d1]
=============================================================================
