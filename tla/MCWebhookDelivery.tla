--------------------------- MODULE MCWebhookDelivery ---------------------------
(* Small instances of WebhookDelivery for TLC.                             *)
EXTENDS WebhookDelivery

AllToOne == [d \in Deliveries |-> CHOOSE e \in Endpoints : TRUE]
=============================================================================
