------------------------- MODULE MCWebhookDelivery -------------------------
(* Model-checking instance of WebhookDelivery.  No symmetry: the run checks *)
(* liveness.                                                               *)
EXTENDS WebhookDelivery
=============================================================================
