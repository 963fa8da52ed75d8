------------------------- MODULE MCWebhookPreviews -------------------------
(* Handler 11 is the first request for delivery 1, handler 12 its redelivery. *)
EXTENDS WebhookPreviews, Integers

TenthOf == [h \in Handlers |-> h \div 10]
=============================================================================
