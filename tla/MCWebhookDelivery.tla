------------------------- MODULE MCWebhookDelivery -------------------------
(***************************************************************************)
(* The instance of WebhookDelivery that is checked for liveness too: what  *)
(* happens from outside is one restart, one purge or one enable in a       *)
(* behaviour, not several.                                                 *)
(***************************************************************************)
EXTENDS WebhookDelivery

OneTrouble == restarts + enables + Cardinality((1..tip) \ retained) <= 1
=============================================================================
