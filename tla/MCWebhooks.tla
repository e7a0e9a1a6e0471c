----------------------------- MODULE MCWebhooks -----------------------------
(* A small instance of Webhooks with the constants of the code: two webhooks, *)
(* an event to which they may be subscribed or not, and receivers that answer *)
(* at once or not in time.                                                   *)
EXTENDS Webhooks

CONSTANT e1

MCEventOf == [f \in Fires |-> e1]
=============================================================================
