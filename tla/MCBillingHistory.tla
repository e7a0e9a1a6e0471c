--------------------------- MODULE MCBillingHistory ---------------------------
(* Small instances of BillingHistory, with the users and purchases of MCBilling. *)
EXTENDS BillingHistory, MCBilling
=============================================================================
