------------------------------ MODULE MCBilling ------------------------------
(* Small instances of Billing.  One user, since no handler touches the rows   *)
(* of two users; two payments of different plans and an add-on, of which a    *)
(* run takes the ones it names.                                               *)
EXTENDS Billing, TLC

CONSTANTS u1, p1, p2, a1, free, starter, pro

MCOwner == [p \in Purchases |-> u1]

\* p1 buys a plan with add-ons, p2 one without.
MCPlanOf == [p \in Payments |-> IF p = p1 THEN pro ELSE starter]

\* For runs without liveness properties.
MCSymmetry == Permutations(Workers)
=============================================================================
