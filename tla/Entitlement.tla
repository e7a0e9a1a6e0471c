----------------------------- MODULE Entitlement -----------------------------
(***************************************************************************)
(* What billing promises, without handlers, rows or calls: money comes     *)
(* first, and whatever a user is entitled to is made of things that user   *)
(* has paid for.  Where the gateway's webhooks are not signed, a claim     *)
(* that a purchase was paid counts as much as the payment.  One step      *)
(* changes the entitlement of one user only.                               *)
(***************************************************************************)
CONSTANTS
  Users, Payments, Addons, Owner, Free, PlanOf,
  Unsigned  \* the purchases whose webhooks are not signed

VARIABLES
  paid,     \* purchases the customer has paid; never taken back
  claimed,  \* unsigned purchases somebody said were paid
  plan,     \* the plan of each user's subscription row
  quota     \* the quota of each user: a plan and some add-ons

vars == <<paid, claimed, plan, quota>>

PaidBy(u) == {p \in paid \cup claimed : Owner[p] = u}
PlansPaidBy(u) == {PlanOf[p] : p \in PaidBy(u) \cap Payments}

Init ==
  /\ paid = {} /\ claimed = {}
  /\ plan = [u \in Users |-> Free]
  /\ quota = [u \in Users |-> [plan |-> Free, adds |-> {}]]

Pay == /\ \E p \in (Payments \cup Addons) \ paid : paid' = paid \cup {p}
       /\ UNCHANGED <<claimed, plan, quota>>

Claim == /\ \E p \in Unsigned : claimed' = claimed \cup {p}
         /\ UNCHANGED <<paid, plan, quota>>

Subscribe(u) ==
  /\ \E t \in PlansPaidBy(u) : plan' = [plan EXCEPT ![u] = t]
  /\ UNCHANGED <<paid, claimed, quota>>

Grant(u) ==
  /\ \E t \in PlansPaidBy(u) \cup {Free}, A \in SUBSET (PaidBy(u) \cap Addons) :
       quota' = [quota EXCEPT ![u] = [plan |-> t, adds |-> A]]
  /\ UNCHANGED <<paid, claimed, plan>>

Next == Pay \/ Claim \/ \E u \in Users : Subscribe(u) \/ Grant(u)

Spec == Init /\ [][Next]_vars

=============================================================================
