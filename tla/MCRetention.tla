----------------------------- MODULE MCRetention -----------------------------
(* Small instances of Retention: one user, since every statement of the job   *)
(* names one user's rows, and periods shortened in proportion.                *)
EXTENDS Retention

CONSTANT u1
=============================================================================
