------------------------------- MODULE MCAuth -------------------------------
(* A small instance of Auth: one account that is signed in, one that may be  *)
(* registered, and three addresses.                                          *)
EXTENDS Auth, TLC

CONSTANTS u1, u2, a1, a2, a3

MCHomeOf == [u \in {u1, u2} |-> IF u = u1 THEN a1 ELSE a2]
MCSymmetry == Permutations(Workers)
=============================================================================
