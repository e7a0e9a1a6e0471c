------------------------------ MODULE MCLimits ------------------------------
(* A small instance of Limits: one key of one project and one IP, windows of  *)
(* three ticks.                                                              *)
EXTENDS Limits, TLC

CONSTANTS p, ip

MCProjectOf == [k \in Keys |-> p]
MCN == [c \in {p, ip} |-> IF c = p THEN 1 ELSE 2]
MCSymmetry == Permutations(Workers)
=============================================================================
