------------------------------- MODULE MCFiles -------------------------------
(* A small instance of Files: two uploads, of which only one fits into the    *)
(* quota at a time, into two buckets of the project.                          *)
EXTENDS Files, TLC

CONSTANTS a, b, p, q

MCBucketOf == [f \in {a, b} |-> IF f = a THEN p ELSE q]
MCSize == [f \in {a, b} |-> IF f = a THEN 2 ELSE 1]
MCSymmetry == Permutations(Workers)
=============================================================================
