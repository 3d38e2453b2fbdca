------------------------------ MODULE MCManager ------------------------------
(* The rate generator on small instances, for TLC. *)
EXTENDS Manager, TLC

CONSTANTS s1, s2, h1, h2

MCSymmetry == Permutations({s1, s2})
=============================================================================
