---------------------------- MODULE MCViewChanges ----------------------------
(* The same with overlapping sends, and with changes of the view counted. *)
EXTENDS ViewChanges, TLC

CONSTANTS s1, s2

MCSymmetry == Permutations({s1, s2})
=============================================================================
