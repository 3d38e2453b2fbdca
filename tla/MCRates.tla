------------------------------- MODULE MCRates -------------------------------
(* The random walk of one instrument on a small grid, for TLC. *)
EXTENDS Rates, TLC

CONSTANTS c1, c2

MCCallbacks == {c1, c2}
Symmetry == Permutations(MCCallbacks)
=============================================================================
