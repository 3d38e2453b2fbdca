----------------------------- MODULE MCNodeRelay -----------------------------
(* The Node.js relay on a small instance, for TLC. *)
EXTENDS NodeRelay
=============================================================================
