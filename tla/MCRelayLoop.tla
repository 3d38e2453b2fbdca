----------------------------- MODULE MCRelayLoop -----------------------------
(* The synchronous relays on small instances, for TLC. *)
EXTENDS RelayLoop
=============================================================================
