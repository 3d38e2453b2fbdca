------------------------------ MODULE MCWorkshop ------------------------------
(* The three programs joined, on a small instance, for TLC. *)
EXTENDS Workshop
=============================================================================
