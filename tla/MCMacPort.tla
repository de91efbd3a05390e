----------------------------- MODULE MCMacPort -----------------------------
(* An instance of MacPort for TLC. *)
EXTENDS MacPort, TLC
=============================================================================
