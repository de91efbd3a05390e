--------------------------- MODULE MCServerEvents ---------------------------
(* Small instances of ServerEvents for TLC. *)
EXTENDS ServerEvents, TLC
=============================================================================
