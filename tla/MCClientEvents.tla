--------------------------- MODULE MCClientEvents ---------------------------
(* Small instances of ClientEvents for TLC. *)
EXTENDS ClientEvents, TLC
=============================================================================
