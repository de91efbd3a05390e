---------------------------- MODULE MCClientPort ----------------------------
(* Small instances of ClientPort for TLC. *)
EXTENDS ClientPort, TLC
=============================================================================
