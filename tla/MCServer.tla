------------------------------ MODULE MCServer ------------------------------
(* Small instances of Server for TLC. *)
EXTENDS Server, TLC

\* Clients are interchangeable (safety runs only).
Interchangeable == Permutations(Clients)
=============================================================================
