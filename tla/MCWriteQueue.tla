---------------------------- MODULE MCWriteQueue ----------------------------
(* Small instances of WriteQueue for TLC. *)
EXTENDS WriteQueue, TLC

\* Requests are interchangeable, and so are connections (safety runs only).
Interchangeable == Permutations(Writes) \cup Permutations(Conns)
=============================================================================
