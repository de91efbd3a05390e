--------------------------- MODULE MCWindowsPort ---------------------------
(* An instance of WindowsPort for TLC. *)
EXTENDS WindowsPort, TLC
=============================================================================
