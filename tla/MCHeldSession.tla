--------------------------- MODULE MCHeldSession ---------------------------
(* An instance of HeldSession: a marker is half of what the log keeps.     *)
EXTENDS HeldSession
=============================================================================
