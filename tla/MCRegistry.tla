----------------------------- MODULE MCRegistry -----------------------------
(* An instance of Registry: one session, local or hosted.                  *)
EXTENDS Registry
=============================================================================
