-------------------------- MODULE MCSessionStatus --------------------------
(* An instance of SessionStatus: one hook thread beside the pump.          *)
EXTENDS SessionStatus
============================================================================
