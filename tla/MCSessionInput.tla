--------------------------- MODULE MCSessionInput ---------------------------
(* An instance of SessionInput: a local and a remote session.              *)
EXTENDS SessionInput
=============================================================================
