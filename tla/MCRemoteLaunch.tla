--------------------------- MODULE MCRemoteLaunch ---------------------------
(* An instance of RemoteLaunch: see RemoteLaunch.cfg.                      *)
EXTENDS RemoteLaunch
=============================================================================
