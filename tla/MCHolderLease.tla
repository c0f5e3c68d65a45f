---------------------------- MODULE MCHolderLease ----------------------------
(* Instances of HolderLease for TLC.                                       *)
EXTENDS HolderLease
==============================================================================
