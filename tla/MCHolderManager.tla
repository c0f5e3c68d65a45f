-------------------------- MODULE MCHolderManager --------------------------
(* Model-checking instances of HolderManager. *)
EXTENDS HolderManager, TLC

Symmetry == Permutations(Launchers) \cup Permutations(Sessions)
=============================================================================
