--------------------------- MODULE MCRemoteStream ---------------------------
(* Instances of RemoteStream for TLC.                                      *)
EXTENDS RemoteStream

\* A spinner: the row comes back after two chunks.
SpinnerScreen == [n \in 0..MaxOutput |-> n % 2]

\* A row the output never touches, for the properties that look at no row.
FlatScreen == [n \in 0..MaxOutput |-> 0]
=============================================================================
