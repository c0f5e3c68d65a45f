---------------------------- MODULE MCAttachHub ----------------------------
(* Instances of AttachHub for TLC.                                         *)
EXTENDS AttachHub, TLC

\* No two chunks leave the same row on the screen.
FreshScreen == [n \in 0..MaxOutput |-> n]

\* A spinner: the row alternates between two values.
SpinnerScreen == [n \in 0..MaxOutput |-> n % 2]

\* The program enters the alternate screen with its second chunk.
AltScreen == [n \in 0..MaxOutput |-> n > 1]

\* The clients are interchangeable. Only for runs without liveness.
ClientSymmetry == Permutations(Clients)
============================================================================
