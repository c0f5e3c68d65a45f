--------------------------- MODULE ControllerLease ---------------------------
(***************************************************************************)
(* What the remote Holder promises its controllers: control is a lease.    *)
(* Acquiring it opens a new epoch and ends the previous one at that very   *)
(* step; only the connection that acquired last gets its input accepted.   *)
(* The PTY takes what was accepted when it can, in the order of acceptance *)
(* (so nothing of an earlier controller after something of a later one),   *)
(* and nothing that was accepted is taken back.                            *)
(***************************************************************************)
EXTENDS Naturals, Sequences

CONSTANTS Conns, NoConn

VARIABLES
  epoch,      \* the current lease's epoch, 0 before the first one
  owner,      \* the connection that acquired it
  accepted,   \* inputs accepted, in order: the connection and its epoch
  applied     \* inputs the PTY took, in order

leaseVars == <<epoch, owner, accepted, applied>>

Init == epoch = 0 /\ owner = NoConn /\ accepted = <<>> /\ applied = <<>>

Acquire(c) ==
  /\ epoch' = epoch + 1
  /\ owner' = c
  /\ UNCHANGED <<accepted, applied>>

\* The PTY takes some more of what was accepted, or nothing.
Takes ==
  \E n \in Len(applied)..Len(accepted') : applied' = SubSeq(accepted', 1, n)

Accept ==
  /\ owner # NoConn
  /\ accepted' = Append(accepted, [conn |-> owner, epoch |-> epoch])
  /\ Takes
  /\ UNCHANGED <<epoch, owner>>

Write == UNCHANGED <<epoch, owner, accepted>> /\ Takes

Next == Accept \/ Write \/ \E c \in Conns : Acquire(c)

Spec == Init /\ [][Next]_leaseVars
==============================================================================
