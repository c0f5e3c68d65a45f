----------------------------- MODULE MCEventBus -----------------------------
(* An instance of EventBus: a large event fills the ring alone, and the     *)
(* client asks for the small ones.                                         *)
EXTENDS EventBus

MCKinds == {"session.updated", "worktree.created"}
MCWanted == [c \in Clients |-> {"session.updated"}]
MCBytes == [k \in Kinds |-> IF k = "session.updated" THEN 1 ELSE 2]
=============================================================================
