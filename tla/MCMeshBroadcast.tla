-------------------------- MODULE MCMeshBroadcast --------------------------
(* Mesh for TLC, with an application that broadcasts and never sends to one  *)
(* node.                                                                     *)
EXTENDS MCMesh

\* Of the number of broadcasts: one that closes nothing is a step as well.
VARIABLE parity

Broadcast(n) == Broadcasts(n) /\ parity' = 1 - parity

BroadcastSpec ==
    /\ Init /\ parity = 0
    /\ [][(Next /\ UNCHANGED parity) \/ \E n \in Nodes : Broadcast(n)]_<<vars, parity>>
    /\ Fairness /\ \A n \in Nodes : WF_<<vars, parity>>(Broadcast(n))
=============================================================================
