------------------------------- MODULE MCMesh -------------------------------
(* Mesh for TLC: every node is in the host file, itself included.            *)
EXTENDS Mesh

CONSTANTS a, b

Hosts == <<a, b>>
=============================================================================
