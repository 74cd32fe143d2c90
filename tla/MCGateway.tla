----------------------------- MODULE MCGateway ------------------------------
(***************************************************************************)
(* Gateway for TLC.  Nodes, clients and keys are interchangeable.          *)
(***************************************************************************)
EXTENDS Gateway

Symmetry == Permutations(Node) \cup Permutations(Client) \cup Permutations(Key)
=============================================================================
