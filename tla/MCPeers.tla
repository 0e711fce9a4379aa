------------------------------ MODULE MCPeers -------------------------------
(* A node with a seed and another peer, which hear of each other and of    *)
(* the node.                                                               *)
EXTENDS Peers

CONSTANTS seed, peer, self
=============================================================================
