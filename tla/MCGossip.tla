------------------------------ MODULE MCGossip ------------------------------
(* Three nodes, two vertices after the genesis vertex. *)
EXTENDS Gossip, TLC

(* Only the genesis node is told apart from the others. *)
Symmetry ==
  Permutations(Node \ {GenesisNode}) \cup Permutations(Trx)
=============================================================================
