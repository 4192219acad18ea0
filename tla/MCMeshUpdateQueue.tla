-------------------------- MODULE MCMeshUpdateQueue --------------------------
(* A small instance of MeshUpdateQueue for TLC: two blocks that share a face. *)
EXTENDS MeshUpdateQueue

Pair == {<<0, 0, 0>>, <<1, 0, 0>>}
=============================================================================
