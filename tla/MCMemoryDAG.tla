---------------------------- MODULE MCMemoryDAG ----------------------------
(* Model-checking instance of MemoryDAG: the IDs are interchangeable. *)
EXTENDS MemoryDAG

IDSymmetry == Permutations(ID)

=============================================================================
