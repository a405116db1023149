---------------------------- MODULE MCTransfer ----------------------------
(* Instances of Transfer for TLC. *)
EXTENDS Transfer, TLC

CONSTANTS v1, v2

\* One version is shorter than a chunk of two blocks, the other takes two chunks.
Versions == {v1, v2}
Sizes == v1 :> 1 @@ v2 :> 3

Symmetry == Permutations(Rpc) \cup Permutations(Inode)
=============================================================================
