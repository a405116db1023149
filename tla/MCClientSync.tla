--------------------------- MODULE MCClientSync ---------------------------
(* Instances of ClientSync for TLC. *)
EXTENDS ClientSync, TLC

Symmetry == Permutations(Client) \cup Permutations(Data)
=============================================================================
