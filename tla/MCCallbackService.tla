------------------------- MODULE MCCallbackService -------------------------
(* Instances of CallbackService for TLC. *)
EXTENDS CallbackService, TLC

Symmetry == Permutations(Thread) \cup Permutations(Client)
=============================================================================
