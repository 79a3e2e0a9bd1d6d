--------------------------- MODULE MCClientState ---------------------------
(* Instances of ClientState.                                               *)
EXTENDS ClientState, TLC

CONSTANTS r1, r2, r3

MCCreatedAt == r1 :> 0 @@ r2 :> 2 @@ r3 :> 1

Symmetry == Permutations(Procs)
=============================================================================
