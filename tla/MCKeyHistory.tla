---------------------------- MODULE MCKeyHistory ----------------------------
(* Environments are interchangeable: no property tells them apart.         *)
EXTENDS KeyHistory, TLC

Symmetry == Permutations(Sites)
=============================================================================
