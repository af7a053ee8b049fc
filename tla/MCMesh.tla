------------------------------- MODULE MCMesh -------------------------------
(* One ability, few machines and aliases; keys are interchangeable.         *)
EXTENDS Mesh, TLC

Symmetry == Permutations(Keys)
=============================================================================
