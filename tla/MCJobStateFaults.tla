-------------------------- MODULE MCJobStateFaults --------------------------
(* JobStateFaults on two interchangeable paths.                              *)
EXTENDS JobStateFaults, TLC

PathSymmetry == Permutations(Files)

=============================================================================
