------------------------------ MODULE MC_Arena ------------------------------
(* Arena with interchangeable tensors.                                      *)
EXTENDS Arena, TLC

TensorSymmetry == Permutations(Tensors)
=============================================================================
