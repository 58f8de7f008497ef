------------------------------ MODULE MC_AdamW ------------------------------
(* AdamW with parameters as interchangeable model values.                   *)
EXTENDS AdamW, TLC

ParamSymmetry == Permutations(Params)
=============================================================================
