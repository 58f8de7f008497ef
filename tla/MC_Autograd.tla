---------------------------- MODULE MC_Autograd ----------------------------
(* Autograd with two parameters, neither of which has the shape of what     *)
(* add and mul make of both.                                                *)
EXTENDS Autograd, TLC

TwoLeaves == <<[rg |-> TRUE, dims |-> {1}], [rg |-> TRUE, dims |-> {2}]>>
=============================================================================
