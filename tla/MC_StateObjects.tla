-------------------------- MODULE MC_StateObjects --------------------------
(* StateObjects with interchangeable addresses.                             *)
EXTENDS StateObjects, TLC

AddressSymmetry == Permutations(Addresses)
=============================================================================
