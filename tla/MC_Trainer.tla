---------------------------- MODULE MC_Trainer -----------------------------
(* Trainer with one worker for each loader and samples in their order.     *)
EXTENDS Trainer

MCRanges == << >>

MCXor(a, b) == (a + b) % 2

MCHash(key, round, right) == right
=============================================================================
