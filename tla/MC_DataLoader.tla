--------------------------- MODULE MC_DataLoader ----------------------------
(* DataLoader with two shards of three samples and two, halves of one bit *)
(* and some hash.                                                          *)
EXTENDS DataLoader

MCRanges == <<[start |-> 0, length |-> 3], [start |-> 3, length |-> 2]>>

MCXor(a, b) == (a + b) % 2

MCHash(key, round, right) == right * (1 + key[1]) + (key[1] + round) \div 2
=============================================================================
