--------------------------- MODULE MC_BpeTrainer ----------------------------
(* BpeTrainer with two bytes, over pieces whose pairs overlap and repeat.  *)
EXTENDS BpeTrainer

MCPieces ==
  {w \in BoundedSeq(Byte, 4) : Len(w) > 1 /\ w[1] = 1}
    \cup {<<1, 1, 1, 1, 1>>, <<2, 1, 2, 1, 1>>, <<1, 2, 1, 2, 1, 2>>, <<1, 1, 1, 1, 1, 1, 1>>}

MCTexts == BoundedSeq(Byte, 4) \ {<< >>}
=============================================================================
