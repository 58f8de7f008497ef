--------------------------- MODULE MC_StepContext ---------------------------
(* StepContext with Main, NoThread and the workers as model values.  The     *)
(* data ring is longer than the scratch ring, or no step would ever find the *)
(* scratch ring full.                                                        *)
EXTENDS StepContext

\* The first slot's generation comes round at its second reset, that of the
\* others at each.
TwoOfOne == [d \in DataSlot |-> IF d = 0 THEN 2 ELSE 1]

\* Generations that do not come round within the bound.
ThreeOfEach == [d \in DataSlot |-> 3]
=============================================================================
