----------------------------- MODULE Allocator ------------------------------
(***************************************************************************)
(* What an arena promises the tensors that have spans of it: a tensor is   *)
(* given units nobody else has, keeps them until it gives them back, and   *)
(* loses them only when the whole arena is reset.                          *)
(***************************************************************************)
EXTENDS Integers

CONSTANTS
  Tensor,    \* whoever asks for memory
  Capacity   \* units of memory

VARIABLE held    \* the units each tensor has

Unit == 0 .. Capacity - 1
Nobody == [t \in Tensor |-> {}]

Init == held = Nobody

Alloc(t) ==
  /\ held[t] = {}
  /\ \E first, last \in Unit :
       /\ first <= last
       /\ \A u \in Tensor : held[u] \cap (first .. last) = {}
       /\ held' = [held EXCEPT ![t] = first .. last]

Free(t) == held[t] # {} /\ held' = [held EXCEPT ![t] = {}]

Reset == held' = Nobody

Next == Reset \/ \E t \in Tensor : Alloc(t) \/ Free(t)

Spec == Init /\ [][Next]_held
=============================================================================
