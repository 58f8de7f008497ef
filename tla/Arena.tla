-------------------------------- MODULE Arena -------------------------------
(***************************************************************************)
(* One scratch arena (gd_arena, src/src/core/memory.c): bump allocation, a *)
(* table of free blocks kept sorted by offset, best fit with splitting,    *)
(* coalescing, and the reset that makes old spans stale.                   *)
(*                                                                         *)
(* The table is modelled as the set of its blocks: its order is the order  *)
(* of their offsets.  An arena of another kind has no table, so that       *)
(* nothing of it is ever free before the reset.                            *)
(***************************************************************************)
EXTENDS Integers, FiniteSets

CONSTANTS
  Tensors,        \* the tensors that hold spans
  NoSpan,         \* a tensor without storage
  Capacity,       \* arena->capacity
  SizeMax,        \* SIZE_MAX
  FreeCapacity,   \* arena->free_capacity
  Sizes,          \* nbytes of the allocations
  Alignments,     \* powers of two up to GD_MAX_SUBALLOC_ALIGNMENT
  MaxGeneration   \* bound: resets

ASSUME ArenaAssumption ==
  /\ Capacity \in Nat \ {0} /\ SizeMax \in Nat /\ Capacity <= SizeMax
  /\ FreeCapacity \in Nat
  /\ Sizes \subseteq Nat \ {0}
  /\ Alignments \subseteq 1 .. SizeMax
  /\ MaxGeneration \in Nat
  /\ NoSpan \notin [offset : Nat, nbytes : Nat, generation : Nat]

VARIABLES
  offset, free, generation,   \* arena->offset, free_blocks, generation
  span,                       \* the storage of each tensor
  lost                        \* history: units nobody can have before the reset

vars == <<offset, free, generation, span, lost>>

Block == [offset : Nat, nbytes : Nat]
Span  == [offset : Nat, nbytes : Nat, generation : Nat]

End(b) == b.offset + b.nbytes

Init ==
  /\ offset = 0 /\ free = {} /\ generation = 1
  /\ span = [t \in Tensors |-> NoSpan]
  /\ lost = {}

----------------------------------------------------------------------------
(* Allocation.                                                             *)

\* gd_align_up_size: the sum is of size_t, and refused if it would wrap.
\* Mutant: never refused.
AnyAlignFits(x, a) == TRUE
AlignFits(x, a) == x <= SizeMax - (a - 1)
AlignUp(x, a) ==
  LET sum == (x + a - 1) % (SizeMax + 1) IN sum - (sum % a)

Fits(b, n, a) == AlignFits(b.offset, a) /\ AlignUp(b.offset, a) + n <= End(b)
Waste(b, n, a) == End(b) - (AlignUp(b.offset, a) + n)

\* gd_arena_alloc_from_free takes the block that leaves least behind it, the
\* first of several.
Best(n, a) ==
  {b \in free :
     /\ Fits(b, n, a)
     /\ \A c \in free : Fits(c, n, a) =>
          \/ Waste(b, n, a) < Waste(c, n, a)
          \/ Waste(b, n, a) = Waste(c, n, a) /\ b.offset <= c.offset}

\* What is left of block b on both sides of a span; with the table full the
\* right-hand part has no place in it.
Prefix(b, start) == [offset |-> b.offset, nbytes |-> start - b.offset]
Suffix(b, end)   == [offset |-> end, nbytes |-> End(b) - end]

\* Mutant: the part in front of the span is not kept.
RemainsBehind(b, start, end) == {p \in {Suffix(b, end)} : p.nbytes # 0}

Remains(b, start, end) ==
  {p \in {Prefix(b, start), Suffix(b, end)} :
     /\ p.nbytes # 0
     /\ p = Suffix(b, end) /\ b.offset # start => Cardinality(free) < FreeCapacity}

\* gd_context_span_is_live: the span is of this generation.
\* Mutant: of any.
LiveOnce(t) == span[t] # NoSpan
Live(t) == span[t] # NoSpan /\ span[t].generation = generation

Give(t, start, n) ==
  span' = [span EXCEPT ![t] = [offset |-> start, nbytes |-> n, generation |-> generation]]

AllocFromFree(t, n, a) ==
  /\ ~ Live(t)
  /\ \E b \in Best(n, a) :
       LET start == AlignUp(b.offset, a)
           left  == Remains(b, start, start + n)
       IN /\ Give(t, start, n)
          /\ free' = (free \ {b}) \cup left
          /\ lost' = lost \cup {u \in start + n .. End(b) - 1 : Suffix(b, start + n) \notin left}
  /\ UNCHANGED <<offset, generation>>

\* Else from the end of what has been given out; alignment leaves a gap.
AllocFromEnd(t, n, a) ==
  /\ ~ Live(t) /\ Best(n, a) = {}
  /\ AlignFits(offset, a)
  /\ LET start == AlignUp(offset, a) IN
       /\ start <= Capacity /\ n <= Capacity - start
       /\ Give(t, start, n)
       /\ offset' = start + n
       /\ lost' = lost \cup offset .. start - 1
  /\ UNCHANGED <<free, generation>>

----------------------------------------------------------------------------
(* Release.                                                                *)

\* The blocks on both sides of the place of s in the table.
Before(s) ==
  {b \in free : b.offset < s.offset /\ \A c \in free : c.offset < s.offset => c.offset <= b.offset}
After(s) ==
  {b \in free : b.offset >= s.offset /\ \A c \in free : c.offset >= s.offset => b.offset <= c.offset}

\* "double free or overlapping free span".  Mutant: touching counts.
RefusedTouching(s) == (\E b \in Before(s) : End(b) >= s.offset) \/ (\E b \in After(s) : End(s) > b.offset)
Refused(s) == (\E b \in Before(s) : End(b) > s.offset) \/ (\E b \in After(s) : End(s) > b.offset)

\* Mutant: only the block in front is merged with.
FreeMergingOne(t) ==
  /\ Live(t) /\ ~ Refused(span[t])
  /\ LET s == span[t]
         prev == {b \in Before(s) : End(b) = s.offset}
     IN /\ prev # {} \/ Cardinality(free) < FreeCapacity
        /\ \E first \in IF prev = {} THEN {s} ELSE prev :
             free' = (free \ prev) \cup {[offset |-> first.offset, nbytes |-> End(s) - first.offset]}
  /\ span' = [span EXCEPT ![t] = NoSpan]
  /\ UNCHANGED <<offset, generation, lost>>

\* gd_context_free_span, gd_arena_free: the span joins the blocks it touches;
\* if it touches none and the table is full, it is not freed.
Free(t) ==
  /\ Live(t) /\ ~ Refused(span[t])
  /\ LET s == span[t]
         prev == {b \in Before(s) : End(b) = s.offset}
         next == {b \in After(s) : b.offset = End(s)}
     IN /\ prev \cup next # {} \/ Cardinality(free) < FreeCapacity
        /\ \E first \in IF prev = {} THEN {s} ELSE prev, last \in IF next = {} THEN {s} ELSE next :
             free' = (free \ (prev \cup next))
                       \cup {[offset |-> first.offset, nbytes |-> End(last) - first.offset]}
  /\ span' = [span EXCEPT ![t] = NoSpan]
  /\ UNCHANGED <<offset, generation, lost>>

\* gd_arena_reset.
Reset ==
  /\ generation < MaxGeneration
  /\ offset' = 0 /\ free' = {} /\ generation' = generation + 1 /\ lost' = {}
  /\ UNCHANGED span

Next ==
  \/ \E t \in Tensors, n \in Sizes, a \in Alignments : AllocFromFree(t, n, a) \/ AllocFromEnd(t, n, a)
  \/ \E t \in Tensors : Free(t)
  \/ Reset

Spec == Init /\ [][Next]_vars

----------------------------------------------------------------------------
(* Properties.                                                             *)

\* Every variable stays in its range, the table within its limit.
TypeOK ==
  /\ offset \in 0 .. Capacity /\ generation \in Nat
  /\ free \subseteq Block /\ Cardinality(free) <= FreeCapacity
  /\ span \in [Tensors -> Span \cup {NoSpan}]
  /\ lost \subseteq 0 .. Capacity - 1

\* The units of a span or block, and of a tensor: a stale span has none.
Units(b) == b.offset .. End(b) - 1
Held(t) == IF span[t] # NoSpan /\ span[t].generation = generation THEN Units(span[t]) ELSE {}

\* No unit is given to two tensors, nor is one free that a tensor has, and
\* blocks and spans lie within what has been given out.
HeldIsExclusive ==
  /\ \A t, u \in Tensors : t # u => Held(t) \cap Held(u) = {}
  /\ \A t \in Tensors, b \in free : Held(t) \cap Units(b) = {}
  /\ \A t \in Tensors : Held(t) \subseteq 0 .. offset - 1
  /\ \A b \in free : Units(b) \subseteq 0 .. offset - 1

\* Free blocks never overlap nor touch: what could be one block is one block,
\* so that a span that fits between two tensors can be had.
Coalesced == \A b, c \in free : b # c => End(b) < c.offset \/ End(c) < b.offset

\* A tensor that frees its own live span is never told "double free".
OwnFreeAccepted ==
  \A t \in Tensors : span[t] # NoSpan /\ span[t].generation = generation => ~ Refused(span[t])

\* Every unit below offset is held, free or, by alignment or a full table,
\* lost until the reset: freeing forgets nothing.
NothingForgotten ==
  (UNION {Held(t) : t \in Tensors}) \cup (UNION {Units(b) : b \in free}) \cup lost = 0 .. offset - 1

\* The arena implements Allocator.
Abstract == INSTANCE Allocator WITH Tensor <- Tensors, held <- [t \in Tensors |-> Held(t)]

AllocatorSpec == Abstract!Spec
=============================================================================
