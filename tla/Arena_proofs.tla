---------------------------- MODULE Arena_proofs ----------------------------
(***************************************************************************)
(* Theorems about Arena, for every capacity, table and set of sizes.       *)
(***************************************************************************)
EXTENDS Arena, FiniteSetTheorems, TLAPS

Current(t) == span[t] # NoSpan /\ span[t].generation = generation

\* x and y do not overlap; do not even touch.
Apart(x, y)   == End(x) <= y.offset \/ End(y) <= x.offset
FarApart(x, y) == End(x) < y.offset \/ End(y) < x.offset

Typed ==
  /\ offset \in Nat /\ offset <= Capacity /\ generation \in Nat
  /\ free \subseteq Block
  /\ span \in [Tensors -> Span \cup {NoSpan}]

\* The inductive invariant: blocks and current spans are not empty, lie below
\* offset, and are apart; no span is of a generation to come.
Sound ==
  /\ \A b \in free : b.nbytes > 0 /\ End(b) <= offset
  /\ \A t \in Tensors : Current(t) => span[t].nbytes > 0 /\ End(span[t]) <= offset
  /\ \A b, c \in free : b # c => FarApart(b, c)
  /\ \A t \in Tensors, b \in free : Current(t) => Apart(span[t], b)
  /\ \A t, u \in Tensors : t # u /\ Current(t) /\ Current(u) => Apart(span[t], span[u])
  /\ \A t \in Tensors : span[t] # NoSpan => span[t].generation <= generation

\* A sum that does not wrap is rounded up.
LEMMA AlignUpBounds ==
  ASSUME NEW x \in Nat, NEW a \in Alignments, AlignFits(x, a)
  PROVE  AlignUp(x, a) \in Nat /\ x <= AlignUp(x, a)
<1> DEFINE s == x + a - 1
<1>1. a \in Nat /\ a >= 1 /\ SizeMax \in Nat BY ArenaAssumption
<1>2. s \in Nat /\ s <= SizeMax BY <1>1 DEF AlignFits
<1>3. s % (SizeMax + 1) = s BY <1>1, <1>2
<1>4. s % a \in Nat /\ s % a <= a - 1 BY <1>1, <1>2
<1>5. AlignUp(x, a) = s - (s % a) BY <1>3 DEF AlignUp
<1> QED BY <1>1, <1>2, <1>4, <1>5

\* A new arena has no spans and no free blocks.
LEMMA InitSound == Init => Typed /\ Sound
BY ArenaAssumption DEF Init, Typed, Sound, Current

\* What is left of a split block lies in it, on one side of the span.
LEMMA RemainsApart ==
  ASSUME Typed, NEW b \in Block, NEW start \in Nat, NEW end \in Nat,
         b.offset <= start, start < end, end <= End(b),
         NEW p \in Remains(b, start, end)
  PROVE  /\ p \in Block /\ p.nbytes > 0
         /\ b.offset <= p.offset /\ End(p) <= End(b)
         /\ End(p) = start \/ p.offset = end
         /\ p = Prefix(b, start) \/ p = Suffix(b, end)
BY DEF Remains, Prefix, Suffix, Block, End

\* A span cut from a free block is apart from all others, and so is what is
\* left of the block.
LEMMA AllocFromFreeSound ==
  ASSUME Typed, Sound, NEW t \in Tensors, NEW n \in Sizes, NEW a \in Alignments, AllocFromFree(t, n, a)
  PROVE  Typed' /\ Sound'
<1>1. PICK b \in Best(n, a) :
        /\ Give(t, AlignUp(b.offset, a), n)
        /\ free' = (free \ {b}) \cup Remains(b, AlignUp(b.offset, a), AlignUp(b.offset, a) + n)
  BY DEF AllocFromFree
<1> DEFINE start == AlignUp(b.offset, a)
           end == start + n
<1>2. b \in free /\ b \in Block /\ Fits(b, n, a) BY DEF Best, Typed
<1>3. start \in Nat /\ b.offset <= start /\ n \in Nat /\ n > 0 /\ end <= End(b)
  BY <1>2, AlignUpBounds, ArenaAssumption DEF Fits, Block
<1>4. end \in Nat /\ start < end BY <1>3
<1>5. UNCHANGED <<offset, generation>> BY DEF AllocFromFree
<1> HIDE DEF start, end
<1>6. \A p \in Remains(b, start, end) :
        /\ p \in Block /\ p.nbytes > 0
        /\ b.offset <= p.offset /\ End(p) <= End(b)
        /\ End(p) = start \/ p.offset = end
        /\ p = Prefix(b, start) \/ p = Suffix(b, end)
  BY <1>2, <1>3, <1>4, RemainsApart
<1>7. free' = (free \ {b}) \cup Remains(b, start, end)
  BY <1>1 DEF start, end
<1>8. span' = [span EXCEPT ![t] = [offset |-> start, nbytes |-> n, generation |-> generation]]
  BY <1>1 DEF Give, start
<1>9. Typed' BY <1>3, <1>5, <1>6, <1>7, <1>8 DEF Typed, Span
<1>10. Sound'
  <2>1. \A c \in free' : c.nbytes > 0 /\ End(c) <= offset' /\ c \in Block
    BY <1>2, <1>5, <1>6, <1>7 DEF Sound, Typed, Block, End
  <2>2. \A u \in Tensors : Current(u)' => u = t \/ (Current(u) /\ span'[u] = span[u])
    BY <1>5, <1>8 DEF Current, Typed
  <2>3. span'[t].offset = start /\ span'[t].nbytes = n /\ End(span'[t]) = end
    BY <1>8 DEF Typed, End, end
  <2>4. \A u \in Tensors : Current(u) => span[u] \in Span BY DEF Typed, Current
  <2>5. \A c, d \in free' : c # d => FarApart(c, d)
    BY <1>2, <1>3, <1>4, <1>6, <1>7 DEF Sound, FarApart, Typed, Block, End, Prefix, Suffix
  <2>6. \A u \in Tensors, c \in free' : Current(u)' => Apart(span'[u], c)
    BY <1>2, <1>3, <1>4, <1>6, <1>7, <2>2, <2>3, <2>4 DEF Sound, Apart, FarApart, Typed, Block, Span, End
  <2>7. \A u, v \in Tensors : u # v /\ Current(u)' /\ Current(v)' => Apart(span'[u], span'[v])
    BY <1>2, <1>3, <1>4, <2>2, <2>3, <2>4 DEF Sound, Apart, Typed, Block, Span, End
  <2>8. \A u \in Tensors : Current(u)' => span'[u].nbytes > 0 /\ End(span'[u]) <= offset'
    BY <1>2, <1>3, <1>5, <2>2, <2>3, <2>4 DEF Sound, Typed, Block, Span, End
  <2>9. \A u \in Tensors : span'[u] # NoSpan => span'[u].generation <= generation'
    BY <1>5, <1>8 DEF Sound, Typed
  <2> QED BY <2>1, <2>5, <2>6, <2>7, <2>8, <2>9 DEF Sound, Current, Apart, FarApart, End
<1> QED BY <1>9, <1>10

\* A span from the end lies behind everything.
LEMMA AllocFromEndSound ==
  ASSUME Typed, Sound, NEW t \in Tensors, NEW n \in Sizes, NEW a \in Alignments, AllocFromEnd(t, n, a)
  PROVE  Typed' /\ Sound'
<1> DEFINE start == AlignUp(offset, a)
<1>1. /\ start \in Nat /\ offset <= start /\ start <= Capacity /\ n <= Capacity - start
      /\ n \in Nat /\ n > 0
  BY AlignUpBounds, ArenaAssumption DEF AllocFromEnd, Typed
<1>2. /\ offset' = start + n /\ UNCHANGED <<free, generation>>
      /\ span' = [span EXCEPT ![t] = [offset |-> start, nbytes |-> n, generation |-> generation]]
  BY DEF AllocFromEnd, Give
<1> HIDE DEF start
<1>3. Typed' BY <1>1, <1>2, ArenaAssumption DEF Typed, Span
<1>4. Sound'
  <2>1. \A u \in Tensors : Current(u)' => u = t \/ (Current(u) /\ span'[u] = span[u])
    BY <1>2 DEF Current, Typed
  <2>2. span'[t].offset = start /\ span'[t].nbytes = n /\ End(span'[t]) = start + n
    BY <1>2 DEF Typed, End
  <2>3. \A u \in Tensors : Current(u) => span[u] \in Span BY DEF Typed, Current
  <2>4. \A b \in free' : b.nbytes > 0 /\ End(b) <= offset'
    BY <1>1, <1>2 DEF Sound, Typed, Block, End
  <2>5. \A u \in Tensors, b \in free' : Current(u)' => Apart(span'[u], b)
    BY <1>1, <1>2, <2>1, <2>2, <2>3 DEF Sound, Apart, Typed, Block, Span, End
  <2>6. \A u, v \in Tensors : u # v /\ Current(u)' /\ Current(v)' => Apart(span'[u], span'[v])
    BY <1>1, <2>1, <2>2, <2>3 DEF Sound, Apart, Typed, Span, End
  <2>7. \A u \in Tensors : Current(u)' => span'[u].nbytes > 0 /\ End(span'[u]) <= offset'
    BY <1>1, <1>2, <2>1, <2>2, <2>3 DEF Sound, Typed, Span, End
  <2>8. \A u \in Tensors : span'[u] # NoSpan => span'[u].generation <= generation'
    BY <1>2 DEF Sound, Typed
  <2> QED BY <1>2, <2>4, <2>5, <2>6, <2>7, <2>8 DEF Sound, FarApart, Current, End, Apart
<1> QED BY <1>3, <1>4

\* A tensor's own span is never taken for a free one.
LEMMA OwnSpanAccepted ==
  ASSUME Typed, Sound, NEW t \in Tensors, Current(t)
  PROVE  ~ Refused(span[t])
BY DEF Refused, Before, After, Sound, Typed, Current, Apart, Block, Span, End

\* A freed span becomes, with the blocks it touches, one block that touches
\* no other.
LEMMA FreeSound ==
  ASSUME Typed, Sound, NEW t \in Tensors, Free(t)
  PROVE  Typed' /\ Sound'
<1> DEFINE s == span[t]
           prev == {b \in Before(s) : End(b) = s.offset}
           next == {b \in After(s) : b.offset = End(s)}
<1>1. PICK first \in IF prev = {} THEN {s} ELSE prev, last \in IF next = {} THEN {s} ELSE next :
        free' = (free \ (prev \cup next))
                  \cup {[offset |-> first.offset, nbytes |-> End(last) - first.offset]}
  BY DEF Free
<1>2. Current(t) /\ s \in Span /\ s.nbytes > 0 /\ End(s) <= offset
  BY DEF Free, Live, Current, Typed, Sound
<1>3. UNCHANGED <<offset, generation>> /\ span' = [span EXCEPT ![t] = NoSpan] BY DEF Free
<1>4. prev \subseteq free /\ next \subseteq free BY DEF Before, After
<1>5. \A b \in free : End(b) = s.offset => b \in prev
  BY <1>2 DEF Before, Sound, Typed, FarApart, Block, Span, End
<1>6. \A b \in free : b.offset = End(s) => b \in next
  BY <1>2 DEF After, Sound, Typed, FarApart, Apart, Block, Span, End
<1>7. \/ first = s /\ prev = {}
      \/ first \in prev /\ first \in free /\ End(first) = s.offset
  BY <1>4
<1>8. \/ last = s /\ next = {}
      \/ last \in next /\ last \in free /\ last.offset = End(s)
  BY <1>4
<1> DEFINE whole == [offset |-> first.offset, nbytes |-> End(last) - first.offset]
<1>9. /\ whole \in Block /\ whole.nbytes > 0 /\ whole.offset = first.offset /\ End(whole) = End(last)
      /\ first.offset <= s.offset /\ End(s) <= End(last) /\ End(last) <= offset
  BY <1>2, <1>7, <1>8 DEF Sound, Typed, Block, Span, End
<1>10. \A b \in free \ (prev \cup next) : FarApart(b, whole)
  <2> SUFFICES ASSUME NEW b \in free \ (prev \cup next) PROVE FarApart(b, whole) OBVIOUS
  <2>2. Apart(s, b) BY <1>2 DEF Sound
  <2>3. End(b) # s.offset /\ b.offset # End(s) BY <1>5, <1>6
  <2>4. first \in free => FarApart(b, first) \/ b = first BY DEF Sound
  <2>5. last \in free => FarApart(b, last) \/ b = last BY DEF Sound
  <2>6. (first \in prev => b # first) /\ (last \in next => b # last) OBVIOUS
  <2>7. b \in Block /\ (first \in free => first \in Block) /\ (last \in free => last \in Block) BY DEF Typed
  <2>8. b.nbytes > 0 BY DEF Sound
  <2> QED BY <1>2, <1>7, <1>8, <1>9, <2>2, <2>3, <2>4, <2>5, <2>6, <2>7, <2>8 DEF FarApart, Apart, Block, Span, End
<1>11. \A u \in Tensors : u # t /\ Current(u) => Apart(span[u], whole)
  <2> SUFFICES ASSUME NEW u \in Tensors, u # t, Current(u) PROVE Apart(span[u], whole) OBVIOUS
  <2>1. span[u] \in Span /\ span[u].nbytes > 0 BY DEF Current, Typed, Sound
  <2>2. Apart(span[u], s) BY <1>2 DEF Sound
  <2>3. (first \in free => Apart(span[u], first)) /\ (last \in free => Apart(span[u], last)) BY DEF Sound
  <2>4. (first \in free => first \in Block) /\ (last \in free => last \in Block) BY DEF Typed
  <2> QED BY <1>2, <1>7, <1>8, <1>9, <2>1, <2>2, <2>3, <2>4 DEF Apart, Block, Span, End
<1> HIDE DEF whole, prev, next, s
<1>12. free' = (free \ (prev \cup next)) \cup {whole} BY <1>1 DEF whole, prev, next, s
<1>13. Typed' BY <1>3, <1>9, <1>12 DEF Typed
<1>14. Sound'
  <2>1. \A u \in Tensors : Current(u)' => u # t /\ Current(u) /\ span'[u] = span[u]
    BY <1>3 DEF Current, Typed
  <2>2. \A b \in free' : b.nbytes > 0 /\ End(b) <= offset' BY <1>3, <1>9, <1>12 DEF Sound
  <2>3. \A b, c \in free' : b # c => FarApart(b, c)
    <3>1. \A b, c : FarApart(b, c) <=> FarApart(c, b) BY DEF FarApart
    <3> QED BY <1>10, <1>12, <3>1 DEF Sound
  <2>4. \A u \in Tensors, b \in free' : Current(u)' => Apart(span'[u], b) BY <1>11, <1>12, <2>1 DEF Sound
  <2>5. \A u, v \in Tensors : u # v /\ Current(u)' /\ Current(v)' => Apart(span'[u], span'[v]) BY <2>1 DEF Sound
  <2>6. \A u \in Tensors : Current(u)' => span'[u].nbytes > 0 /\ End(span'[u]) <= offset' BY <1>3, <2>1 DEF Sound
  <2>7. \A u \in Tensors : span'[u] # NoSpan => span'[u].generation <= generation' BY <1>3 DEF Sound, Typed
  <2> QED BY <2>2, <2>3, <2>4, <2>5, <2>6, <2>7 DEF Sound, Current, Apart, FarApart, End
<1> QED BY <1>13, <1>14

\* After a reset no span is current: all are of an earlier generation.
LEMMA ResetSound == Typed /\ Sound /\ Reset => Typed' /\ Sound'
<1> SUFFICES ASSUME Typed, Sound, Reset PROVE Typed' /\ Sound' OBVIOUS
<1>1. Typed' BY ArenaAssumption DEF Typed, Reset
<1>2. \A t \in Tensors : ~ Current(t)' BY DEF Current, Reset, Typed, Sound, Span
<1>3. \A t \in Tensors : span'[t] # NoSpan => span'[t].generation <= generation'
  BY DEF Reset, Typed, Sound, Span
<1> QED BY <1>1, <1>2, <1>3 DEF Sound, Reset, Current

\* Blocks and live spans are apart, whatever is allocated, freed and reset.
THEOREM SoundInvariance == Spec => [](Typed /\ Sound)
<1>1. Typed /\ Sound /\ [Next]_vars => Typed' /\ Sound'
  <2> SUFFICES ASSUME Typed, Sound, [Next]_vars PROVE Typed' /\ Sound' OBVIOUS
  <2>1. CASE \E t \in Tensors, n \in Sizes, a \in Alignments : AllocFromFree(t, n, a)
    BY <2>1, AllocFromFreeSound
  <2>2. CASE \E t \in Tensors, n \in Sizes, a \in Alignments : AllocFromEnd(t, n, a)
    BY <2>2, AllocFromEndSound
  <2>3. CASE \E t \in Tensors : Free(t) BY <2>3, FreeSound
  <2>4. CASE Reset BY <2>4, ResetSound
  <2>5. CASE UNCHANGED vars BY <2>5 DEF vars, Typed, Sound, Current
  <2> QED BY <2>1, <2>2, <2>3, <2>4, <2>5 DEF Next
<1> QED BY <1>1, InitSound, PTL DEF Spec

----------------------------------------------------------------------------
\* Held is the units of the span of a tensor whose span is current.
LEMMA HeldUnits ==
  ASSUME Typed, Sound, NEW t \in Tensors
  PROVE  /\ Current(t) => Held(t) = Units(span[t]) /\ span[t] \in Span
         /\ ~ Current(t) => Held(t) = {}
BY DEF Held, Current, Typed

\* Spans and blocks that are apart share no unit.
LEMMA SoundExclusive == Typed /\ Sound => HeldIsExclusive
<1> SUFFICES ASSUME Typed, Sound PROVE HeldIsExclusive OBVIOUS
<1>1. \A b \in free : b \in Block /\ b.nbytes > 0 /\ End(b) <= offset BY DEF Typed, Sound
<1>2. \A t \in Tensors : Current(t) => span[t] \in Span /\ span[t].nbytes > 0 /\ End(span[t]) <= offset
  BY DEF Typed, Sound, Current
<1>3. \A t, u \in Tensors : t # u => Held(t) \cap Held(u) = {}
  <2> SUFFICES ASSUME NEW t \in Tensors, NEW u \in Tensors, t # u, Current(t), Current(u)
               PROVE  Units(span[t]) \cap Units(span[u]) = {}
    BY HeldUnits
  <2>1. Apart(span[t], span[u]) BY DEF Sound
  <2> QED BY <1>2, <2>1 DEF Units, Apart, End, Span
<1>4. \A t \in Tensors, b \in free : Held(t) \cap Units(b) = {}
  <2> SUFFICES ASSUME NEW t \in Tensors, NEW b \in free, Current(t)
               PROVE  Units(span[t]) \cap Units(b) = {}
    BY HeldUnits
  <2>1. Apart(span[t], b) BY DEF Sound
  <2> QED BY <1>1, <1>2, <2>1 DEF Units, Apart, End, Span, Block
<1>5. \A t \in Tensors : Held(t) \subseteq 0 .. offset - 1
  <2> SUFFICES ASSUME NEW t \in Tensors, Current(t) PROVE Units(span[t]) \subseteq 0 .. offset - 1
    BY HeldUnits
  <2> QED BY <1>2 DEF Units, End, Span, Typed
<1>6. \A b \in free : Units(b) \subseteq 0 .. offset - 1
  BY <1>1 DEF Units, End, Block, Typed
<1> QED BY <1>3, <1>4, <1>5, <1>6 DEF HeldIsExclusive

\* No unit of memory has two owners.
THEOREM ArenaExclusive == Spec => []HeldIsExclusive
BY SoundInvariance, SoundExclusive, PTL

\* gd_arena_free always leaves the table merged.
THEOREM ArenaCoalesced == Spec => []Coalesced
<1>1. Sound => Coalesced BY DEF Sound, Coalesced, FarApart
<1> QED BY <1>1, SoundInvariance, PTL

\* The owner of a live span is never told that it is free already.
THEOREM ArenaAcceptsOwners == Spec => []OwnFreeAccepted
<1>1. Typed /\ Sound => OwnFreeAccepted BY OwnSpanAccepted DEF OwnFreeAccepted, Current
<1> QED BY <1>1, SoundInvariance, PTL

----------------------------------------------------------------------------
(* Types: the table stays within its limit.                                *)

Tabled == IsFiniteSet(free) /\ Cardinality(free) <= FreeCapacity

\* A table that gains a block counts one more.
LEMMA AddOne ==
  ASSUME NEW S, NEW x, IsFiniteSet(S)
  PROVE  /\ IsFiniteSet(S \cup {x}) /\ Cardinality(S) \in Nat /\ Cardinality(S \cup {x}) \in Nat
         /\ Cardinality(S \cup {x}) <= Cardinality(S) + 1
<1>1. IsFiniteSet(S \cup {x}) BY FS_AddElement
<1>2. Cardinality(S \cup {x}) = IF x \in S THEN Cardinality(S) ELSE Cardinality(S) + 1 BY FS_AddElement
<1>3. Cardinality(S) \in Nat BY FS_CardinalityType
<1> QED BY <1>1, <1>2, <1>3

\* Splitting a block adds at most one, and that only if there is room.
LEMMA AllocFromFreeTabled ==
  ASSUME Tabled, Typed, NEW t \in Tensors, NEW n \in Sizes, NEW a \in Alignments, AllocFromFree(t, n, a)
  PROVE  Tabled'
<1>1. PICK b \in Best(n, a) :
        free' = (free \ {b}) \cup Remains(b, AlignUp(b.offset, a), AlignUp(b.offset, a) + n)
  BY DEF AllocFromFree
<1> DEFINE start == AlignUp(b.offset, a)
           left == Remains(b, start, start + n)
           rest == free \ {b}
<1>2. b \in free BY DEF Best
<1>3. IsFiniteSet(rest) /\ Cardinality(rest) = Cardinality(free) - 1 /\ Cardinality(free) \in Nat
  BY <1>2, FS_RemoveElement, FS_CardinalityType DEF Tabled
<1>4. left \subseteq {Prefix(b, start), Suffix(b, start + n)} BY DEF Remains
<1>5. CASE \E p : left \subseteq {p}
  <2>1. PICK p : left \subseteq {p} BY <1>5
  <2>2. free' = rest \/ free' = rest \cup {p} BY <1>1, <2>1
  <2> HIDE DEF rest
  <2>3. /\ IsFiniteSet(rest \cup {p}) /\ Cardinality(rest \cup {p}) \in Nat /\ Cardinality(rest) \in Nat
        /\ Cardinality(rest \cup {p}) <= Cardinality(rest) + 1
    BY <1>3, AddOne
  <2> DEFINE more == rest \cup {p}
  <2>4. CASE free' = rest BY <1>3, <2>4, ArenaAssumption DEF Tabled
  <2>5. CASE free' = more
    <3>1. IsFiniteSet(more) /\ Cardinality(more) \in Nat /\ Cardinality(more) <= Cardinality(rest) + 1 BY <2>3
    <3> HIDE DEF more
    <3> QED BY <1>3, <2>5, <3>1, ArenaAssumption DEF Tabled
  <2> QED BY <2>2, <2>4, <2>5
<1>6. CASE ~ \E p : left \subseteq {p}
  <2>1. left = {Prefix(b, start), Suffix(b, start + n)} BY <1>4, <1>6
  <2>2. b.offset # start
    <3>1. Prefix(b, start).nbytes # 0 BY <2>1 DEF Remains
    <3>2. b.offset \in Nat BY <1>2 DEF Typed, Block
    <3> QED BY <3>1, <3>2 DEF Prefix
  <2>3. Cardinality(free) < FreeCapacity BY <2>1, <2>2 DEF Remains
  <2> DEFINE one == rest \cup {Prefix(b, start)}
             two == one \cup {Suffix(b, start + n)}
  <2>4. free' = two BY <1>1, <2>1
  <2>5. IsFiniteSet(one) /\ Cardinality(one) \in Nat /\ Cardinality(one) <= Cardinality(rest) + 1
    BY <1>3, AddOne
  <2>6. IsFiniteSet(two) /\ Cardinality(two) \in Nat /\ Cardinality(two) <= Cardinality(one) + 1
    BY <2>5, AddOne
  <2> QED BY <1>3, <2>3, <2>4, <2>5, <2>6, ArenaAssumption DEF Tabled
<1> QED BY <1>5, <1>6

\* Merging never adds a block; a block of its own needs room.
LEMMA FreeTabled ==
  ASSUME Tabled, NEW t \in Tensors, Free(t)
  PROVE  Tabled'
<1> DEFINE s == span[t]
           touched == {b \in Before(s) : End(b) = s.offset} \cup {b \in After(s) : b.offset = End(s)}
<1>1. touched \subseteq free BY DEF Before, After
<1>2. touched # {} \/ Cardinality(free) < FreeCapacity BY DEF Free
<1>3. \E whole : free' = (free \ touched) \cup {whole} BY DEF Free
<1> HIDE DEF touched, s
<1>4. /\ IsFiniteSet(free \ touched) /\ Cardinality(free \ touched) \in Nat /\ Cardinality(free) \in Nat
      /\ Cardinality(free \ touched) <= Cardinality(free)
  BY FS_Subset, FS_CardinalityType DEF Tabled
<1>5. touched # {} => Cardinality(free \ touched) < Cardinality(free)
  <2> SUFFICES ASSUME NEW b \in touched PROVE Cardinality(free \ touched) < Cardinality(free) OBVIOUS
  <2>1. IsFiniteSet(free \ {b}) /\ Cardinality(free \ {b}) = Cardinality(free) - 1
    BY <1>1, FS_RemoveElement DEF Tabled
  <2>2. free \ touched \subseteq free \ {b} OBVIOUS
  <2> QED BY <1>4, <2>1, <2>2, FS_Subset
<1>6. PICK whole : free' = (free \ touched) \cup {whole} BY <1>3
<1>7. IsFiniteSet(free') /\ Cardinality(free') \in Nat /\ Cardinality(free') <= Cardinality(free \ touched) + 1
  BY <1>4, <1>6, AddOne
<1> QED BY <1>2, <1>4, <1>5, <1>7, ArenaAssumption DEF Tabled

\* Units are only lost below offset.
LostBelow == lost \subseteq 0 .. offset - 1

\* What a full table forgets had been given out.
LEMMA AllocFromFreeLost ==
  ASSUME Typed, Sound, LostBelow, NEW t \in Tensors, NEW n \in Sizes, NEW a \in Alignments,
         AllocFromFree(t, n, a)
  PROVE  LostBelow'
<1>1. PICK b \in Best(n, a) : lost' \subseteq lost \cup AlignUp(b.offset, a) + n .. End(b) - 1
  BY DEF AllocFromFree
<1>2. b \in free /\ b \in Block /\ Fits(b, n, a) BY DEF Best, Typed
<1>3. AlignUp(b.offset, a) \in Nat /\ n \in Nat
  BY <1>2, AlignUpBounds, ArenaAssumption DEF Fits, Block
<1>4. End(b) <= offset /\ End(b) \in Nat BY <1>2 DEF Sound, End, Block
<1>5. offset' = offset BY DEF AllocFromFree
<1> QED BY <1>1, <1>3, <1>4, <1>5 DEF LostBelow, Typed

\* The gap in front of an aligned span lies below the new offset.
LEMMA AllocFromEndLost ==
  ASSUME Typed, LostBelow, NEW t \in Tensors, NEW n \in Sizes, NEW a \in Alignments,
         AllocFromEnd(t, n, a)
  PROVE  LostBelow'
<1> DEFINE start == AlignUp(offset, a)
<1>1. start \in Nat /\ offset <= start /\ n \in Nat /\ n > 0 /\ offset \in Nat
  BY AlignUpBounds, ArenaAssumption DEF AllocFromEnd, Typed
<1>2. offset' = start + n /\ lost' = lost \cup offset .. start - 1 BY DEF AllocFromEnd
<1> HIDE DEF start
<1>3. \A x \in lost : x \in 0 .. offset' - 1 BY <1>1, <1>2 DEF LostBelow
<1>4. \A x \in offset .. start - 1 : x \in 0 .. offset' - 1 BY <1>1, <1>2
<1> QED BY <1>2, <1>3, <1>4 DEF LostBelow

\* A unit that is lost has been given out once.
LEMMA ArenaLostBelow == Spec => []LostBelow
<1>1. Init => LostBelow BY DEF Init, LostBelow
<1>2. Typed /\ Sound /\ LostBelow /\ [Next]_vars => LostBelow'
  <2> SUFFICES ASSUME Typed, Sound, LostBelow, [Next]_vars PROVE LostBelow' OBVIOUS
  <2>1. CASE \E t \in Tensors, n \in Sizes, a \in Alignments : AllocFromFree(t, n, a)
    BY <2>1, AllocFromFreeLost
  <2>2. CASE \E t \in Tensors, n \in Sizes, a \in Alignments : AllocFromEnd(t, n, a)
    BY <2>2, AllocFromEndLost
  <2>3. CASE \E t \in Tensors : Free(t) BY <2>3 DEF Free, LostBelow
  <2>4. CASE Reset BY <2>4 DEF Reset, LostBelow
  <2>5. CASE UNCHANGED vars BY <2>5 DEF vars, LostBelow
  <2> QED BY <2>1, <2>2, <2>3, <2>4, <2>5 DEF Next
<1> QED BY <1>1, <1>2, SoundInvariance, PTL DEF Spec

\* Every variable keeps its type, and the table of free blocks its limit.
THEOREM ArenaTypes == Spec => []TypeOK
<1>1. Init => Tabled BY FS_EmptySet, ArenaAssumption DEF Init, Tabled
<1>2. Typed /\ Tabled /\ [Next]_vars => Tabled'
  <2> SUFFICES ASSUME Typed, Tabled, [Next]_vars PROVE Tabled' OBVIOUS
  <2>1. CASE \E t \in Tensors, n \in Sizes, a \in Alignments : AllocFromFree(t, n, a)
    BY <2>1, AllocFromFreeTabled
  <2>2. CASE \E t \in Tensors, n \in Sizes, a \in Alignments : AllocFromEnd(t, n, a)
    BY <2>2 DEF AllocFromEnd, Tabled
  <2>3. CASE \E t \in Tensors : Free(t) BY <2>3, FreeTabled
  <2>4. CASE Reset BY <2>4, FS_EmptySet, ArenaAssumption DEF Reset, Tabled
  <2>5. CASE UNCHANGED vars BY <2>5 DEF vars, Tabled
  <2> QED BY <2>1, <2>2, <2>3, <2>4, <2>5 DEF Next
<1>3. Typed /\ Tabled /\ LostBelow => TypeOK BY ArenaAssumption DEF Typed, Tabled, LostBelow, TypeOK
<1> QED BY <1>1, <1>2, <1>3, SoundInvariance, ArenaLostBelow, PTL DEF Spec

----------------------------------------------------------------------------
(* Every unit below offset is somewhere.                                   *)

Somewhere(x) ==
  \/ x \in lost
  \/ \E t \in Tensors : Current(t) /\ x \in Units(span[t])
  \/ \E b \in free : x \in Units(b)

Covered == \A x \in 0 .. offset - 1 : Somewhere(x)

\* A unit of a split block goes to the span, to what is left of the block, or
\* is lost.
LEMMA AllocFromFreeCovers ==
  ASSUME Typed, Sound, Covered, NEW t \in Tensors, NEW n \in Sizes, NEW a \in Alignments,
         AllocFromFree(t, n, a)
  PROVE  Covered'
<1>1. PICK b \in Best(n, a) :
        LET start == AlignUp(b.offset, a)
            left  == Remains(b, start, start + n)
        IN /\ Give(t, start, n)
           /\ free' = (free \ {b}) \cup left
           /\ lost' = lost \cup {u \in start + n .. End(b) - 1 : Suffix(b, start + n) \notin left}
  BY DEF AllocFromFree
<1> DEFINE start == AlignUp(b.offset, a)
           left  == Remains(b, start, start + n)
<1>2. b \in free /\ b \in Block /\ Fits(b, n, a) BY DEF Best, Typed
<1>3. start \in Nat /\ b.offset <= start /\ n \in Nat /\ n > 0 /\ start + n <= End(b)
  BY <1>2, AlignUpBounds, ArenaAssumption DEF Fits, Block
<1>4. /\ span' = [span EXCEPT ![t] = [offset |-> start, nbytes |-> n, generation |-> generation]]
      /\ free' = (free \ {b}) \cup left
      /\ lost' = lost \cup {u \in start + n .. End(b) - 1 : Suffix(b, start + n) \notin left}
  BY <1>1 DEF Give
<1>5. UNCHANGED <<offset, generation>> /\ ~ Current(t) BY DEF AllocFromFree, Live, Current
<1>6. b.offset < start => Prefix(b, start) \in left
  BY <1>2, <1>3 DEF Remains, Prefix, Suffix, Block
<1> HIDE DEF start, left
<1>7. Current(t)' /\ Units(span'[t]) = start .. start + n - 1
  BY <1>3, <1>4, <1>5, ArenaAssumption DEF Current, Typed, Units, End
<1>8. ASSUME NEW x \in Units(b) PROVE Somewhere(x)'
  <2>1. x \in Int /\ b.offset <= x /\ x < End(b) BY <1>2 DEF Units, Block, End
  <2>2. CASE x < start
    <3>1. Prefix(b, start) \in free' BY <1>2, <1>3, <1>4, <1>6, <2>1, <2>2 DEF Block
    <3>2. x \in Units(Prefix(b, start)) BY <1>2, <1>3, <2>1, <2>2 DEF Units, Prefix, End, Block
    <3> QED BY <3>1, <3>2 DEF Somewhere, Units, End
  <2>3. CASE start <= x /\ x < start + n
    <3>1. x \in Units(span'[t]) BY <1>3, <1>7, <2>1, <2>3
    <3> QED BY <1>7, <3>1 DEF Somewhere, Units, End
  <2>4. CASE start + n <= x
    <3>1. x \in Units(Suffix(b, start + n)) /\ x \in start + n .. End(b) - 1
      BY <1>2, <1>3, <2>1, <2>4 DEF Units, Suffix, End, Block
    <3> QED BY <1>4, <3>1 DEF Somewhere, Units, End
  <2> QED BY <1>3, <2>1, <2>2, <2>3, <2>4
<1>9. \A u \in Tensors : Current(u) => Current(u)' /\ span'[u] = span[u]
  BY <1>4, <1>5 DEF Current, Typed
<1>10. \A c \in free : c = b \/ c \in free' BY <1>4
<1> QED BY <1>4, <1>5, <1>8, <1>9, <1>10 DEF Covered, Somewhere, Units, End

\* The units from the old offset to the new one are the gap and the span.
LEMMA AllocFromEndCovers ==
  ASSUME Typed, Sound, Covered, NEW t \in Tensors, NEW n \in Sizes, NEW a \in Alignments,
         AllocFromEnd(t, n, a)
  PROVE  Covered'
<1> DEFINE start == AlignUp(offset, a)
<1>1. start \in Nat /\ offset <= start /\ n \in Nat /\ offset \in Nat
  BY AlignUpBounds, ArenaAssumption DEF AllocFromEnd, Typed
<1>2. /\ offset' = start + n /\ UNCHANGED <<free, generation>> /\ lost' = lost \cup offset .. start - 1
      /\ span' = [span EXCEPT ![t] = [offset |-> start, nbytes |-> n, generation |-> generation]]
      /\ ~ Current(t)
  BY DEF AllocFromEnd, Give, Live, Current
<1> HIDE DEF start
<1>3. Current(t)' /\ Units(span'[t]) = start .. start + n - 1
  BY <1>1, <1>2, ArenaAssumption DEF Current, Typed, Units, End
<1>4. \A u \in Tensors : Current(u) => Current(u)' /\ span'[u] = span[u]
  BY <1>2 DEF Current, Typed
<1> SUFFICES ASSUME NEW x \in 0 .. offset' - 1 PROVE Somewhere(x)' BY DEF Covered
<1>5. CASE x < offset
  <2>1. Somewhere(x) BY <1>1, <1>2, <1>5 DEF Covered
  <2> QED BY <1>2, <1>4, <2>1 DEF Somewhere, Units, End
<1>6. CASE offset <= x /\ x < start BY <1>1, <1>2, <1>6 DEF Somewhere
<1>7. CASE start <= x
  <2>1. x \in Units(span'[t]) BY <1>1, <1>2, <1>3, <1>7
  <2> QED BY <1>3, <2>1 DEF Somewhere, Units, End
<1> QED BY <1>1, <1>2, <1>5, <1>6, <1>7

\* The merged block has the units of the span and of the blocks it replaces.
LEMMA FreeCovers ==
  ASSUME Typed, Sound, Covered, NEW t \in Tensors, Free(t)
  PROVE  Covered'
<1> DEFINE s == span[t]
           prev == {b \in Before(s) : End(b) = s.offset}
           next == {b \in After(s) : b.offset = End(s)}
<1>1. PICK first \in IF prev = {} THEN {s} ELSE prev, last \in IF next = {} THEN {s} ELSE next :
        free' = (free \ (prev \cup next))
                  \cup {[offset |-> first.offset, nbytes |-> End(last) - first.offset]}
  BY DEF Free
<1>2. s \in Span /\ s.nbytes > 0 /\ UNCHANGED <<offset, generation, lost>> /\ span' = [span EXCEPT ![t] = NoSpan]
  BY DEF Free, Live, Current, Typed, Sound
<1>3. \A b, c \in prev : b = c BY DEF Before, Typed, Sound, FarApart, Block, End
<1>4. \A b, c \in next : b = c BY DEF After, Typed, Sound, FarApart, Block, End
<1>5. /\ (first = s /\ prev = {}) \/ (prev = {first} /\ first \in free /\ End(first) = s.offset)
      /\ (last = s /\ next = {}) \/ (next = {last} /\ last \in free /\ last.offset = End(s))
  <2>1. prev \subseteq free /\ next \subseteq free BY DEF Before, After
  <2>2. (first = s /\ prev = {}) \/ first \in prev OBVIOUS
  <2>3. (last = s /\ next = {}) \/ last \in next OBVIOUS
  <2>4. \A b \in prev : End(b) = s.offset OBVIOUS
  <2>5. \A b \in next : b.offset = End(s) OBVIOUS
  <2> HIDE DEF prev, next, s
  <2>6. first \in prev => prev = {first} BY <1>3
  <2>7. last \in next => next = {last} BY <1>4
  <2>8. (first = s /\ prev = {}) \/ (prev = {first} /\ first \in free /\ End(first) = s.offset)
    BY <2>1, <2>2, <2>4, <2>6
  <2>9. (last = s /\ next = {}) \/ (next = {last} /\ last \in free /\ last.offset = End(s))
    BY <2>1, <2>3, <2>5, <2>7
  <2> QED BY <2>8, <2>9
<1> DEFINE whole == [offset |-> first.offset, nbytes |-> End(last) - first.offset]
<1>6. Units(whole) = first.offset .. End(last) - 1
  BY <1>2, <1>5 DEF Units, End, Typed, Block, Span
<1>7. Units(s) \subseteq Units(whole) /\ \A b \in prev \cup next : Units(b) \subseteq Units(whole)
  <2> DEFINE low == first.offset
             high == End(last)
  <2>1. /\ s.offset \in Nat /\ End(s) \in Nat /\ low \in Nat /\ high \in Nat
        /\ low <= s.offset /\ s.offset <= End(s) /\ End(s) <= high
    BY <1>2, <1>5 DEF End, Typed, Block, Span
  <2>2. \A x : x \in Units(whole) <=> x \in Int /\ low <= x /\ x < high BY <1>6, <2>1
  <2> HIDE DEF whole, low, high, prev, next, s
  <2>3. Units(s) \subseteq Units(whole) BY <2>1, <2>2 DEF Units
  <2>4. ASSUME NEW b \in prev PROVE Units(b) \subseteq Units(whole)
    <3>1. b = first /\ End(b) = s.offset BY <1>5
    <3>2. b.offset = low BY <3>1 DEF low
    <3> QED BY <2>1, <2>2, <3>1, <3>2 DEF Units
  <2>5. ASSUME NEW b \in next PROVE Units(b) \subseteq Units(whole)
    <3>1. b = last /\ b.offset = End(s) BY <1>5
    <3>2. End(b) = high BY <3>1 DEF high
    <3> QED BY <2>1, <2>2, <3>1, <3>2 DEF Units
  <2> QED BY <2>3, <2>4, <2>5
<1> HIDE DEF whole, prev, next
<1>8. free' = (free \ (prev \cup next)) \cup {whole} BY <1>1 DEF whole
<1>9. \A u \in Tensors : Current(u) => u = t \/ (Current(u)' /\ span'[u] = span[u])
  BY <1>2 DEF Current, Typed
<1> SUFFICES ASSUME NEW x \in 0 .. offset - 1, Somewhere(x) PROVE Somewhere(x)' BY <1>2 DEF Covered
<1>10. CASE x \in lost BY <1>2, <1>10 DEF Somewhere
<1>11. CASE \E u \in Tensors : Current(u) /\ x \in Units(span[u])
  BY <1>7, <1>8, <1>9, <1>11 DEF Somewhere, Units, End
<1>12. CASE \E b \in free : x \in Units(b)
  BY <1>7, <1>8, <1>12 DEF Somewhere, Units, End
<1> QED BY <1>10, <1>11, <1>12 DEF Somewhere

\* Freed memory can be had again: alignment gaps and a full table apart,
\* nothing below offset is ever out of reach.
THEOREM ArenaForgetsNothing == Spec => []NothingForgotten
<1>1. Init => Covered BY DEF Init, Covered
<1>2. Typed /\ Sound /\ Covered /\ [Next]_vars => Covered'
  <2> SUFFICES ASSUME Typed, Sound, Covered, [Next]_vars PROVE Covered' OBVIOUS
  <2>1. CASE \E t \in Tensors, n \in Sizes, a \in Alignments : AllocFromFree(t, n, a)
    BY <2>1, AllocFromFreeCovers
  <2>2. CASE \E t \in Tensors, n \in Sizes, a \in Alignments : AllocFromEnd(t, n, a)
    BY <2>2, AllocFromEndCovers
  <2>3. CASE \E t \in Tensors : Free(t) BY <2>3, FreeCovers
  <2>4. CASE Reset BY <2>4 DEF Reset, Covered
  <2>5. CASE UNCHANGED vars BY <2>5 DEF vars, Covered, Somewhere, Current, Units, End
  <2> QED BY <2>1, <2>2, <2>3, <2>4, <2>5 DEF Next
<1>3. Typed /\ Sound /\ Covered /\ LostBelow => NothingForgotten
  <2> SUFFICES ASSUME Typed, Sound, Covered, LostBelow PROVE NothingForgotten OBVIOUS
  <2>1. HeldIsExclusive BY SoundExclusive
  <2> DEFINE held == UNION {Held(t) : t \in Tensors}
             blocks == UNION {Units(b) : b \in free}
  <2>2. ASSUME NEW x \in 0 .. offset - 1 PROVE x \in held \cup blocks \cup lost
    <3>1. CASE \E t \in Tensors : Current(t) /\ x \in Units(span[t])
      <4>1. PICK t \in Tensors : Current(t) /\ x \in Units(span[t]) BY <3>1
      <4>2. x \in Held(t) BY <4>1, HeldUnits
      <4> QED BY <4>2
    <3>2. CASE \E b \in free : x \in Units(b) BY <3>2
    <3>3. CASE x \in lost BY <3>3
    <3> QED BY <3>1, <3>2, <3>3 DEF Covered, Somewhere
  <2>3. held \subseteq 0 .. offset - 1 BY <2>1 DEF HeldIsExclusive
  <2>4. blocks \subseteq 0 .. offset - 1 BY <2>1 DEF HeldIsExclusive
  <2>5. lost \subseteq 0 .. offset - 1 BY DEF LostBelow
  <2> HIDE DEF held, blocks
  <2>6. held \cup blocks \cup lost = 0 .. offset - 1 BY <2>2, <2>3, <2>4, <2>5
  <2> QED BY <2>6 DEF NothingForgotten, held, blocks
<1>4. Spec => []LostBelow BY ArenaLostBelow
<1> QED BY <1>1, <1>2, <1>3, <1>4, SoundInvariance, PTL DEF Spec

----------------------------------------------------------------------------
(* The arena implements Allocator.                                         *)

\* What a step leaves to the tensors it is not about.
LEMMA HeldByOthers ==
  ASSUME Typed, NEW t \in Tensors, NEW new, span' = [span EXCEPT ![t] = new], UNCHANGED generation
  PROVE  \A u \in Tensors : u # t => Held(u)' = Held(u)
BY DEF Typed, Held, Units, End

\* A span is given to one tensor, and nobody has any unit of it.
LEMMA GiveIsAlloc ==
  ASSUME Typed, Typed', Sound', NEW t \in Tensors, NEW start \in Nat, NEW n \in Nat, n > 0,
         ~ Live(t), Give(t, start, n), UNCHANGED generation
  PROVE  Abstract!Alloc(t)
<1> DEFINE last == start + n - 1
<1>1. span' = [span EXCEPT ![t] = [offset |-> start, nbytes |-> n, generation |-> generation]]
  BY DEF Give
<1>2. span'[t] = [offset |-> start, nbytes |-> n, generation |-> generation] BY <1>1 DEF Typed
<1>3. Current(t)' BY <1>2, ArenaAssumption DEF Current, Typed
<1>4. Held(t)' = start .. last BY <1>2, <1>3 DEF Held, Current, Units, End
<1>5. start + n <= Capacity BY <1>2, <1>3, ArenaAssumption DEF Sound, Typed, End
<1>6. Held(t) = {} BY DEF Held, Live
<1>7. \A u \in Tensors : u # t => Held(u)' = Held(u) BY <1>1, HeldByOthers
<1>8. HeldIsExclusive' BY SoundExclusive, PTL
<1>9. \A u \in Tensors : Held(u) \cap (start .. last) = {}
  BY <1>4, <1>6, <1>7, <1>8 DEF HeldIsExclusive
<1>10. start \in 0 .. Capacity - 1 /\ last \in 0 .. Capacity - 1 /\ start <= last
  BY <1>5, ArenaAssumption
<1>11. [u \in Tensors |-> Held(u)]' = [[u \in Tensors |-> Held(u)] EXCEPT ![t] = start .. last]
  BY <1>4, <1>7
<1> QED BY <1>6, <1>9, <1>10, <1>11 DEF Abstract!Alloc, Abstract!Unit

\* Every step of the arena is a step of Allocator or a stutter.
LEMMA StepImplements ==
  ASSUME Typed, Sound, Typed', Sound', [Next]_vars
  PROVE  Abstract!Next \/ UNCHANGED [t \in Tensors |-> Held(t)]
<1>1. ASSUME NEW t \in Tensors, NEW n \in Sizes, NEW a \in Alignments, AllocFromFree(t, n, a)
      PROVE  Abstract!Alloc(t)
  <2>1. PICK b \in Best(n, a) : Give(t, AlignUp(b.offset, a), n) BY <1>1 DEF AllocFromFree
  <2>2. b \in Block /\ AlignFits(b.offset, a) BY DEF Best, Fits, Typed
  <2>3. AlignUp(b.offset, a) \in Nat /\ n \in Nat /\ n > 0
    BY <2>2, AlignUpBounds, ArenaAssumption DEF Block
  <2> QED BY <1>1, <2>1, <2>3, GiveIsAlloc DEF AllocFromFree
<1>2. ASSUME NEW t \in Tensors, NEW n \in Sizes, NEW a \in Alignments, AllocFromEnd(t, n, a)
      PROVE  Abstract!Alloc(t)
  <2>1. Give(t, AlignUp(offset, a), n) BY <1>2 DEF AllocFromEnd
  <2>2. AlignUp(offset, a) \in Nat /\ n \in Nat /\ n > 0
    BY <1>2, AlignUpBounds, ArenaAssumption DEF AllocFromEnd, Typed
  <2> QED BY <1>2, <2>1, <2>2, GiveIsAlloc DEF AllocFromEnd
<1>3. ASSUME NEW t \in Tensors, Free(t) PROVE Abstract!Free(t)
  <2>1. span' = [span EXCEPT ![t] = NoSpan] /\ UNCHANGED generation /\ Current(t)
    BY <1>3 DEF Free, Live, Current
  <2>2. Held(t)' = {} BY <2>1 DEF Held, Typed
  <2>3. Held(t) # {}
    <3>1. Held(t) = Units(span[t]) /\ span[t] \in Span /\ span[t].nbytes > 0 BY <2>1, HeldUnits DEF Sound
    <3>2. span[t].offset \in Units(span[t]) BY <3>1 DEF Units, End, Span
    <3> QED BY <3>1, <3>2
  <2>4. \A u \in Tensors : u # t => Held(u)' = Held(u) BY <2>1, HeldByOthers
  <2>5. [u \in Tensors |-> Held(u)]' = [[u \in Tensors |-> Held(u)] EXCEPT ![t] = {}]
    BY <2>2, <2>4
  <2> QED BY <2>3, <2>5 DEF Abstract!Free
<1>4. CASE Reset
  <2>1. \A t \in Tensors : ~ Current(t)' BY <1>4 DEF Current, Reset, Typed, Sound, Span
  <2>2. \A t \in Tensors : Held(t)' = {} BY <2>1 DEF Held, Current
  <2> QED BY <2>2 DEF Abstract!Next, Abstract!Reset, Abstract!Nobody
<1>5. CASE UNCHANGED vars BY <1>5 DEF vars, Held, Units, End
<1> QED BY <1>1, <1>2, <1>3, <1>4, <1>5 DEF Next, Abstract!Next

\* The arena refines Allocator: tensors are given units nobody has, and keep
\* them until they free them or the arena is reset.
THEOREM ArenaImplementsAllocator == Spec => AllocatorSpec
<1>1. Init => Abstract!Init BY DEF Init, Held, Abstract!Init, Abstract!Nobody
<1>2. Typed /\ Sound /\ Typed' /\ Sound' /\ [Next]_vars => [Abstract!Next]_([t \in Tensors |-> Held(t)])
  BY StepImplements
<1> QED BY <1>1, <1>2, SoundInvariance, PTL DEF Spec, AllocatorSpec, Abstract!Spec
=============================================================================
