--------------------------- MODULE Autograd_proofs ---------------------------
(***************************************************************************)
(* What module Autograd keeps true, proved for every set of parameters,    *)
(* every tape and every size of the arena, the tape and the slots.  All of *)
(* it holds as long as gd_backward is called once in a step: the finding   *)
(* LeafGradsRetained shows what a second call does to the gradients of the *)
(* first.                                                                  *)
(*                                                                         *)
(* The argument: a span that is given out is a slot's, or the tape's, or   *)
(* the temporary of the call in progress, and never two of these (Slots,   *)
(* Live, Accounted).  Each function of autograd.c is shown to keep that,   *)
(* bottom up.  The count of a span the tape refers to is the number of     *)
(* references not yet passed (Counts), which is positive as long as one    *)
(* waits; and the gradients of what a node computed are gone after its     *)
(* visit (Consumed), since only earlier nodes' outputs are given any.      *)
(* What a mul keeps of full size is recorded by its output and operand     *)
(* (Fulls); a node whose turn it is has kept none yet (NoneKept), so there *)
(* is one at most for each.                                                *)
(*                                                                         *)
(* From this follows what the slots hold at every turn of the walk: what   *)
(* the seeds and the uses behind it bring by the chain rule (Right).  Each *)
(* way to hand on a gradient adds one amount to one tensor (Gets), a rule  *)
(* brings each input its derivative times what came to the outputs         *)
(* (Brings), and so the sums of the chain rule grow as the slots do.       *)
(***************************************************************************)
EXTENDS Autograd, FiniteSetTheorems, WellFoundedInduction, TLAPS

Value == 0 .. Prime - 1

Tensor == [span : Scratch \cup Params, rg : BOOLEAN, dims : SUBSET {1, 2}, val : Value,
           given : BOOLEAN]

\* What the forward pass has recorded.
NodeOK(n, k) ==
  /\ Len(n.in) = (IF Binary(n.op) THEN 2 ELSE 1) /\ Len(n.out) = Outputs(n.op)
  /\ Len(n.saved) = (IF Saves(n.op) THEN 1 ELSE 0)
  /\ \A t \in ToSet(n.in) \cup ToSet(n.out) \cup ToSet(n.saved) : t \in 1 .. k
  /\ \A t \in ToSet(n.in) : \A u \in ToSet(n.out) : t < u

Shape ==
  /\ tensors \in Seq(Tensor)
  /\ tensors # <<>> => tensors[1].span \in Params
  /\ tape \in Seq(Node)
  /\ \A i \in DOMAIN tape : NodeOK(tape[i], Len(tensors))
  /\ \A i, j \in DOMAIN tape : i < j =>
       \A t \in ToSet(tape[i].out) : \A u \in ToSet(tape[j].out) : t < u

Whole(c) ==
  c = [held |-> c.held, top |-> c.top, mem |-> c.mem, grads |-> c.grads, refs |-> c.refs,
       lost |-> c.lost, full |-> c.full, status |-> c.status]

Core(c) ==
  /\ Whole(c)
  /\ c.top \in 0 .. Spans /\ c.held \subseteq 1 .. c.top
  /\ DOMAIN c.mem = Scratch \cup Params
  /\ c.status \in {"OK", "OUT_OF_MEMORY"}

\* Slots have storage that is allocated, each its own.
Slots(c) ==
  /\ \A t \in DOMAIN c.grads : c.grads[t] \in c.held
  /\ \A t, u \in DOMAIN c.grads : c.grads[t] = c.grads[u] => t = u

\* What the tape still refers to is allocated, no slot's, and as it was written.
Live(c) ==
  /\ \A s \in DOMAIN c.refs : c.refs[s] # 0 => s \in c.held
  /\ \A t \in DOMAIN c.grads : ~ LiveStorageActive(c, c.grads[t])
  /\ \A t \in TensorId :
       Span(t) \in Params \/ LiveStorageActive(c, Span(t)) => c.mem[Span(t)] = tensors[t].val

Sound(c) == Core(c) /\ Slots(c) /\ Live(c)

OffSpans == {Span(t) : t \in {u \in TensorId : OffTape(u)}}

\* Every span given out is accounted for; those of T are temporary.
Accounted(c, T) ==
  Ok(c) => \A s \in c.held : \/ GradStorageActive(c, s) \/ LiveStorageActive(c, s)
                             \/ s \in c.lost \cup Range(c.full) \cup OffSpans \cup T

\* The references of s not yet consumed at position j of node k.
TensorAt(x) == Refs(tape[x[1]])[x[2]]
Left(k, j, s) ==
  {x \in Occurrences : /\ SpanAt(x) = s
                       /\ \/ x[1] < k \/ (x[1] = k /\ x[2] > j)
                          \/ Contains(seeds.outputs, TensorAt(x))}

Counts(c, k, j) ==
  /\ DOMAIN c.refs = {SpanAt(x) : x \in Occurrences} \cap Scratch
  /\ \A s \in DOMAIN c.refs : c.refs[s] = Cardinality(Left(k, j, s))

\* The products kept so far are of nodes that had their turn.
Fulls(c, k) ==
  DOMAIN c.full \subseteq UNION {Unreduced(tape[i]) : i \in {j \in DOMAIN tape : j > k}}

\* No gradient of what a node computes outlives the visit to the node.
Consumed(c, k) ==
  \A i \in DOMAIN tape : i > k => \A t \in ToSet(tape[i].out) : t \notin DOMAIN c.grads

Before ==
  /\ Ok(core) /\ core.grads = <<>> /\ core.lost = {} /\ core.full = <<>>
  /\ \A t \in TensorId : /\ Span(t) \in Scratch => Span(t) \in core.held
                         /\ core.mem[Span(t)] = tensors[t].val
  /\ core.held \subseteq {Span(t) : t \in TensorId}

During ==
  /\ Ok(core) /\ Sound(core) /\ Accounted(core, {})
  /\ walk \in DOMAIN tape /\ seeds.outputs \in Seq(Nat)
  /\ Counts(core, walk, 0) /\ Consumed(core, walk) /\ Fulls(core, walk)

AutogradInv ==
  /\ phase \in {"forward", "backward", "done", "failed"}
  /\ backwards \in Nat /\ (phase # "forward" => backwards > 0)
  /\ Shape /\ Core(core) /\ Slots(core)
  /\ phase = "forward" => Before
  /\ phase = "backward" => During
  /\ NothingLeft

----------------------------------------------------------------------------
(* Numbers.                                                                *)

\* A nonempty set of naturals has a least element.
LEMMA LeastElement ==
  ASSUME NEW T, T \subseteq Nat, T # {} PROVE \E x \in T : \A y \in T : x <= y
<1>1. PICK x \in T : \A y \in T : ~ (<<y, x>> \in OpToRel(<, Nat)) BY NatLessThanWellFounded, WFMin
<1>2. \A y \in T : ~ (y < x) BY <1>1 DEF OpToRel
<1> QED BY <1>2

\* Elements are kept modulo a prime.
LEMMA Residues ==
  /\ \A a \in Int : a % Prime \in Value
  /\ \A a \in Value : a % Prime = a
BY DEF Prime, Value

\* Max of two numbers.
LEMMA LargerOf ==
  ASSUME NEW a \in Nat, NEW b \in Nat PROVE Max({a, b}) = IF a <= b THEN b ELSE a
<1> DEFINE m == IF a <= b THEN b ELSE a
<1>1. m \in {a, b} /\ \A y \in {a, b} : m >= y OBVIOUS
<1>2. ASSUME NEW x \in {a, b}, \A y \in {a, b} : x >= y PROVE x = m BY <1>2
<1> QED BY <1>1, <1>2 DEF Max

\* Min of a nonempty set of naturals is its least element.
LEMMA SmallestOf ==
  ASSUME NEW T, T \subseteq Nat, T # {} PROVE Min(T) \in T /\ \A y \in T : Min(T) <= y
<1>1. PICK x \in T : \A y \in T : x <= y BY LeastElement
<1> QED BY <1>1 DEF Min

\* What the assumptions say of the arena and the parameters.
LEMMA Sizes == Spans \in Nat /\ Len(Leaves) \in Nat
BY AutogradAssumption

----------------------------------------------------------------------------
(* The arena.                                                              *)

\* There is a smallest free block, the first of its size, and it is free.
LEMMA FreshIsFree ==
  ASSUME NEW c, Core(c) PROVE Fresh(c) \in 1 .. c.top + 1 /\ Fresh(c) \notin c.held
<1> USE Sizes
<1>1. CASE HoleStarts(c) = {} BY <1>1 DEF Fresh, Core
<1>2. CASE HoleStarts(c) # {}
  <2>1. HoleStarts(c) \subseteq 1 .. c.top /\ \A s \in HoleStarts(c) : s \notin c.held
    BY DEF HoleStarts, Hole
  <2>2. ASSUME NEW s \in HoleStarts(c) PROVE HoleSize(c, s) \in Nat
    <3> DEFINE ends == {e \in s + 1 .. c.top + 1 : ~ Hole(c, e)}
    <3>1. c.top \in Nat /\ s \in 1 .. c.top BY <2>1 DEF Core
    <3>2. c.top + 1 \in ends BY <3>1 DEF Hole
    <3>3. ends \subseteq Nat BY <3>1
    <3>4. Min(ends) \in ends BY <3>2, <3>3, SmallestOf
    <3> QED BY <3>1, <3>4 DEF HoleSize
  <2> DEFINE sizes == {HoleSize(c, s) : s \in HoleStarts(c)}
  <2>3. PICK m \in sizes : \A y \in sizes : m <= y BY <1>2, <2>2, LeastElement
  <2> DEFINE best == {s \in HoleStarts(c) : HoleSize(c, s) = m}
  <2>4. best \subseteq Nat /\ best # {} BY <2>1, <2>3 DEF Core
  <2>5. PICK s \in best : \A t \in best : s <= t BY <2>4, LeastElement
  <2>6. \A t \in HoleStarts(c) : \/ HoleSize(c, s) < HoleSize(c, t)
                                 \/ HoleSize(c, s) = HoleSize(c, t) /\ s <= t
    <3>1. m \in Nat /\ HoleSize(c, s) = m BY <2>2, <2>3, <2>5
    <3>2. ASSUME NEW t \in HoleStarts(c)
          PROVE  \/ HoleSize(c, s) < HoleSize(c, t)
                 \/ HoleSize(c, s) = HoleSize(c, t) /\ s <= t
      <4>1. HoleSize(c, t) \in Nat /\ m <= HoleSize(c, t) BY <2>2, <2>3
      <4>2. CASE HoleSize(c, t) = m BY <2>5, <3>1, <4>2
      <4>3. CASE HoleSize(c, t) # m BY <3>1, <4>1, <4>3
      <4> QED BY <4>2, <4>3
    <3> QED BY <3>2
  <2>7. Fresh(c) \in HoleStarts(c) BY <1>2, <2>5, <2>6 DEF Fresh
  <2> QED BY <2>1, <2>7 DEF Core
<1> QED BY <1>1, <1>2

\* Writing one field of the core changes no other, here the spans given out.
LEMMA SetHeld ==
  ASSUME NEW c, Whole(c), NEW x
  PROVE  LET d == [c EXCEPT !.held = x] IN
         /\ Whole(d) /\ d.held = x /\ d.top = c.top /\ d.mem = c.mem /\ d.grads = c.grads
         /\ d.refs = c.refs /\ d.lost = c.lost /\ d.full = c.full /\ d.status = c.status
BY DEF Whole

\* The same of the arena's offset.
LEMMA SetTop ==
  ASSUME NEW c, Whole(c), NEW x
  PROVE  LET d == [c EXCEPT !.top = x] IN
         /\ Whole(d) /\ d.held = c.held /\ d.top = x /\ d.mem = c.mem /\ d.grads = c.grads
         /\ d.refs = c.refs /\ d.lost = c.lost /\ d.full = c.full /\ d.status = c.status
BY DEF Whole

\* The same of the memory.
LEMMA SetMem ==
  ASSUME NEW c, Whole(c), NEW x
  PROVE  LET d == [c EXCEPT !.mem = x] IN
         /\ Whole(d) /\ d.held = c.held /\ d.top = c.top /\ d.mem = x /\ d.grads = c.grads
         /\ d.refs = c.refs /\ d.lost = c.lost /\ d.full = c.full /\ d.status = c.status
BY DEF Whole

\* The same of the slots.
LEMMA SetGrads ==
  ASSUME NEW c, Whole(c), NEW x
  PROVE  LET d == [c EXCEPT !.grads = x] IN
         /\ Whole(d) /\ d.held = c.held /\ d.top = c.top /\ d.mem = c.mem /\ d.grads = x
         /\ d.refs = c.refs /\ d.lost = c.lost /\ d.full = c.full /\ d.status = c.status
BY DEF Whole

\* The same of the references.
LEMMA SetRefs ==
  ASSUME NEW c, Whole(c), NEW x
  PROVE  LET d == [c EXCEPT !.refs = x] IN
         /\ Whole(d) /\ d.held = c.held /\ d.top = c.top /\ d.mem = c.mem /\ d.grads = c.grads
         /\ d.refs = x /\ d.lost = c.lost /\ d.full = c.full /\ d.status = c.status
BY DEF Whole

\* The same of the gradients that gd_zero_grad dropped.
LEMMA SetLost ==
  ASSUME NEW c, Whole(c), NEW x
  PROVE  LET d == [c EXCEPT !.lost = x] IN
         /\ Whole(d) /\ d.held = c.held /\ d.top = c.top /\ d.mem = c.mem /\ d.grads = c.grads
         /\ d.refs = c.refs /\ d.lost = x /\ d.full = c.full /\ d.status = c.status
BY DEF Whole

\* The same of the products that mul keeps.
LEMMA SetFull ==
  ASSUME NEW c, Whole(c), NEW x
  PROVE  LET d == [c EXCEPT !.full = x] IN
         /\ Whole(d) /\ d.held = c.held /\ d.top = c.top /\ d.mem = c.mem /\ d.grads = c.grads
         /\ d.refs = c.refs /\ d.lost = c.lost /\ d.full = x /\ d.status = c.status
BY DEF Whole

\* The same of the status.
LEMMA SetStatus ==
  ASSUME NEW c, Whole(c), NEW x
  PROVE  LET d == [c EXCEPT !.status = x] IN
         /\ Whole(d) /\ d.held = c.held /\ d.top = c.top /\ d.mem = c.mem /\ d.grads = c.grads
         /\ d.refs = c.refs /\ d.lost = c.lost /\ d.full = c.full /\ d.status = x
BY DEF Whole


\* A kernel's write changes one span's content.
LEMMA WriteEffect ==
  ASSUME NEW c, Core(c), NEW s \in Scratch, NEW v
  PROVE  LET d == Write(c, s, v) IN
         /\ Core(d) /\ d.held = c.held /\ d.top = c.top /\ d.grads = c.grads /\ d.refs = c.refs
         /\ d.lost = c.lost /\ d.full = c.full /\ d.status = c.status
         /\ d.mem[s] = v % Prime /\ \A r \in (Scratch \cup Params) \ {s} : d.mem[r] = c.mem[r]
<1> DEFINE x == [c.mem EXCEPT ![s] = v % Prime]
           d == [c EXCEPT !.mem = x]
<1>1. Write(c, s, v) = d BY DEF Write
<1>2. DOMAIN x = Scratch \cup Params /\ x[s] = v % Prime
      /\ \A r \in (Scratch \cup Params) \ {s} : x[r] = c.mem[r]
  BY DEF Core
<1> HIDE DEF x
<1>3. /\ Whole(d) /\ d.held = c.held /\ d.top = c.top /\ d.mem = x /\ d.grads = c.grads
      /\ d.refs = c.refs /\ d.lost = c.lost /\ d.full = c.full /\ d.status = c.status
  BY SetMem DEF Core
<1> HIDE DEF d
<1> QED BY <1>1, <1>2, <1>3 DEF Core

\* An allocation gives out one more span.
LEMMA AllocateEffect ==
  ASSUME NEW c, Core(c), NEW s \in Scratch, s <= c.top + 1
  PROVE  LET d == Allocate(c, s) IN
         /\ Core(d) /\ d.held = c.held \cup {s} /\ d.mem = c.mem /\ d.grads = c.grads
         /\ d.refs = c.refs /\ d.lost = c.lost /\ d.full = c.full /\ d.status = c.status
<1> USE Sizes
<1> DEFINE h  == c.held \cup {s}
           p  == Max({c.top, s})
           d1 == [c EXCEPT !.held = h]
           d  == [d1 EXCEPT !.top = Max({@, s})]
<1>1. Allocate(c, s) = d BY DEF Allocate
<1>2. c.top \in Nat /\ c.top <= Spans /\ s \in Nat /\ s <= Spans BY DEF Core, Scratch
<1>3. p = IF c.top <= s THEN s ELSE c.top BY <1>2, LargerOf
<1> HIDE DEF p
<1>4. p \in 0 .. Spans /\ h \subseteq 1 .. p BY <1>2, <1>3 DEF Core, Scratch
<1> HIDE DEF h
<1>5. /\ Whole(d1) /\ d1.held = h /\ d1.top = c.top /\ d1.mem = c.mem /\ d1.grads = c.grads
      /\ d1.refs = c.refs /\ d1.lost = c.lost /\ d1.full = c.full /\ d1.status = c.status
  BY SetHeld DEF Core
<1> HIDE DEF d1
<1>6. /\ Whole(d) /\ d.held = h /\ d.top = p /\ d.mem = c.mem /\ d.grads = c.grads
      /\ d.refs = c.refs /\ d.lost = c.lost /\ d.full = c.full /\ d.status = c.status
  BY <1>5, SetTop DEF p
<1> HIDE DEF d
<1> QED BY <1>1, <1>4, <1>6 DEF Core, h

\* A failure changes the status and nothing else.
LEMMA FailEffect ==
  ASSUME NEW c, Core(c)
  PROVE  LET d == Fail(c, "OUT_OF_MEMORY") IN
         /\ Core(d) /\ d.held = c.held /\ d.top = c.top /\ d.mem = c.mem /\ d.grads = c.grads
         /\ d.refs = c.refs /\ d.lost = c.lost /\ d.full = c.full /\ ~ Ok(d)
<1> DEFINE d == [c EXCEPT !.status = "OUT_OF_MEMORY"]
<1>1. Fail(c, "OUT_OF_MEMORY") = d BY DEF Fail
<1>2. /\ Whole(d) /\ d.held = c.held /\ d.top = c.top /\ d.mem = c.mem /\ d.grads = c.grads
      /\ d.refs = c.refs /\ d.lost = c.lost /\ d.full = c.full /\ d.status = "OUT_OF_MEMORY"
  BY SetStatus DEF Core
<1> HIDE DEF d
<1> QED BY <1>1, <1>2 DEF Core, Ok

\* A span that is given out can be given back.
LEMMA FreeEffect ==
  ASSUME NEW c, Core(c), NEW s \in c.held, Ok(c)
  PROVE  LET d == FreeSpan(c, s) IN
         /\ Core(d) /\ d.held = c.held \ {s} /\ d.top = c.top /\ d.mem = c.mem
         /\ d.grads = c.grads /\ d.refs = c.refs /\ d.lost = c.lost /\ d.full = c.full /\ Ok(d)
<1> DEFINE d == [c EXCEPT !.held = c.held \ {s}]
<1>1. FreeSpan(c, s) = d BY DEF FreeSpan
<1>2. /\ Whole(d) /\ d.held = c.held \ {s} /\ d.top = c.top /\ d.mem = c.mem
      /\ d.grads = c.grads /\ d.refs = c.refs /\ d.lost = c.lost
      /\ d.full = c.full /\ d.status = c.status
  BY SetHeld DEF Core
<1> HIDE DEF d
<1> QED BY <1>1, <1>2 DEF Core, Ok

\* A kernel's result lies in a span that was free, and nothing that was
\* allocated is written to; without room for it nothing is allocated.
LEMMA ProduceEffect ==
  ASSUME NEW c, NEW v, Core(c)
  PROVE  LET d == Produce(c, v) IN
         /\ Core(d) /\ d.grads = c.grads /\ d.refs = c.refs /\ d.lost = c.lost /\ d.full = c.full
         /\ \A s \in c.held \cup Params : d.mem[s] = c.mem[s]
         /\ Ok(d) => /\ Ok(c) /\ Fresh(c) \in Scratch /\ Fresh(c) \notin c.held
                     /\ d.held = c.held \cup {Fresh(c)} /\ d.mem[Fresh(c)] = v % Prime
         /\ ~ Ok(d) => d.held = c.held
<1> USE Sizes
<1>1. Fresh(c) \in 1 .. c.top + 1 /\ Fresh(c) \notin c.held BY FreshIsFree
<1>2. CASE ~ Ok(c) BY <1>2 DEF Produce
<1>3. CASE Ok(c) /\ Fresh(c) > Spans BY <1>3, FailEffect DEF Produce
<1>4. CASE Ok(c) /\ ~ (Fresh(c) > Spans)
  <2> DEFINE a == Allocate(c, Fresh(c))
             d == Write(a, Fresh(c), v)
  <2>1. Produce(c, v) = d BY <1>4 DEF Produce
  <2>2. c.top \in Nat /\ c.held \subseteq Scratch BY DEF Core, Scratch
  <2>3. Fresh(c) \in Scratch /\ Fresh(c) \notin Params /\ Fresh(c) <= c.top + 1
    BY <1>1, <1>4, <2>2 DEF Scratch, Params
  <2>4. /\ Core(a) /\ a.held = c.held \cup {Fresh(c)} /\ a.mem = c.mem /\ a.grads = c.grads
        /\ a.refs = c.refs /\ a.lost = c.lost /\ a.full = c.full /\ a.status = c.status
    BY <2>3, AllocateEffect
  <2> HIDE DEF a
  <2>5. /\ Core(d) /\ d.held = a.held /\ d.grads = a.grads /\ d.refs = a.refs
        /\ d.lost = a.lost /\ d.full = a.full /\ d.status = a.status /\ d.mem[Fresh(c)] = v % Prime
        /\ \A r \in (Scratch \cup Params) \ {Fresh(c)} : d.mem[r] = a.mem[r]
    BY <2>3, <2>4, WriteEffect
  <2> HIDE DEF d
  <2> QED BY <1>1, <1>4, <2>1, <2>2, <2>3, <2>4, <2>5 DEF Ok
<1> QED BY <1>2, <1>3, <1>4

----------------------------------------------------------------------------
(* Storage and slots.                                                      *)

\* Storage that is given out, and that no slot and no node has a claim on.
Spare(c, s) == s \in c.held /\ CanAdopt(c, s)

\* A kernel's result is storage nobody has a claim on yet.
LEMMA ProduceSound ==
  ASSUME NEW c, NEW v, Sound(c)
  PROVE  LET d == Produce(c, v) IN
         /\ Sound(d) /\ d.grads = c.grads /\ d.refs = c.refs /\ d.lost = c.lost /\ d.full = c.full
         /\ c.held \subseteq d.held
         /\ \A s \in c.held \cup Params : d.mem[s] = c.mem[s]
         /\ Ok(d) => Ok(c) /\ Spare(d, Fresh(c)) /\ Fresh(c) \notin c.held
         /\ Ok(d) => d.mem[Fresh(c)] = v % Prime
         /\ \A T : Accounted(c, T) => Accounted(d, T \cup {Fresh(c)})
<1> DEFINE d == Produce(c, v)
<1>1. /\ Core(d) /\ d.grads = c.grads /\ d.refs = c.refs /\ d.lost = c.lost /\ d.full = c.full
      /\ \A s \in c.held \cup Params : d.mem[s] = c.mem[s]
      /\ Ok(d) => /\ Ok(c) /\ Fresh(c) \in Scratch /\ Fresh(c) \notin c.held
                  /\ d.held = c.held \cup {Fresh(c)} /\ d.mem[Fresh(c)] = v % Prime
      /\ ~ Ok(d) => d.held = c.held
  BY ProduceEffect DEF Sound
<1> HIDE DEF d
<1>2. Slots(d) BY <1>1 DEF Sound, Slots
<1>3. Live(d) BY <1>1 DEF Sound, Live, LiveStorageActive
<1>4. Ok(d) => Spare(d, Fresh(c))
  BY <1>1 DEF Spare, CanAdopt, LiveStorageActive, GradStorageActive, Sound, Slots, Live
<1>5. ASSUME NEW T, Accounted(c, T) PROVE Accounted(d, T \cup {Fresh(c)})
  BY <1>1, <1>5 DEF Accounted, LiveStorageActive, GradStorageActive
<1> QED BY <1>1, <1>2, <1>3, <1>4, <1>5 DEF d, Sound

\* Accumulating into a slot's storage leaves what the tape refers to alone.
LEMMA WriteSound ==
  ASSUME NEW c, Sound(c), NEW t \in DOMAIN c.grads, NEW v
  PROVE  LET d == Write(c, c.grads[t], v) IN
         /\ Sound(d) /\ d.grads = c.grads /\ d.refs = c.refs /\ d.lost = c.lost /\ d.full = c.full
         /\ d.held = c.held /\ d.status = c.status
         /\ d.mem[c.grads[t]] = v % Prime
         /\ \A r \in (Scratch \cup Params) \ {c.grads[t]} : d.mem[r] = c.mem[r]
<1> DEFINE s == c.grads[t]
           d == Write(c, s, v)
<1>1. s \in Scratch /\ s \notin Params /\ ~ LiveStorageActive(c, s)
  BY Sizes DEF Sound, Core, Slots, Live, Scratch, Params
<1>2. /\ Core(d) /\ d.held = c.held /\ d.grads = c.grads /\ d.refs = c.refs
      /\ d.lost = c.lost /\ d.full = c.full /\ d.status = c.status /\ d.mem[s] = v % Prime
      /\ \A r \in (Scratch \cup Params) \ {s} : d.mem[r] = c.mem[r]
  BY <1>1, WriteEffect DEF Sound
<1> HIDE DEF d
<1>3. Slots(d) BY <1>2 DEF Sound, Slots
<1>4. Live(d)
  <2>1. ASSUME NEW u \in TensorId, Span(u) \in Params \/ LiveStorageActive(d, Span(u))
        PROVE  d.mem[Span(u)] = tensors[u].val
    <3>1. Span(u) \in Params \/ LiveStorageActive(c, Span(u)) BY <1>2, <2>1 DEF LiveStorageActive
    <3>2. Span(u) # s BY <1>1, <3>1
    <3>3. Span(u) \in Scratch \cup Params
      BY <3>1, Sizes DEF LiveStorageActive, Sound, Live, Core, Scratch
    <3> QED BY <1>2, <3>1, <3>2, <3>3 DEF Sound, Live
  <2> QED BY <1>2, <2>1 DEF Sound, Live, LiveStorageActive
<1> QED BY <1>2, <1>3, <1>4 DEF Sound, d

\* Storage that neither a slot nor the tape claims can be given back.
LEMMA FreeSound ==
  ASSUME NEW c, Sound(c), Ok(c), NEW s \in c.held,
         ~ GradStorageActive(c, s), ~ LiveStorageActive(c, s)
  PROVE  LET d == FreeSpan(c, s) IN
         /\ Sound(d) /\ d.grads = c.grads /\ d.refs = c.refs /\ d.lost = c.lost /\ d.full = c.full
         /\ d.held = c.held \ {s} /\ d.mem = c.mem /\ Ok(d)
         /\ \A T : Accounted(c, T \cup {s}) => Accounted(d, T)
<1> DEFINE d == FreeSpan(c, s)
<1>1. /\ Core(d) /\ d.held = c.held \ {s} /\ d.mem = c.mem
      /\ d.grads = c.grads /\ d.refs = c.refs /\ d.lost = c.lost /\ d.full = c.full /\ Ok(d)
  BY FreeEffect DEF Sound
<1> HIDE DEF d
<1>2. Slots(d) BY <1>1 DEF Sound, Slots, GradStorageActive
<1>3. Live(d) BY <1>1 DEF Sound, Live, LiveStorageActive
<1>4. ASSUME NEW T, Accounted(c, T \cup {s}) PROVE Accounted(d, T)
  BY <1>1, <1>4 DEF Accounted, LiveStorageActive, GradStorageActive
<1> QED BY <1>1, <1>2, <1>3, <1>4 DEF Sound, d

\* gd_release_temporary gives back what it is given, unless a slot or the
\* tape has a claim on it.
LEMMA ReleaseTemporarySound ==
  ASSUME NEW c, Sound(c), NEW s \in c.held \cup Params
  PROVE  LET d == ReleaseTemporary(c, s) IN
         /\ Sound(d) /\ d.grads = c.grads /\ d.refs = c.refs /\ d.lost = c.lost /\ d.full = c.full
         /\ d.status = c.status /\ d.mem = c.mem
         /\ d.held \subseteq c.held /\ c.held \ {s} \subseteq d.held
         /\ ~ CanAdopt(c, s) => d = c
         /\ \A T : Accounted(c, T \cup {s}) => Accounted(d, T)
<1> DEFINE d == ReleaseTemporary(c, s)
<1>1. CASE ~ CanAdopt(c, s)
  <2>1. d = c BY <1>1 DEF ReleaseTemporary
  <2>2. s \in c.held => GradStorageActive(c, s) \/ LiveStorageActive(c, s)
    BY <1>1, Sizes DEF CanAdopt, Sound, Core, Scratch
  <2>3. ASSUME NEW T, Accounted(c, T \cup {s}) PROVE Accounted(c, T)
    BY <2>2, <2>3 DEF Accounted
  <2> QED BY <1>1, <2>1, <2>3
<1>2. CASE CanAdopt(c, s) /\ ~ Ok(c)
  BY <1>2 DEF ReleaseTemporary, FreeSpan, Accounted
<1>3. CASE CanAdopt(c, s) /\ Ok(c)
  <2>1. s \in c.held BY <1>3, Sizes DEF CanAdopt, Params, Scratch
  <2>2. d = FreeSpan(c, s) BY <1>3 DEF ReleaseTemporary
  <2> QED BY <1>3, <2>1, <2>2, FreeSound DEF CanAdopt, Ok
<1> QED BY <1>1, <1>2, <1>3

\* A slot for a tensor without one takes storage nobody has a claim on.
LEMMA AddSlotSound ==
  ASSUME NEW c, Sound(c), NEW t, t \notin DOMAIN c.grads, NEW s, Ok(c) => Spare(c, s)
  PROVE  LET d == AddSlot(c, t, s) IN
         /\ Sound(d) /\ d.refs = c.refs /\ d.lost = c.lost /\ d.full = c.full
         /\ d.held = c.held /\ d.mem = c.mem
         /\ Ok(d) => Ok(c) /\ DOMAIN d.grads = DOMAIN c.grads \cup {t} /\ d.grads[t] = s
         /\ ~ Ok(d) => d.grads = c.grads
         /\ \A u \in DOMAIN c.grads : d.grads[u] = c.grads[u]
         /\ \A T : Accounted(c, T \cup {s}) => Accounted(d, T)
<1>1. CASE ~ Ok(c) BY <1>1 DEF AddSlot, Accounted
<1>2. CASE Ok(c) /\ Cardinality(DOMAIN c.grads) >= MaxGrads
  <2> DEFINE d == Fail(c, "OUT_OF_MEMORY")
  <2>1. AddSlot(c, t, s) = d BY <1>2 DEF AddSlot
  <2>2. /\ Core(d) /\ d.held = c.held /\ d.mem = c.mem /\ d.grads = c.grads
        /\ d.refs = c.refs /\ d.lost = c.lost /\ d.full = c.full /\ ~ Ok(d)
    BY FailEffect DEF Sound
  <2> HIDE DEF d
  <2>3. Slots(d) /\ Live(d) BY <2>2 DEF Sound, Slots, Live, LiveStorageActive
  <2> QED BY <2>1, <2>2, <2>3 DEF Sound, Accounted
<1>3. CASE Ok(c) /\ ~ (Cardinality(DOMAIN c.grads) >= MaxGrads)
  <2> DEFINE g == With(c.grads, t, s)
             d == [c EXCEPT !.grads = g]
  <2>1. AddSlot(c, t, s) = d BY <1>3 DEF AddSlot
  <2>2. /\ DOMAIN g = DOMAIN c.grads \cup {t} /\ g[t] = s
        /\ \A u \in DOMAIN c.grads : g[u] = c.grads[u]
    BY DEF With
  <2> HIDE DEF g
  <2>3. /\ Whole(d) /\ d.held = c.held /\ d.top = c.top /\ d.mem = c.mem /\ d.grads = g
        /\ d.refs = c.refs /\ d.lost = c.lost /\ d.full = c.full /\ d.status = c.status
    BY SetGrads DEF Core, Sound
  <2> HIDE DEF d
  <2>4. Core(d) BY <2>3 DEF Core, Sound
  <2>5. s \in c.held /\ ~ LiveStorageActive(c, s) /\ ~ GradStorageActive(c, s)
    BY <1>3 DEF Spare, CanAdopt
  <2>6. Slots(d) BY <2>2, <2>3, <2>5 DEF Slots, Sound, GradStorageActive
  <2>7. Live(d) BY <2>2, <2>3, <2>5 DEF Live, Sound, LiveStorageActive
  <2>8. ASSUME NEW T, Accounted(c, T \cup {s}) PROVE Accounted(d, T)
    BY <1>3, <2>2, <2>3, <2>8 DEF Accounted, LiveStorageActive, GradStorageActive, Ok
  <2> QED BY <1>3, <2>1, <2>2, <2>3, <2>4, <2>6, <2>7, <2>8 DEF Sound, Ok
<1> QED BY <1>1, <1>2, <1>3

\* A failure leaves slots and references as they are.
LEMMA FailSound ==
  ASSUME NEW c, Sound(c)
  PROVE  LET d == Fail(c, "OUT_OF_MEMORY") IN
         /\ Sound(d) /\ d.held = c.held /\ d.grads = c.grads
         /\ d.refs = c.refs /\ d.lost = c.lost /\ d.full = c.full /\ ~ Ok(d)
<1> DEFINE d == Fail(c, "OUT_OF_MEMORY")
<1>1. /\ Core(d) /\ d.held = c.held /\ d.mem = c.mem /\ d.grads = c.grads
      /\ d.refs = c.refs /\ d.lost = c.lost /\ d.full = c.full /\ ~ Ok(d)
  BY FailEffect DEF Sound
<1> HIDE DEF d
<1>2. Slots(d) /\ Live(d) BY <1>1 DEF Sound, Slots, Live, LiveStorageActive
<1> QED BY <1>1, <1>2 DEF Sound, d

\* gd_create_grad_slot_copy makes a slot with storage of its own.
LEMMA CopySlotSound ==
  ASSUME NEW c, Sound(c), NEW t, t \notin DOMAIN c.grads, NEW s
  PROVE  LET d == CopySlot(c, t, s) IN
         /\ Sound(d) /\ d.refs = c.refs /\ d.lost = c.lost /\ d.full = c.full
         /\ c.held \subseteq d.held
         /\ Ok(d) => /\ Ok(c) /\ DOMAIN d.grads = DOMAIN c.grads \cup {t}
                     /\ d.grads[t] \notin c.held /\ d.mem[d.grads[t]] = c.mem[s] % Prime
                     /\ \A r \in c.held \cup Params : d.mem[r] = c.mem[r]
         /\ ~ Ok(d) => d.grads = c.grads
         /\ \A u \in DOMAIN c.grads : d.grads[u] = c.grads[u]
         /\ \A T : Accounted(c, T) => Accounted(d, T)
<1>1. CASE Ok(c) /\ Cardinality(DOMAIN c.grads) >= MaxGrads
  BY <1>1, FailSound DEF CopySlot, Accounted
<1>2. CASE ~ (Ok(c) /\ Cardinality(DOMAIN c.grads) >= MaxGrads)
  <2> DEFINE p == Produce(c, c.mem[s])
             d == AddSlot(p, t, Fresh(c))
  <2>1. CopySlot(c, t, s) = d BY <1>2 DEF CopySlot
  <2>2. /\ Sound(p) /\ p.grads = c.grads /\ p.refs = c.refs /\ p.lost = c.lost /\ p.full = c.full
        /\ c.held \subseteq p.held
        /\ \A r \in c.held \cup Params : p.mem[r] = c.mem[r]
        /\ Ok(p) => Ok(c) /\ Spare(p, Fresh(c)) /\ Fresh(c) \notin c.held
        /\ Ok(p) => p.mem[Fresh(c)] = c.mem[s] % Prime
        /\ \A T : Accounted(c, T) => Accounted(p, T \cup {Fresh(c)})
    BY ProduceSound
  <2> HIDE DEF p
  <2>3. /\ Sound(d) /\ d.refs = p.refs /\ d.lost = p.lost /\ d.full = p.full
        /\ d.held = p.held /\ d.mem = p.mem
        /\ Ok(d) => Ok(p) /\ DOMAIN d.grads = DOMAIN p.grads \cup {t} /\ d.grads[t] = Fresh(c)
        /\ ~ Ok(d) => d.grads = p.grads
        /\ \A u \in DOMAIN p.grads : d.grads[u] = p.grads[u]
        /\ \A T : Accounted(p, T \cup {Fresh(c)}) => Accounted(d, T)
    BY <2>2, AddSlotSound
  <2> HIDE DEF d
  <2> QED BY <2>1, <2>2, <2>3
<1> QED BY <1>1, <1>2

\* An accumulation leaves one slot more at most, and its storage s is a
\* slot's or given back, unless somebody else has it.
LEMMA AccumulateSound ==
  ASSUME NEW c, Sound(c), NEW t, NEW s, Ok(c) => s \in c.held \cup Params
  PROVE  LET d == Accumulate(c, t, s) IN
         /\ Sound(d) /\ d.refs = c.refs /\ d.lost = c.lost /\ d.full = c.full /\ (Ok(d) => Ok(c))
         /\ DOMAIN c.grads \subseteq DOMAIN d.grads
         /\ DOMAIN d.grads \subseteq DOMAIN c.grads \cup {t}
         /\ \A u \in DOMAIN c.grads : d.grads[u] = c.grads[u]
         /\ Ok(d) => \A r \in c.held : r # s \/ ~ CanAdopt(c, s) => r \in d.held
         /\ Ok(d) => \A r : Spare(c, r) /\ r # s => Spare(d, r)
         /\ \A T : Accounted(c, T \cup {s}) => Accounted(d, T)
<1> DEFINE d == Accumulate(c, t, s)
<1>1. CASE ~ Ok(c) BY <1>1 DEF Accumulate, Accounted
<1>2. CASE Ok(c) /\ HasGrad(c, t)
  <2> DEFINE w == Write(c, c.grads[t], c.mem[c.grads[t]] + c.mem[s])
             e == ReleaseTemporary(w, s)
  <2>1. d = e BY <1>2 DEF Accumulate
  <2>2. /\ Sound(w) /\ w.grads = c.grads /\ w.refs = c.refs /\ w.lost = c.lost /\ w.full = c.full
        /\ w.held = c.held /\ w.status = c.status
    BY <1>2, WriteSound DEF HasGrad
  <2> HIDE DEF w
  <2>3. /\ Sound(e) /\ e.grads = w.grads /\ e.refs = w.refs /\ e.lost = w.lost /\ e.full = w.full
        /\ e.status = w.status
        /\ e.held \subseteq w.held /\ w.held \ {s} \subseteq e.held
        /\ ~ CanAdopt(w, s) => e = w
        /\ \A T : Accounted(w, T \cup {s}) => Accounted(e, T)
    BY <1>2, <2>2, ReleaseTemporarySound
  <2> HIDE DEF e, d
  <2>4. /\ \A r : CanAdopt(w, r) <=> CanAdopt(c, r)
        /\ \A r : CanAdopt(e, r) <=> CanAdopt(c, r)
    BY <2>2, <2>3 DEF CanAdopt, LiveStorageActive, GradStorageActive
  <2>5. \A T : Accounted(c, T) => Accounted(w, T)
    BY <2>2 DEF Accounted, LiveStorageActive, GradStorageActive, Ok
  <2>6. \A r \in c.held : r # s \/ ~ CanAdopt(c, s) => r \in e.held BY <2>2, <2>3, <2>4
  <2>7. \A r : Spare(c, r) /\ r # s => Spare(e, r) BY <2>2, <2>3, <2>4 DEF Spare
  <2> QED BY <1>2, <2>1, <2>2, <2>3, <2>5, <2>6, <2>7 DEF d
<1>3. CASE Ok(c) /\ ~ HasGrad(c, t) /\ CanAdopt(c, s)
  <2> DEFINE e == AddSlot(c, t, s)
  <2>1. d = e BY <1>3 DEF Accumulate
  <2>2. Spare(c, s) /\ t \notin DOMAIN c.grads
    BY <1>3, Sizes DEF Spare, CanAdopt, HasGrad, Scratch, Params
  <2>3. /\ Sound(e) /\ e.refs = c.refs /\ e.lost = c.lost /\ e.full = c.full /\ e.held = c.held
        /\ Ok(e) => Ok(c) /\ DOMAIN e.grads = DOMAIN c.grads \cup {t} /\ e.grads[t] = s
        /\ ~ Ok(e) => e.grads = c.grads
        /\ \A u \in DOMAIN c.grads : e.grads[u] = c.grads[u]
        /\ \A T : Accounted(c, T \cup {s}) => Accounted(e, T)
    BY <2>2, AddSlotSound
  <2> HIDE DEF e, d
  <2>4. Ok(e) => \A r : Spare(c, r) /\ r # s => Spare(e, r)
    BY <2>3 DEF Spare, CanAdopt, LiveStorageActive, GradStorageActive
  <2> QED BY <2>1, <2>3, <2>4 DEF d
<1>4. CASE Ok(c) /\ ~ HasGrad(c, t) /\ ~ CanAdopt(c, s)
  <2> DEFINE e == CopySlot(c, t, s)
  <2>1. d = ReleaseTemporary(e, s) BY <1>4 DEF Accumulate
  <2>2. t \notin DOMAIN c.grads BY <1>4 DEF HasGrad
  <2>3. /\ Sound(e) /\ e.refs = c.refs /\ e.lost = c.lost /\ e.full = c.full
        /\ c.held \subseteq e.held
        /\ Ok(e) => /\ Ok(c) /\ DOMAIN e.grads = DOMAIN c.grads \cup {t}
                    /\ e.grads[t] \notin c.held
        /\ ~ Ok(e) => e.grads = c.grads
        /\ \A u \in DOMAIN c.grads : e.grads[u] = c.grads[u]
        /\ \A T : Accounted(c, T) => Accounted(e, T)
    BY <2>2, CopySlotSound
  <2> HIDE DEF e
  <2>4. ~ CanAdopt(e, s)
    BY <1>4, <2>3 DEF CanAdopt, LiveStorageActive, GradStorageActive
  <2>5. d = e BY <2>1, <2>4 DEF ReleaseTemporary
  <2> HIDE DEF d
  <2>6. Ok(e) => \A r : Spare(c, r) /\ r # s => Spare(e, r)
    BY <2>3 DEF Spare, CanAdopt, LiveStorageActive, GradStorageActive
  <2>7. s \in c.held => GradStorageActive(c, s) \/ LiveStorageActive(c, s)
    BY <1>4, Sizes DEF CanAdopt, Sound, Core, Scratch
  <2>8. ASSUME NEW T, Accounted(c, T \cup {s}) PROVE Accounted(c, T)
    BY <2>7, <2>8 DEF Accounted
  <2> QED BY <1>4, <2>3, <2>5, <2>6, <2>8 DEF d
<1> QED BY <1>1, <1>2, <1>3, <1>4

----------------------------------------------------------------------------
(* Rules.                                                                  *)

\* What a rule may do from c to d: it gives the tensors of into gradients,
\* takes references from nobody, keeps products for the operands in keys only
\* and leaves nothing else lying about.
Advances(c, d, into, keys) ==
  /\ Sound(d) /\ d.refs = c.refs /\ d.lost = c.lost /\ (Ok(d) => Ok(c))
  /\ DOMAIN d.grads \subseteq DOMAIN c.grads \cup into
  /\ DOMAIN d.full \subseteq DOMAIN c.full \cup keys
  /\ \A T : Accounted(c, T) => Accounted(d, T)

\* What gd_mul_backward keeps of operand p.
Keys(n, p) == Unreduced(n) \cap {<<n.out[1], p>>}

\* What a rule does before it hands anything on: it computes into new storage,
\* those of A for it to hand on and those of keys to stay.
Makes(c, d, A, keys) ==
  /\ Sound(d) /\ d.grads = c.grads /\ d.refs = c.refs /\ d.lost = c.lost /\ (Ok(d) => Ok(c))
  /\ c.held \subseteq d.held /\ \A s \in c.held \cup Params : d.mem[s] = c.mem[s]
  /\ DOMAIN d.full \subseteq DOMAIN c.full \cup keys
  /\ Ok(d) => \A s \in A : Spare(d, s) /\ s \notin c.held
  /\ \A T : Accounted(c, T) => Accounted(d, T \cup A)

\* What it does then: it gives the tensors of into gradients, from the storage
\* in A or from a slot, and leaves what else it has in hand.
Takes(c, d, into, A) ==
  /\ Sound(d) /\ d.refs = c.refs /\ d.lost = c.lost /\ d.full = c.full /\ (Ok(d) => Ok(c))
  /\ DOMAIN d.grads \subseteq DOMAIN c.grads \cup into
  /\ Ok(d) => \A s \in c.held : s \notin A => s \in d.held
  /\ Ok(d) => \A s : Spare(c, s) /\ s \notin A => Spare(d, s)
  /\ \A s : GradStorageActive(c, s) => GradStorageActive(d, s)
  /\ \A T : Accounted(c, T \cup A) => Accounted(d, T)

\* A rule may compute nothing.
LEMMA MakesNothing == ASSUME NEW c, Sound(c), NEW K PROVE Makes(c, c, {}, K)
BY DEF Makes

\* And it may hand on nothing.
LEMMA TakesNothing == ASSUME NEW c, Sound(c), NEW S PROVE Takes(c, c, S, {})
BY DEF Takes

\* A kernel's result is in hand.
LEMMA ProduceMakes ==
  ASSUME NEW c, NEW v, Sound(c)
  PROVE  LET d == Produce(c, v) IN
         Makes(c, d, {Fresh(c)}, {}) /\ (Ok(d) => d.mem[Fresh(c)] = v % Prime)
BY ProduceSound DEF Makes

\* What was in hand first is still there, and not what came second.
LEMMA InHand ==
  ASSUME NEW c, NEW d, NEW e, NEW A, NEW B, NEW K, NEW L, Makes(c, d, A, K), Makes(d, e, B, L)
  PROVE  Ok(e) => /\ \A s \in A : Spare(e, s) /\ s \notin B
                  /\ \A s \in B : Spare(e, s) /\ s \notin A
<1>1. ASSUME Ok(e), NEW s \in A PROVE Spare(e, s) /\ s \notin B
  BY <1>1 DEF Makes, Spare, CanAdopt, LiveStorageActive, GradStorageActive
<1> QED BY <1>1 DEF Makes

\* Both results of a rule with two operands are handed on.
LEMMA BothHandedOn ==
  ASSUME NEW c, NEW d, NEW e, NEW x, NEW y, NEW A, NEW B, NEW K, NEW L, NEW t, NEW u,
         Makes(c, d, A, K), Makes(d, e, B, L), Takes(e, x, {t}, A), Takes(x, y, {u}, B)
  PROVE  Advances(c, y, {t, u}, K \cup L)
<1>1. ASSUME NEW T, Accounted(c, T) PROVE Accounted(y, T)
  <2>1. Accounted(e, (T \cup A) \cup B) BY <1>1 DEF Makes
  <2>2. (T \cup A) \cup B = (T \cup B) \cup A OBVIOUS
  <2>3. Accounted(x, T \cup B) BY <2>1, <2>2 DEF Takes
  <2> QED BY <2>3 DEF Takes
<1> QED BY <1>1 DEF Advances, Makes, Takes

\* An accumulation of a result in hand.
LEMMA AccumulateTakes ==
  ASSUME NEW c, Sound(c), NEW t, NEW s, Ok(c) => s \in c.held
  PROVE  Takes(c, Accumulate(c, t, s), {t}, {s})
<1> DEFINE d == Accumulate(c, t, s)
<1>1. /\ Sound(d) /\ d.refs = c.refs /\ d.lost = c.lost /\ d.full = c.full /\ (Ok(d) => Ok(c))
      /\ DOMAIN c.grads \subseteq DOMAIN d.grads
      /\ DOMAIN d.grads \subseteq DOMAIN c.grads \cup {t}
      /\ \A u \in DOMAIN c.grads : d.grads[u] = c.grads[u]
      /\ Ok(d) => \A r \in c.held : r # s \/ ~ CanAdopt(c, s) => r \in d.held
      /\ Ok(d) => \A r : Spare(c, r) /\ r # s => Spare(d, r)
      /\ \A T : Accounted(c, T \cup {s}) => Accounted(d, T)
  BY AccumulateSound
<1> HIDE DEF d
<1>2. \A r : GradStorageActive(c, r) => GradStorageActive(d, r) BY <1>1 DEF GradStorageActive
<1> QED BY <1>1, <1>2 DEF Takes, d

\* An accumulation of a gradient some slot has: a copy is made of it.
LEMMA SharedTakes ==
  ASSUME NEW c, Sound(c), NEW t, NEW s \in c.held, GradStorageActive(c, s)
  PROVE  Takes(c, Accumulate(c, t, s), {t}, {})
<1> DEFINE d == Accumulate(c, t, s)
<1>1. /\ Sound(d) /\ d.refs = c.refs /\ d.lost = c.lost /\ d.full = c.full /\ (Ok(d) => Ok(c))
      /\ DOMAIN c.grads \subseteq DOMAIN d.grads
      /\ DOMAIN d.grads \subseteq DOMAIN c.grads \cup {t}
      /\ \A u \in DOMAIN c.grads : d.grads[u] = c.grads[u]
      /\ Ok(d) => \A r \in c.held : r # s \/ ~ CanAdopt(c, s) => r \in d.held
      /\ Ok(d) => \A r : Spare(c, r) /\ r # s => Spare(d, r)
      /\ \A T : Accounted(c, T \cup {s}) => Accounted(d, T)
  BY AccumulateSound
<1> HIDE DEF d
<1>2. \A r : GradStorageActive(c, r) => GradStorageActive(d, r) BY <1>1 DEF GradStorageActive
<1>3. ~ CanAdopt(c, s) /\ \A r : Spare(c, r) => r # s BY DEF CanAdopt, Spare
<1>4. ASSUME NEW T, Accounted(c, T \cup {}) PROVE Accounted(d, T)
  <2>1. Accounted(c, T \cup {s}) BY <1>4 DEF Accounted
  <2> QED BY <1>1, <2>1
<1> QED BY <1>1, <1>2, <1>3, <1>4 DEF Takes, d

\* A gradient passed on is stolen or accumulated, and gives a slot to the
\* input at most.
LEMMA PassTakes ==
  ASSUME NEW c, Sound(c), NEW from, from \in DOMAIN c.grads, NEW to
  PROVE  Takes(c, Pass(c, from, to), {to}, {})
<1> DEFINE s == c.grads[from]
           d == Pass(c, from, to)
<1>1. CASE ~ Ok(c) BY <1>1, TakesNothing DEF Pass
<1>2. CASE Ok(c) /\ CanSteal(c, from, to)
  <2> DEFINE g == Without(With(c.grads, to, s), from)
             e == [c EXCEPT !.grads = g]
  <2>1. d = e BY <1>2 DEF Pass
  <2>2. from # to /\ to \notin DOMAIN c.grads BY <1>2 DEF CanSteal, HasGrad
  <2>3. /\ DOMAIN g = (DOMAIN c.grads \cup {to}) \ {from} /\ g[to] = s
        /\ \A u \in DOMAIN c.grads \ {from} : g[u] = c.grads[u]
    BY <2>2 DEF With, Without
  <2> HIDE DEF g
  <2>4. /\ Whole(e) /\ e.held = c.held /\ e.top = c.top /\ e.mem = c.mem /\ e.grads = g
        /\ e.refs = c.refs /\ e.lost = c.lost /\ e.full = c.full /\ e.status = c.status
    BY SetGrads DEF Core, Sound
  <2> HIDE DEF e, d
  <2>5. Core(e) BY <2>4 DEF Core, Sound
  <2>6. \A r : GradStorageActive(e, r) <=> GradStorageActive(c, r)
    BY <2>2, <2>3, <2>4 DEF GradStorageActive
  <2>7. Slots(e) BY <2>2, <2>3, <2>4 DEF Slots, Sound
  <2>8. Live(e) BY <2>2, <2>3, <2>4 DEF Live, Sound, LiveStorageActive
  <2>9. ASSUME NEW T, Accounted(c, T \cup {}) PROVE Accounted(e, T)
    BY <2>4, <2>6, <2>9 DEF Accounted, LiveStorageActive, Ok
  <2>10. DOMAIN e.grads \subseteq DOMAIN c.grads \cup {to} BY <2>3, <2>4
  <2>11. \A r : Spare(c, r) => Spare(e, r) BY <2>4, <2>6 DEF Spare, CanAdopt, LiveStorageActive
  <2> QED BY <2>1, <2>4, <2>5, <2>6, <2>7, <2>8, <2>9, <2>10, <2>11 DEF Sound, Takes, Ok, d
<1>3. CASE Ok(c) /\ ~ CanSteal(c, from, to)
  <2>1. d = Accumulate(c, to, s) BY <1>3 DEF Pass
  <2>2. s \in c.held /\ GradStorageActive(c, s) BY DEF Sound, Slots, GradStorageActive
  <2> QED BY <2>1, <2>2, SharedTakes
<1> QED BY <1>1, <1>2, <1>3

\* Handing on what a slot has advances.
LEMMA TakesAdvances ==
  ASSUME NEW c, NEW d, NEW S, Takes(c, d, S, {}) PROVE Advances(c, d, S, {})
<1>1. ASSUME NEW T, Accounted(c, T) PROVE Accounted(d, T)
  <2>1. T \cup {} = T OBVIOUS
  <2> QED BY <1>1, <2>1 DEF Takes
<1> QED BY <1>1 DEF Takes, Advances

\* A rule's contribution to one input gives that input a slot at most.
LEMMA ContributeSound ==
  ASSUME NEW c, Sound(c), NEW t, NEW v PROVE Advances(c, Contribute(c, t, v), {t}, {})
<1>1. CASE ~ NeedsGrad(t) BY <1>1 DEF Contribute, Advances
<1>2. CASE NeedsGrad(t)
  <2> DEFINE p == Produce(c, v)
             d == Accumulate(p, t, Fresh(c))
  <2>1. Contribute(c, t, v) = d BY <1>2 DEF Contribute
  <2>2. /\ Sound(p) /\ p.grads = c.grads /\ p.refs = c.refs /\ p.lost = c.lost /\ p.full = c.full
        /\ Ok(p) => Ok(c) /\ Spare(p, Fresh(c))
        /\ \A T : Accounted(c, T) => Accounted(p, T \cup {Fresh(c)})
    BY ProduceSound
  <2> HIDE DEF p
  <2>3. Ok(p) => Fresh(c) \in p.held \cup Params BY <2>2 DEF Spare
  <2>4. /\ Sound(d) /\ d.refs = p.refs /\ d.lost = p.lost /\ d.full = p.full /\ (Ok(d) => Ok(p))
        /\ DOMAIN d.grads \subseteq DOMAIN p.grads \cup {t}
        /\ \A T : Accounted(p, T \cup {Fresh(c)}) => Accounted(d, T)
    BY <2>2, <2>3, AccumulateSound
  <2> HIDE DEF d
  <2> QED BY <2>1, <2>2, <2>4 DEF Advances
<1> QED BY <1>1, <1>2

\* A contribution that is storage of a slot: a copy is made of it.
LEMMA SharedSound ==
  ASSUME NEW c, Sound(c), NEW t, NEW s, Ok(c) => s \in c.held
  PROVE  Advances(c, Accumulate(c, t, s), {t}, {})
<1> DEFINE d == Accumulate(c, t, s)
<1>1. /\ Sound(d) /\ d.refs = c.refs /\ d.lost = c.lost /\ d.full = c.full /\ (Ok(d) => Ok(c))
      /\ DOMAIN d.grads \subseteq DOMAIN c.grads \cup {t}
      /\ \A T : Accounted(c, T \cup {s}) => Accounted(d, T)
  BY AccumulateSound
<1> HIDE DEF d
<1>2. ASSUME NEW T, Accounted(c, T) PROVE Accounted(c, T \cup {s}) BY <1>2 DEF Accounted
<1> QED BY <1>1, <1>2 DEF Advances, d

\* What Advances leaves is where the next call starts.
LEMMA Onward ==
  ASSUME NEW c, NEW d, NEW e, NEW S, NEW T, NEW K,
         Advances(c, d, S, K), Advances(d, e, T, {})
  PROVE  Advances(c, e, S \cup T, K)
BY DEF Advances

\* Doing nothing advances.
LEMMA Staying == ASSUME NEW c, Sound(c), NEW S PROVE Advances(c, c, S, {})
BY DEF Advances

\* What gives gradients to few tensors gives them to no more than many.
LEMMA Wider ==
  ASSUME NEW c, NEW d, NEW S, NEW T, NEW K, NEW L,
         Advances(c, d, S, K), S \subseteq T, K \subseteq L
  PROVE  Advances(c, d, T, L)
BY DEF Advances

\* The product that is summed afterwards stays.
LEMMA FullProductMakes ==
  ASSUME NEW c, Sound(c), NEW n, NEW p \in DOMAIN n.in, n.op = "mul", NeedsGrad(n.in[p]),
         <<n.out[1], p>> \notin DOMAIN c.full
  PROVE  Makes(c, FullProduct(c, n, p), {}, Keys(n, p))
<1> DEFINE v == c.mem[c.grads[n.out[1]]] * c.mem[Span(n.in[3 - p])]
           s == Fresh(c)
           k == <<n.out[1], p>>
           q == Produce(c, v)
           f == With(q.full, k, s)
           d == [q EXCEPT !.full = f]
<1>1. CASE ~ Unfused(n, p)
  <2>1. FullProduct(c, n, p) = c BY <1>1 DEF FullProduct
  <2> QED BY <2>1, MakesNothing
<1>2. Makes(c, q, {s}, {}) BY ProduceMakes
<1>3. q.full = c.full BY ProduceSound
<1> HIDE DEF q
<1>4. CASE Unfused(n, p) /\ ~ Ok(q)
  <2>1. FullProduct(c, n, p) = q BY <1>4 DEF FullProduct, q
  <2> QED BY <1>2, <1>4, <2>1 DEF Makes, Accounted
<1>5. CASE Unfused(n, p) /\ Ok(q)
  <2>1. FullProduct(c, n, p) = d BY <1>5 DEF FullProduct, q
  <2>2. DOMAIN f = DOMAIN q.full \cup {k} /\ f[k] = s /\ \A x \in DOMAIN q.full : f[x] = q.full[x]
    BY <1>3 DEF With
  <2> HIDE DEF f
  <2>3. Range(f) = Range(q.full) \cup {s} BY <1>3, <2>2 DEF Range
  <2>4. /\ Whole(d) /\ d.held = q.held /\ d.top = q.top /\ d.mem = q.mem /\ d.grads = q.grads
        /\ d.refs = q.refs /\ d.lost = q.lost /\ d.full = f /\ d.status = q.status
    BY <1>2, SetFull DEF Makes, Sound, Core
  <2> HIDE DEF d
  <2>5. Core(d) /\ Slots(d) /\ Live(d)
    BY <1>2, <2>4 DEF Makes, Sound, Core, Slots, Live, LiveStorageActive
  <2>6. ASSUME NEW T, Accounted(c, T) PROVE Accounted(d, T \cup {})
    <3>1. Accounted(q, T \cup {s}) BY <1>2, <2>6 DEF Makes
    <3> HIDE DEF s
    <3> QED BY <1>5, <2>3, <2>4, <3>1 DEF Accounted, GradStorageActive, LiveStorageActive
  <2>7. k \in Keys(n, p) BY <1>5 DEF Keys, Unreduced
  <2> QED BY <1>2, <1>5, <2>1, <2>2, <2>4, <2>5, <2>6, <2>7 DEF Makes, Sound, Ok
<1> QED BY <1>1, <1>4, <1>5

\* One gradient of a product is in hand, and the product it is summed from stays.
LEMMA MulGradMakes ==
  ASSUME NEW c, Sound(c), NEW n, NEW p \in DOMAIN n.in, n.op = "mul",
         <<n.out[1], p>> \notin DOMAIN c.full
  PROVE  /\ Makes(c, MulGrad(c, n, p), IF NeedsGrad(n.in[p]) THEN {MulSpan(c, n, p)} ELSE {},
                  Keys(n, p))
         /\ Ok(MulGrad(c, n, p)) /\ NeedsGrad(n.in[p]) =>
              MulGrad(c, n, p).mem[MulSpan(c, n, p)]
                = (c.mem[c.grads[n.out[1]]] * c.mem[Span(n.in[3 - p])]
                   * Times(tensors, n, p)) % Prime
<1> DEFINE v == c.mem[c.grads[n.out[1]]] * c.mem[Span(n.in[3 - p])] * Times(tensors, n, p)
           e == FullProduct(c, n, p)
           s == Fresh(e)
           d == Produce(e, v)
<1>1. CASE ~ NeedsGrad(n.in[p])
  <2>1. MulGrad(c, n, p) = c BY <1>1 DEF MulGrad
  <2> QED BY <1>1, <2>1, MakesNothing
<1>2. CASE NeedsGrad(n.in[p])
  <2>1. MulGrad(c, n, p) = d /\ MulSpan(c, n, p) = s BY <1>2 DEF MulGrad, MulSpan
  <2>a. Sound(c) /\ n.op = "mul" /\ <<n.out[1], p>> \notin DOMAIN c.full OBVIOUS
  <2>2. Makes(c, e, {}, Keys(n, p))
    <3> HIDE DEF v, s, d
    <3> QED BY ONLY <1>2, <2>a, FullProductMakes
  <2> HIDE DEF e
  <2>b. Sound(e) BY ONLY <2>2 DEF Makes
  <2>3. Makes(e, d, {s}, {}) /\ (Ok(d) => d.mem[s] = v % Prime)
    <3> HIDE DEF v
    <3> QED BY ONLY <2>b, ProduceMakes
  <2> HIDE DEF d, s
  <2>4. ASSUME NEW T, Accounted(c, T) PROVE Accounted(d, T \cup {s})
    <3>1. Accounted(e, T \cup {}) BY <2>2, <2>4 DEF Makes
    <3>2. T \cup {} = T OBVIOUS
    <3> QED BY <2>3, <3>1, <3>2 DEF Makes
  <2>5. Makes(c, d, {s}, Keys(n, p)) BY <2>2, <2>3, <2>4 DEF Makes
  <2> HIDE DEF v
  <2> QED BY <1>2, <2>1, <2>3, <2>5 DEF v
<1> QED BY <1>1, <1>2

\* gd_mul_backward has two results in hand before it accumulates either.
LEMMA RuleMulSound ==
  ASSUME NEW c, Sound(c), NEW n, n.op = "mul", {1, 2} \subseteq DOMAIN n.in,
         \A p \in {1, 2} : <<n.out[1], p>> \notin DOMAIN c.full
  PROVE  Advances(c, RuleMul(c, n), {n.in[1], n.in[2]}, Unreduced(n))
<1> DEFINE d == MulGrad(c, n, 1)
           e == MulGrad(d, n, 2)
           a == MulSpan(c, n, 1)
           b == MulSpan(d, n, 2)
           A == IF NeedsGrad(n.in[1]) THEN {a} ELSE {}
           B == IF NeedsGrad(n.in[2]) THEN {b} ELSE {}
           x == IF NeedsGrad(n.in[1]) THEN Accumulate(e, n.in[1], a) ELSE e
           y == IF NeedsGrad(n.in[2]) THEN Accumulate(x, n.in[2], b) ELSE x
<1>1. RuleMul(c, n) = y BY DEF RuleMul
<1>2. Makes(c, d, A, Keys(n, 1)) BY MulGradMakes
<1> HIDE DEF d, a
<1>3. Sound(d) /\ <<n.out[1], 2>> \notin DOMAIN d.full BY <1>2 DEF Makes, Keys
<1>4. Makes(d, e, B, Keys(n, 2)) BY <1>3, MulGradMakes
<1> HIDE DEF e, b, A, B
<1>5. /\ Sound(e) /\ (Ok(e) => \A s \in A \cup B : Spare(e, s))
      /\ (Ok(e) => \A s \in B : s \notin A)
  <2>1. Ok(e) => /\ \A s \in A : Spare(e, s) /\ s \notin B
                 /\ \A s \in B : Spare(e, s) /\ s \notin A
    BY <1>2, <1>4, InHand
  <2> QED BY <1>4, <2>1 DEF Makes
<1>6. Takes(e, x, {n.in[1]}, A)
  <2>1. CASE NeedsGrad(n.in[1])
    <3>1. A = {a} BY <2>1 DEF A
    <3> QED BY <1>5, <2>1, <3>1, AccumulateTakes DEF Spare
  <2>2. CASE ~ NeedsGrad(n.in[1])
    <3>1. A = {} BY <2>2 DEF A
    <3> QED BY <1>5, <2>2, <3>1, TakesNothing
  <2> QED BY <2>1, <2>2
<1> HIDE DEF x
<1>7. Takes(x, y, {n.in[2]}, B)
  <2>1. Sound(x) BY <1>6 DEF Takes
  <2>2. CASE NeedsGrad(n.in[2])
    <3>1. B = {b} BY <2>2 DEF B
    <3>2. Ok(x) => b \in x.held BY <1>5, <1>6, <3>1 DEF Takes, Spare
    <3> QED BY <2>1, <2>2, <3>1, <3>2, AccumulateTakes
  <2>3. CASE ~ NeedsGrad(n.in[2])
    <3>1. B = {} BY <2>3 DEF B
    <3> QED BY <2>1, <2>3, <3>1, TakesNothing
  <2> QED BY <2>2, <2>3
<1> HIDE DEF y
<1>8. Advances(c, y, {n.in[1], n.in[2]}, Keys(n, 1) \cup Keys(n, 2))
  BY <1>2, <1>4, <1>6, <1>7, BothHandedOn
<1>9. Keys(n, 1) \cup Keys(n, 2) \subseteq Unreduced(n) BY DEF Keys
<1> QED BY <1>1, <1>8, <1>9, Wider

\* The sum over what was repeated is in hand, and leaves the output's gradient.
LEMMA AddReducedMakes ==
  ASSUME NEW c, Sound(c), NEW n, NEW p
  PROVE  LET d == AddReduced(c, n, p) IN
         /\ Makes(c, d, IF NeedsGrad(n.in[p]) /\ Reduces(n, p) THEN {Fresh(c)} ELSE {}, {})
         /\ Ok(d) /\ NeedsGrad(n.in[p]) /\ Reduces(n, p) =>
              d.mem[Fresh(c)] = (c.mem[c.grads[n.out[1]]] * Times(tensors, n, p)) % Prime
<1>1. CASE NeedsGrad(n.in[p]) /\ Reduces(n, p) BY <1>1, ProduceMakes DEF AddReduced
<1>2. CASE ~ (NeedsGrad(n.in[p]) /\ Reduces(n, p))
  <2>1. AddReduced(c, n, p) = c BY <1>2 DEF AddReduced
  <2> QED BY <1>2, <2>1, MakesNothing
<1> QED BY <1>1, <1>2

\* gd_add_autograd_backward has its sums in hand before it passes the output's
\* gradient on.
LEMMA RuleAddSound ==
  ASSUME NEW c, Sound(c), NEW n, n.out[1] \in DOMAIN c.grads
  PROVE  Advances(c, RuleAdd(c, n), {n.in[1], n.in[2]}, {})
<1> DEFINE g == c.grads[n.out[1]]
           d == AddReduced(c, n, 1)
           e == AddReduced(d, n, 2)
           a == Fresh(c)
           b == Fresh(d)
           A == IF NeedsGrad(n.in[1]) /\ Reduces(n, 1) THEN {a} ELSE {}
           B == IF NeedsGrad(n.in[2]) /\ Reduces(n, 2) THEN {b} ELSE {}
           x == IF ~NeedsGrad(n.in[1]) THEN e
                ELSE IF Reduces(n, 1) THEN Accumulate(e, n.in[1], a)
                ELSE Pass(e, n.out[1], n.in[1])
           y == IF ~NeedsGrad(n.in[2]) THEN x
                ELSE Accumulate(x, n.in[2], IF Reduces(n, 2) THEN b ELSE g)
<1>1. RuleAdd(c, n) = y BY DEF RuleAdd
<1>2. Makes(c, d, A, {}) BY AddReducedMakes
<1> HIDE DEF d, a
<1>3. Makes(d, e, B, {}) BY <1>2, AddReducedMakes DEF Makes
<1> HIDE DEF e, b, A, B
<1>4. /\ Sound(e) /\ (Ok(e) => \A s \in A \cup B : Spare(e, s))
      /\ (Ok(e) => \A s \in B : s \notin A)
  <2>1. Ok(e) => /\ \A s \in A : Spare(e, s) /\ s \notin B
                 /\ \A s \in B : Spare(e, s) /\ s \notin A
    BY <1>2, <1>3, InHand
  <2> QED BY <1>3, <2>1 DEF Makes
<1>5. g \in c.held /\ c.held \subseteq e.held /\ e.grads = c.grads
  BY <1>2, <1>3 DEF Makes, Sound, Slots
<1>6. GradStorageActive(e, g) /\ (Ok(e) => g \notin A)
  BY <1>4, <1>5 DEF GradStorageActive, Spare, CanAdopt
<1>7. Takes(e, x, {n.in[1]}, A)
  <2>1. CASE ~NeedsGrad(n.in[1])
    <3>1. A = {} BY <2>1 DEF A
    <3> QED BY <1>4, <2>1, <3>1, TakesNothing
  <2>2. CASE NeedsGrad(n.in[1]) /\ Reduces(n, 1)
    <3>1. A = {a} BY <2>2 DEF A
    <3> QED BY <1>4, <2>2, <3>1, AccumulateTakes DEF Spare
  <2>3. CASE NeedsGrad(n.in[1]) /\ ~ Reduces(n, 1)
    <3>1. Takes(e, Pass(e, n.out[1], n.in[1]), {n.in[1]}, {}) BY <1>4, <1>5, PassTakes
    <3>2. A = {} BY <2>3 DEF A
    <3> QED BY <2>3, <3>1, <3>2
  <2> QED BY <2>1, <2>2, <2>3
<1> HIDE DEF x
<1>8. Takes(x, y, {n.in[2]}, B)
  <2>1. Sound(x) /\ GradStorageActive(x, g) BY <1>6, <1>7 DEF Takes
  <2>2. CASE ~NeedsGrad(n.in[2])
    <3>1. B = {} BY <2>2 DEF B
    <3> QED BY <2>1, <2>2, <3>1, TakesNothing
  <2>3. CASE NeedsGrad(n.in[2]) /\ Reduces(n, 2)
    <3>1. B = {b} BY <2>3 DEF B
    <3>2. Ok(x) => b \in x.held BY <1>4, <1>7, <3>1 DEF Takes, Spare
    <3> QED BY <2>1, <2>3, <3>1, <3>2, AccumulateTakes
  <2>4. CASE NeedsGrad(n.in[2]) /\ ~ Reduces(n, 2)
    <3>1. g \in x.held BY <2>1 DEF Sound, Slots, GradStorageActive
    <3>2. Takes(x, Accumulate(x, n.in[2], g), {n.in[2]}, {}) BY <2>1, <3>1, SharedTakes
    <3>3. B = {} BY <2>4 DEF B
    <3> QED BY <2>4, <3>2, <3>3
  <2> QED BY <2>2, <2>3, <2>4
<1> HIDE DEF y
<1>9. Advances(c, y, {n.in[1], n.in[2]}, {} \cup {}) BY <1>2, <1>3, <1>7, <1>8, BothHandedOn
<1>10. {} \cup {} = {} OBVIOUS
<1> QED BY <1>1, <1>9, <1>10

\* Every backward rule gives slots to the inputs of its node only.
LEMMA RuleSound ==
  ASSUME NEW c, Sound(c), NEW n \in Node, NodeOK(n, Len(tensors)),
         \E i \in DOMAIN n.out : HasGrad(c, n.out[i]),
         \A p \in {1, 2} : <<n.out[1], p>> \notin DOMAIN c.full
  PROVE  Advances(c, Rule(c, n), ToSet(n.in), Unreduced(n))
<1> DEFINE d == Rule(c, n)
<1>1. n.op \in {"add", "mul", "dropout", "dropout_add", "split", "reshape"}
  BY AutogradAssumption DEF Node
<1>2. n.in \in Seq(Nat) /\ n.out \in Seq(Nat) BY DEF Node
<1>3. n.in[1] \in ToSet(n.in) /\ (Binary(n.op) => n.in[2] \in ToSet(n.in))
  BY <1>2 DEF NodeOK, ToSet
<1>4. n.op # "split" => n.out[1] \in DOMAIN c.grads
  BY <1>2 DEF NodeOK, Outputs, HasGrad
<1>5. n.out[1] \in DOMAIN c.grads => c.grads[n.out[1]] \in c.held BY DEF Sound, Slots
<1>6. CASE n.op = "add"
  <2>1. d = RuleAdd(c, n) BY <1>6 DEF Rule
  <2>2. {n.in[1], n.in[2]} \subseteq ToSet(n.in) BY <1>3, <1>6 DEF Binary
  <2>3. Advances(c, d, {n.in[1], n.in[2]}, {}) BY <1>4, <1>6, <2>1, RuleAddSound
  <2> QED BY <2>2, <2>3, Wider
<1>7. CASE n.op = "mul"
  <2>1. d = RuleMul(c, n) BY <1>7 DEF Rule
  <2>2. {n.in[1], n.in[2]} \subseteq ToSet(n.in) BY <1>3, <1>7 DEF Binary
  <2>3. {1, 2} \subseteq DOMAIN n.in BY <1>2, <1>7 DEF NodeOK, Binary
  <2>4. Advances(c, d, {n.in[1], n.in[2]}, Unreduced(n)) BY <1>7, <2>1, <2>3, RuleMulSound
  <2> QED BY <2>2, <2>4, Wider
<1>8. CASE n.op = "dropout"
  <2>1. d = RuleDropout(c, n) BY <1>8 DEF Rule
  <2>2. Advances(c, d, {n.in[1]}, {}) BY <2>1, ContributeSound DEF RuleDropout
  <2> QED BY <1>3, <2>2, Wider
<1>9. CASE n.op = "dropout_add"
  <2> DEFINE g == c.grads[n.out[1]]
             p == IF NeedsGrad(n.in[1]) THEN Pass(c, n.out[1], n.in[1]) ELSE c
             e == Contribute(p, n.in[2], p.mem[g] * p.mem[Span(n.saved[1])])
  <2>1. d = e BY <1>9 DEF Rule, RuleDropoutAdd
  <2>2. Advances(c, p, {n.in[1]}, {}) BY <1>4, <1>9, PassTakes, TakesAdvances, Staying
  <2> HIDE DEF p
  <2>3. Sound(p) BY <2>2 DEF Advances
  <2>4. Advances(p, e, {n.in[2]}, {}) BY <2>3, ContributeSound
  <2> HIDE DEF e
  <2>5. Advances(c, e, {n.in[1]} \cup {n.in[2]}, {}) BY <2>2, <2>4, Onward
  <2>6. {n.in[1]} \cup {n.in[2]} \subseteq ToSet(n.in) BY <1>3, <1>9 DEF Binary
  <2> QED BY <2>1, <2>5, <2>6, Wider
<1>10. CASE n.op = "split"
  <2>1. d = Contribute(c, n.in[1], SplitGrad(c, n)) BY <1>10 DEF Rule, RuleSplit
  <2>2. Advances(c, d, {n.in[1]}, {}) BY <2>1, ContributeSound
  <2> QED BY <1>3, <2>2, Wider
<1>11. CASE n.op = "reshape"
  <2> DEFINE e == IF NeedsGrad(n.in[1]) THEN Accumulate(c, n.in[1], c.grads[n.out[1]]) ELSE c
  <2>1. d = e BY <1>11 DEF Rule, RuleReshape
  <2>2. Advances(c, e, {n.in[1]}, {}) BY <1>4, <1>5, <1>11, SharedSound, Staying
  <2> HIDE DEF e
  <2> QED BY <1>3, <2>1, <2>2, Wider
<1> QED BY <1>1, <1>6, <1>7, <1>8, <1>9, <1>10, <1>11

\* gd_release_grad_slot gives the slot's storage back with the slot.
LEMMA ReleaseSlotSound ==
  ASSUME NEW c, Sound(c), NEW t
  PROVE  LET d == ReleaseSlot(c, t) IN
         /\ Advances(c, d, {}, {}) /\ (Ok(d) => DOMAIN d.grads = DOMAIN c.grads \ {t})
         /\ d.mem = c.mem /\ \A u \in DOMAIN d.grads : d.grads[u] = c.grads[u]
<1>1. CASE ~ Ok(c) \/ ~ HasGrad(c, t) BY <1>1 DEF ReleaseSlot, HasGrad, Advances
<1>2. CASE Ok(c) /\ HasGrad(c, t)
  <2> DEFINE s == c.grads[t]
             e == FreeSpan(c, s)
             g == Without(c.grads, t)
             d == [e EXCEPT !.grads = g]
  <2>1. s \in c.held /\ t \in DOMAIN c.grads BY <1>2 DEF Sound, Slots, HasGrad
  <2>2. /\ Core(e) /\ e.held = c.held \ {s} /\ e.mem = c.mem
        /\ e.grads = c.grads /\ e.refs = c.refs /\ e.lost = c.lost /\ e.full = c.full /\ Ok(e)
    BY <1>2, <2>1, FreeEffect DEF Sound
  <2>3. ReleaseSlot(c, t) = d BY <1>2, <2>2 DEF ReleaseSlot
  <2> HIDE DEF e
  <2>4. DOMAIN g = DOMAIN c.grads \ {t} /\ \A u \in DOMAIN g : g[u] = c.grads[u] BY DEF Without
  <2> HIDE DEF g
  <2>5. /\ Whole(d) /\ d.held = e.held /\ d.top = e.top /\ d.mem = e.mem /\ d.grads = g
        /\ d.refs = e.refs /\ d.lost = e.lost /\ d.full = e.full /\ d.status = e.status
    BY <2>2, SetGrads DEF Core
  <2> HIDE DEF d
  <2>6. Core(d) BY <2>2, <2>5 DEF Core
  <2>7. Slots(d) BY <2>1, <2>2, <2>4, <2>5 DEF Slots, Sound
  <2>8. Live(d) BY <2>1, <2>2, <2>4, <2>5 DEF Live, Sound, LiveStorageActive
  <2>9. ASSUME NEW T, Accounted(c, T) PROVE Accounted(d, T)
    BY <1>2, <2>2, <2>4, <2>5, <2>9 DEF Accounted, LiveStorageActive, GradStorageActive
  <2> QED BY <1>2, <2>2, <2>3, <2>4, <2>5, <2>6, <2>7, <2>8, <2>9 DEF Advances, Sound
<1> QED BY <1>1, <1>2

\* The gradients of a node's outputs are released one by one.
LEMMA ReleaseOutputGradsSteps ==
  ASSUME NEW c, NEW n, Len(n.out) \in Nat
  PROVE  \E after : /\ after[0] = c /\ ReleaseOutputGrads(c, n) = after[Len(n.out)]
                    /\ \A i \in 1 .. Len(n.out) : after[i] = ReleaseSlot(after[i - 1], n.out[i])
<1> DEFINE Follows(f, m) ==
             f = [i \in 0 .. m |-> IF i = 0 THEN c ELSE ReleaseSlot(f[i - 1], n.out[i])]
<1>1. \A m \in Nat : \E f : Follows(f, m)
  <2> DEFINE bad == {m \in Nat : ~ \E f : Follows(f, m)}
  <2> SUFFICES ASSUME bad # {} PROVE FALSE OBVIOUS
  <2>1. PICK m \in bad : \A k \in bad : m <= k BY LeastElement
  <2>2. m # 0
    <3> DEFINE f == [i \in 0 .. 0 |-> c]
    <3>1. f = [i \in 0 .. 0 |-> IF i = 0 THEN c ELSE ReleaseSlot(f[i - 1], n.out[i])] OBVIOUS
    <3> QED BY <3>1
  <2>3. m - 1 \in Nat /\ ~ (m <= m - 1) BY <2>2
  <2>4. PICK f : Follows(f, m - 1)
    <3>1. m - 1 \notin bad
      <4> HIDE DEF bad
      <4> QED BY <2>1, <2>3
    <3> QED BY <2>3, <3>1
  <2> DEFINE e == [i \in 0 .. m |-> IF i = m THEN ReleaseSlot(f[m - 1], n.out[m]) ELSE f[i]]
  <2>5. Follows(e, m)
    <3>1. ASSUME NEW i \in 0 .. m
          PROVE  e[i] = IF i = 0 THEN c ELSE ReleaseSlot(e[i - 1], n.out[i])
      <4>1. CASE i = m BY <2>1, <2>2, <4>1
      <4>2. CASE i # m
        <5>1. i \in 0 .. m - 1 /\ (i # 0 => i - 1 \in 0 .. m - 1) BY <2>1, <4>2
        <5>2. f[i] = IF i = 0 THEN c ELSE ReleaseSlot(f[i - 1], n.out[i]) BY <2>4, <5>1
        <5>3. e[i] = f[i] /\ (i # 0 => e[i - 1] = f[i - 1]) BY <2>1, <4>2, <5>1
        <5> QED BY <5>2, <5>3
      <4> QED BY <4>1, <4>2
    <3> HIDE DEF e
    <3>2. e = [i \in 0 .. m |-> e[i]] BY DEF e
    <3> QED BY <3>1, <3>2
  <2> QED BY <2>1, <2>5
<1>2. PICK g : Follows(g, Len(n.out)) BY <1>1
<1> DEFINE after == CHOOSE f : Follows(f, Len(n.out))
<1>3. Follows(after, Len(n.out)) BY <1>2
<1>4. ReleaseOutputGrads(c, n) = after[Len(n.out)] BY DEF ReleaseOutputGrads
<1> HIDE DEF after
<1>5. after[0] = c /\ \A i \in 1 .. Len(n.out) : after[i] = ReleaseSlot(after[i - 1], n.out[i])
  BY <1>3
<1> QED BY <1>4, <1>5

\* After the loop over the outputs, none of them has a slot.
LEMMA ReleaseOutputGradsSound ==
  ASSUME NEW c, Sound(c), NEW n \in Node, NodeOK(n, Len(tensors))
  PROVE  LET d == ReleaseOutputGrads(c, n) IN
         /\ Advances(c, d, {}, {}) /\ (Ok(d) => DOMAIN d.grads = DOMAIN c.grads \ ToSet(n.out))
         /\ d.mem = c.mem /\ \A u \in DOMAIN d.grads : d.grads[u] = c.grads[u]
<1>1. n.out \in Seq(Nat) /\ Len(n.out) \in {1, 2} BY DEF Node, NodeOK, Outputs
<1>2. DOMAIN n.out = 1 .. Len(n.out) BY <1>1
<1>3. PICK after : /\ after[0] = c /\ ReleaseOutputGrads(c, n) = after[Len(n.out)]
                   /\ \A i \in 1 .. Len(n.out) : after[i] = ReleaseSlot(after[i - 1], n.out[i])
  <2>1. Len(n.out) \in Nat BY <1>1
  <2> QED BY <2>1, ReleaseOutputGradsSteps
<1> DEFINE d == after[1]
           e == after[2]
<1>4. d = ReleaseSlot(c, n.out[1]) BY <1>1, <1>3
<1>5. /\ Advances(c, d, {}, {}) /\ (Ok(d) => DOMAIN d.grads = DOMAIN c.grads \ {n.out[1]})
      /\ d.mem = c.mem /\ \A u \in DOMAIN d.grads : d.grads[u] = c.grads[u]
  BY <1>4, ReleaseSlotSound
<1>6. CASE Len(n.out) = 1
  <2>1. ToSet(n.out) = {n.out[1]} BY <1>2, <1>6 DEF ToSet
  <2> QED BY <1>3, <1>5, <1>6, <2>1
<1>7. CASE Len(n.out) = 2
  <2>1. e = ReleaseSlot(d, n.out[2]) BY <1>3, <1>7
  <2>2. Sound(d) BY <1>5 DEF Advances
  <2> HIDE DEF d
  <2>3. /\ Advances(d, e, {}, {}) /\ (Ok(e) => DOMAIN e.grads = DOMAIN d.grads \ {n.out[2]})
        /\ e.mem = d.mem /\ \A u \in DOMAIN e.grads : e.grads[u] = d.grads[u]
    BY <2>1, <2>2, ReleaseSlotSound
  <2>4. ReleaseOutputGrads(c, n) = e BY <1>3, <1>7
  <2> HIDE DEF e
  <2>5. Advances(c, e, {}, {}) BY <1>5, <2>3 DEF Advances
  <2>6. ToSet(n.out) = {n.out[1], n.out[2]} BY <1>2, <1>7 DEF ToSet
  <2>7. (Ok(e) => Ok(d)) /\ DOMAIN e.grads \subseteq DOMAIN d.grads BY <2>3 DEF Advances
  <2> QED BY <1>5, <2>3, <2>4, <2>5, <2>6, <2>7
<1> QED BY <1>1, <1>6, <1>7

----------------------------------------------------------------------------
(* References.                                                             *)

\* What a concatenation contains.
LEMMA Joined ==
  ASSUME NEW S, NEW a \in Seq(S), NEW b \in Seq(S)
  PROVE  /\ a \o b \in Seq(S) /\ Len(a \o b) = Len(a) + Len(b)
         /\ ToSet(a \o b) = ToSet(a) \cup ToSet(b)
<1> DEFINE c == a \o b
<1>1. c \in Seq(S) /\ Len(c) = Len(a) + Len(b) /\ Len(a) \in Nat /\ Len(b) \in Nat OBVIOUS
<1>2. \A p \in 1 .. Len(a) : c[p] = a[p] OBVIOUS
<1>3. \A p \in 1 .. Len(b) : c[Len(a) + p] = b[p] OBVIOUS
<1>4. DOMAIN a = 1 .. Len(a) /\ DOMAIN b = 1 .. Len(b) /\ DOMAIN c = 1 .. Len(a) + Len(b)
  BY <1>1
<1> HIDE DEF c
<1>5. \A p \in 1 .. Len(a) : p \in 1 .. Len(a) + Len(b) BY <1>1
<1>6. \A p \in 1 .. Len(b) : Len(a) + p \in 1 .. Len(a) + Len(b) BY <1>1
<1>7. \A p \in 1 .. Len(a) + Len(b) : p \in 1 .. Len(a) \/ \E q \in 1 .. Len(b) : p = Len(a) + q
  <2>1. ASSUME NEW p \in 1 .. Len(a) + Len(b), p \notin 1 .. Len(a)
        PROVE  p - Len(a) \in 1 .. Len(b) /\ p = Len(a) + (p - Len(a))
    BY <1>1, <2>1
  <2> QED BY <2>1
<1>8. ToSet(c) \subseteq ToSet(a) \cup ToSet(b)
  <2>1. ASSUME NEW p \in 1 .. Len(a) + Len(b) PROVE c[p] \in ToSet(a) \cup ToSet(b)
    <3>1. CASE p \in 1 .. Len(a) BY <1>2, <1>4, <3>1 DEF ToSet
    <3>2. CASE \E q \in 1 .. Len(b) : p = Len(a) + q BY <1>3, <1>4, <3>2 DEF ToSet
    <3> QED BY <1>7, <3>1, <3>2
  <2> QED BY <1>4, <2>1 DEF ToSet
<1>9. ToSet(a) \subseteq ToSet(c) BY <1>2, <1>4, <1>5 DEF ToSet
<1>10. ToSet(b) \subseteq ToSet(c) BY <1>3, <1>4, <1>6 DEF ToSet
<1> QED BY <1>1, <1>8, <1>9, <1>10 DEF c

\* A node refers to five tensors at most.
LEMMA AtMostFive ==
  ASSUME NEW a \in {1, 2}, NEW b \in {1, 2}, NEW c \in {0, 1} PROVE a + b + c \in 1 .. 5
OBVIOUS

\* The references of a recorded node are tensors that exist.
LEMMA RefsOfNode ==
  ASSUME Shape, NEW i \in DOMAIN tape
  PROVE  /\ tape[i] \in Node /\ NodeOK(tape[i], Len(tensors))
         /\ Refs(tape[i]) \in Seq(Nat) /\ Len(Refs(tape[i])) \in 1 .. 5
         /\ DOMAIN Refs(tape[i]) = 1 .. Len(Refs(tape[i]))
         /\ \A p \in DOMAIN Refs(tape[i]) : Refs(tape[i])[p] \in TensorId
         /\ \A t \in ToSet(tape[i].out) : t \in ToSet(Refs(tape[i]))
<1> DEFINE n == tape[i]
<1>1. n \in Node /\ NodeOK(n, Len(tensors)) BY DEF Shape
<1> HIDE DEF n
<1> DEFINE x == n.in
           y == n.out
           z == n.saved
<1>2. x \in Seq(Nat) /\ y \in Seq(Nat) /\ z \in Seq(Nat) BY <1>1 DEF Node
<1>3. Len(x) \in {1, 2} /\ Len(y) \in {1, 2} /\ Len(z) \in {0, 1}
  BY <1>1 DEF NodeOK, Outputs
<1>4. \A t \in ToSet(x) \cup ToSet(y) \cup ToSet(z) : t \in TensorId BY <1>1 DEF NodeOK, TensorId
<1> DEFINE a == x \o y
           r == a \o z
<1>5. Refs(n) = r BY DEF Refs
<1> HIDE DEF x, y, z
<1>6. a \in Seq(Nat) /\ Len(a) = Len(x) + Len(y) /\ ToSet(a) = ToSet(x) \cup ToSet(y)
  BY <1>2, Joined
<1> HIDE DEF a
<1>7. r \in Seq(Nat) /\ Len(r) = Len(a) + Len(z) /\ ToSet(r) = ToSet(a) \cup ToSet(z)
  <2>1. z \in Seq(Nat) /\ a \in Seq(Nat) BY <1>2, <1>6
  <2> QED BY <2>1, Joined
<1> HIDE DEF r
<1>8. Len(r) \in 1 .. 5
  <2>1. Len(r) = Len(x) + Len(y) + Len(z) BY <1>6, <1>7, Zenon
  <2> QED BY <1>3, <2>1, AtMostFive, Zenon
<1>9. DOMAIN r = 1 .. Len(r) BY <1>7
<1>10. \A p \in DOMAIN r : r[p] \in ToSet(r) BY DEF ToSet
<1>11. \A p \in DOMAIN r : r[p] \in TensorId BY <1>4, <1>6, <1>7, <1>10
<1> QED BY <1>1, <1>5, <1>6, <1>7, <1>8, <1>9, <1>11 DEF n, y

\* The tape has finitely many references, so that they can be counted.
LEMMA OccurrencesFinite ==
  ASSUME Shape
  PROVE  /\ IsFiniteSet(Occurrences)
         /\ \A x : x \in Occurrences <=> \E i \in DOMAIN tape :
                                           \E p \in DOMAIN Refs(tape[i]) : x = <<i, p>>
         /\ \A x \in Occurrences : TensorAt(x) \in TensorId /\ SpanAt(x) = Span(TensorAt(x))
<1>1. \A x : x \in Occurrences <=> \E i \in DOMAIN tape :
               \E p \in DOMAIN Refs(tape[i]) : x = <<i, p>>
  BY DEF Occurrences
<1>2. Len(tape) \in Nat /\ DOMAIN tape = 1 .. Len(tape) BY DEF Shape
<1> DEFINE S == (1 .. Len(tape)) \X (1 .. 5)
<1>3. IsFiniteSet(S)
  <2>1. IsFiniteSet(1 .. Len(tape)) BY <1>2, FS_Interval
  <2>2. IsFiniteSet(1 .. 5)
    <3>1. 1 \in Int /\ 5 \in Int OBVIOUS
    <3> QED BY <3>1, FS_Interval, Zenon
  <2> QED BY <2>1, <2>2, FS_Product
<1>4. Occurrences \subseteq S
  <2>1. ASSUME NEW i \in DOMAIN tape, NEW p \in DOMAIN Refs(tape[i]) PROVE <<i, p>> \in S
    <3>1. p \in 1 .. Len(Refs(tape[i])) /\ Len(Refs(tape[i])) \in 1 .. 5 BY RefsOfNode
    <3> QED BY <1>2, <3>1
  <2> QED BY <1>1, <2>1
<1>5. ASSUME NEW x \in Occurrences PROVE TensorAt(x) \in TensorId /\ SpanAt(x) = Span(TensorAt(x))
  <2>1. PICK i \in DOMAIN tape : \E p \in DOMAIN Refs(tape[i]) : x = <<i, p>> BY <1>1
  <2>2. PICK p \in DOMAIN Refs(tape[i]) : x = <<i, p>> BY <2>1
  <2>3. TensorAt(x) = Refs(tape[i])[p] BY <2>2 DEF TensorAt
  <2> QED BY <2>3, RefsOfNode DEF SpanAt, TensorAt
<1> QED BY <1>1, <1>3, <1>4, <1>5, FS_Subset

\* Taking one from a positive count keeps the span allocated.
LEMMA DropRefSound ==
  ASSUME NEW c, Sound(c), NEW s \in DOMAIN c.refs, c.refs[s] \in Nat \ {0}
  PROVE  LET d == DropRef(c, s) IN
         /\ Sound(d) /\ d.grads = c.grads /\ d.lost = c.lost /\ d.full = c.full /\ d.held = c.held
         /\ d.status = c.status /\ d.mem = c.mem
         /\ s \in c.held /\ ~ GradStorageActive(c, s)
         /\ DOMAIN d.refs = DOMAIN c.refs /\ d.refs[s] = c.refs[s] - 1
         /\ \A r \in DOMAIN c.refs \ {s} : d.refs[r] = c.refs[r]
<1> DEFINE f == [c.refs EXCEPT ![s] = c.refs[s] - 1]
           d == [c EXCEPT !.refs = f]
<1>1. DropRef(c, s) = d BY DEF DropRef
<1>2. /\ DOMAIN f = DOMAIN c.refs /\ f[s] = c.refs[s] - 1
      /\ \A r \in DOMAIN c.refs \ {s} : f[r] = c.refs[r]
  OBVIOUS
<1> HIDE DEF f
<1>3. /\ Whole(d) /\ d.held = c.held /\ d.top = c.top /\ d.mem = c.mem /\ d.grads = c.grads
      /\ d.refs = f /\ d.lost = c.lost /\ d.full = c.full /\ d.status = c.status
  BY SetRefs DEF Core, Sound
<1> HIDE DEF d
<1>4. Core(d) /\ Slots(d) BY <1>3 DEF Core, Slots, Sound
<1>5. \A r : LiveStorageActive(d, r) => LiveStorageActive(c, r)
  BY <1>2, <1>3 DEF LiveStorageActive
<1>6. Live(d) BY <1>3, <1>5 DEF Live, Sound, LiveStorageActive
<1>7. s \in c.held /\ ~ GradStorageActive(c, s)
  BY DEF Sound, Live, LiveStorageActive, GradStorageActive
<1> QED BY <1>1, <1>2, <1>3, <1>4, <1>6, <1>7 DEF Sound

\* Passing reference j of node k takes it, and no other, from what is left,
\* unless its tensor is an output backward was called with.
LEMMA LeftStep ==
  ASSUME Shape, NEW k \in DOMAIN tape, NEW j \in DOMAIN Refs(tape[k])
  PROVE  LET t == Refs(tape[k])[j] IN
         /\ \A r : r # Span(t) \/ Contains(seeds.outputs, t) => Left(k, j, r) = Left(k, j - 1, r)
         /\ ~ Contains(seeds.outputs, t) =>
              /\ <<k, j>> \in Left(k, j - 1, Span(t))
              /\ Left(k, j, Span(t)) = Left(k, j - 1, Span(t)) \ {<<k, j>>}
<1> DEFINE t == Refs(tape[k])[j]
           x == <<k, j>>
<1>1. /\ x \in Occurrences /\ TensorAt(x) = t /\ SpanAt(x) = Span(t)
  BY OccurrencesFinite DEF TensorAt, SpanAt
<1>2. k \in Nat /\ j \in Nat /\ j > 0
  <2>1. tape \in Seq(Node) BY DEF Shape
  <2>2. k \in Nat BY ONLY <2>1, k \in DOMAIN tape
  <2>3. DOMAIN Refs(tape[k]) = 1 .. Len(Refs(tape[k])) /\ Len(Refs(tape[k])) \in 1 .. 5 BY RefsOfNode
  <2> QED BY ONLY <2>2, <2>3, j \in DOMAIN Refs(tape[k])
<1>3. ASSUME NEW y \in Occurrences, y # x
      PROVE  (y[1] = k /\ y[2] > j) <=> (y[1] = k /\ y[2] > j - 1)
  <2>1. PICK i \in DOMAIN tape : \E p \in DOMAIN Refs(tape[i]) : y = <<i, p>>
    BY OccurrencesFinite
  <2>2. PICK p \in DOMAIN Refs(tape[i]) : y = <<i, p>> BY <2>1
  <2>3. i \in Nat BY DEF Shape
  <2>5. p \in 1 .. Len(Refs(tape[i])) /\ Len(Refs(tape[i])) \in 1 .. 5 BY RefsOfNode
  <2>4. y[1] = i /\ y[2] = p /\ (i # k \/ p # j) BY <1>3, <2>2
  <2> QED BY <1>2, <2>3, <2>4, <2>5
<1>4. x[1] = k /\ x[2] = j /\ ~ (k < k) /\ ~ (j > j) /\ j > j - 1 BY <1>2
<1> HIDE DEF x, t
<1>5. ASSUME NEW r, r # Span(t) \/ Contains(seeds.outputs, t)
      PROVE  Left(k, j, r) = Left(k, j - 1, r)
  <2>1. ASSUME NEW y \in Occurrences PROVE y \in Left(k, j, r) <=> y \in Left(k, j - 1, r)
    <3>1. CASE y = x BY <1>1, <1>5, <3>1 DEF Left
    <3>2. CASE y # x BY <1>3, <3>2 DEF Left
    <3> QED BY <3>1, <3>2
  <2> QED BY <2>1 DEF Left
<1>6. ASSUME ~ Contains(seeds.outputs, t)
      PROVE  /\ x \in Left(k, j - 1, Span(t))
             /\ Left(k, j, Span(t)) = Left(k, j - 1, Span(t)) \ {x}
  <2>1. x \in Left(k, j - 1, Span(t)) /\ x \notin Left(k, j, Span(t)) BY <1>1, <1>4, <1>6 DEF Left
  <2>2. ASSUME NEW y \in Occurrences, y # x
        PROVE  y \in Left(k, j, Span(t)) <=> y \in Left(k, j - 1, Span(t))
    BY <1>3, <2>2 DEF Left
  <2> QED BY <2>1, <2>2 DEF Left
<1> QED BY <1>5, <1>6 DEF x, t

\* gd_live_span_release_ref never finds a count of zero, and gives the span
\* back when its count gets there: no slot can have it.
LEMMA ReleaseRefSound ==
  ASSUME Shape, NEW k \in DOMAIN tape, NEW j \in DOMAIN Refs(tape[k]),
         NEW c, Sound(c), Ok(c), Accounted(c, {}), Counts(c, k, j - 1)
  PROVE  LET d == ReleaseRef(c, Refs(tape[k])[j]) IN
         /\ Sound(d) /\ Ok(d) /\ Accounted(d, {}) /\ Counts(d, k, j)
         /\ d.grads = c.grads /\ d.lost = c.lost /\ d.full = c.full /\ d.mem = c.mem
<1> DEFINE t == Refs(tape[k])[j]
           s == Span(t)
           x == <<k, j>>
           d == ReleaseRef(c, t)
<1>1. /\ \A r : r # s \/ Contains(seeds.outputs, t) => Left(k, j, r) = Left(k, j - 1, r)
      /\ ~ Contains(seeds.outputs, t) => /\ x \in Left(k, j - 1, s)
                                         /\ Left(k, j, s) = Left(k, j - 1, s) \ {x}
  BY LeftStep
<1>2. \A r : IsFiniteSet(Left(k, j - 1, r))
  <2>1. \A r : Left(k, j - 1, r) \subseteq Occurrences BY DEF Left
  <2> QED BY <2>1, OccurrencesFinite, FS_Subset
<1> HIDE DEF t, x
<1>3. CASE s \notin DOMAIN c.refs \/ Contains(seeds.outputs, t)
  <2>1. d = c BY <1>3 DEF ReleaseRef, Span
  <2>2. Counts(c, k, j) BY <1>1, <1>3 DEF Counts
  <2> QED BY <2>1, <2>2 DEF t
<1>4. CASE s \in DOMAIN c.refs /\ ~ Contains(seeds.outputs, t)
  <2>1. c.refs[s] = Cardinality(Left(k, j - 1, s)) BY <1>4 DEF Counts
  <2>2. c.refs[s] \in Nat \ {0}
    BY <1>1, <1>2, <1>4, <2>1, FS_CardinalityType, FS_EmptySet
  <2>3. Cardinality(Left(k, j, s)) = c.refs[s] - 1 BY <1>1, <1>2, <1>4, <2>1, FS_RemoveElement
  <2> DEFINE e == DropRef(c, s)
  <2>4. d = IF c.refs[s] = 1 THEN FreeSpan(e, s) ELSE e
    BY <1>4, <2>2 DEF ReleaseRef, Span
  <2>5. /\ Sound(e) /\ e.grads = c.grads /\ e.lost = c.lost /\ e.full = c.full /\ e.held = c.held
        /\ e.status = c.status /\ e.mem = c.mem
        /\ s \in c.held /\ ~ GradStorageActive(c, s)
        /\ DOMAIN e.refs = DOMAIN c.refs /\ e.refs[s] = c.refs[s] - 1
        /\ \A r \in DOMAIN c.refs \ {s} : e.refs[r] = c.refs[r]
    BY <1>4, <2>2, DropRefSound
  <2> HIDE DEF e
  <2>6. Counts(e, k, j) BY <1>1, <2>3, <2>5 DEF Counts
  <2>7. Ok(e) BY <2>5 DEF Ok
  <2>8. \A r : r # s => (LiveStorageActive(e, r) <=> LiveStorageActive(c, r))
    BY <2>5 DEF LiveStorageActive
  <2>9. CASE c.refs[s] = 1
    <3>1. d = FreeSpan(e, s) BY <2>4, <2>9
    <3>2. ~ LiveStorageActive(e, s) /\ ~ GradStorageActive(e, s)
      BY <2>5, <2>9 DEF LiveStorageActive, GradStorageActive
    <3>3. Accounted(e, {} \cup {s})
      BY <2>5, <2>8 DEF Accounted, GradStorageActive, Ok
    <3> HIDE DEF d
    <3>4. /\ Sound(d) /\ d.grads = e.grads /\ d.refs = e.refs /\ d.lost = e.lost
          /\ d.full = e.full /\ d.mem = e.mem /\ Ok(d)
          /\ \A T : Accounted(e, T \cup {s}) => Accounted(d, T)
      BY <2>5, <2>7, <3>1, <3>2, FreeSound
    <3>5. Accounted(d, {}) BY <3>3, <3>4
    <3>6. Counts(d, k, j) BY <2>6, <3>4 DEF Counts
    <3> QED BY <2>5, <3>4, <3>5, <3>6 DEF d, t
  <2>10. CASE c.refs[s] # 1
    <3>1. d = e BY <2>4, <2>10
    <3>2. LiveStorageActive(e, s) BY <1>4, <2>2, <2>5, <2>10 DEF LiveStorageActive
    <3>3. Accounted(e, {}) BY <2>5, <2>8, <3>2 DEF Accounted, GradStorageActive, Ok
    <3> HIDE DEF d
    <3> QED BY <2>5, <2>6, <2>7, <3>1, <3>3 DEF d, t
  <2> QED BY <2>9, <2>10
<1> QED BY <1>3, <1>4

\* The references of a node are released one by one.
LEMMA ReleaseForwardRefsSteps ==
  ASSUME NEW c, NEW n, Len(Refs(n)) \in Nat
  PROVE  \E after : /\ after[0] = c /\ ReleaseForwardRefs(c, n) = after[Len(Refs(n))]
                    /\ \A i \in 1 .. Len(Refs(n)) : after[i] = ReleaseRef(after[i - 1], Refs(n)[i])
<1> DEFINE Follows(f, m) ==
             f = [i \in 0 .. m |-> IF i = 0 THEN c ELSE ReleaseRef(f[i - 1], Refs(n)[i])]
<1>1. \A m \in Nat : \E f : Follows(f, m)
  <2> DEFINE bad == {m \in Nat : ~ \E f : Follows(f, m)}
  <2> SUFFICES ASSUME bad # {} PROVE FALSE OBVIOUS
  <2>1. PICK m \in bad : \A k \in bad : m <= k BY LeastElement
  <2>2. m # 0
    <3> DEFINE f == [i \in 0 .. 0 |-> c]
    <3>1. f = [i \in 0 .. 0 |-> IF i = 0 THEN c ELSE ReleaseRef(f[i - 1], Refs(n)[i])] OBVIOUS
    <3> QED BY <3>1
  <2>3. m - 1 \in Nat /\ ~ (m <= m - 1) BY <2>2
  <2>4. PICK f : Follows(f, m - 1)
    <3>1. m - 1 \notin bad
      <4> HIDE DEF bad
      <4> QED BY <2>1, <2>3
    <3> QED BY <2>3, <3>1
  <2> DEFINE e == [i \in 0 .. m |-> IF i = m THEN ReleaseRef(f[m - 1], Refs(n)[m]) ELSE f[i]]
  <2>5. Follows(e, m)
    <3>1. ASSUME NEW i \in 0 .. m
          PROVE  e[i] = IF i = 0 THEN c ELSE ReleaseRef(e[i - 1], Refs(n)[i])
      <4>1. CASE i = m BY <2>1, <2>2, <4>1
      <4>2. CASE i # m
        <5>1. i \in 0 .. m - 1 /\ (i # 0 => i - 1 \in 0 .. m - 1) BY <2>1, <4>2
        <5>2. f[i] = IF i = 0 THEN c ELSE ReleaseRef(f[i - 1], Refs(n)[i]) BY <2>4, <5>1
        <5>3. e[i] = f[i] /\ (i # 0 => e[i - 1] = f[i - 1]) BY <2>1, <4>2, <5>1
        <5> QED BY <5>2, <5>3
      <4> QED BY <4>1, <4>2
    <3> HIDE DEF e
    <3>2. e = [i \in 0 .. m |-> e[i]] BY DEF e
    <3> QED BY <3>1, <3>2
  <2> QED BY <2>1, <2>5
<1>2. PICK g : Follows(g, Len(Refs(n))) BY <1>1
<1> DEFINE after == CHOOSE f : Follows(f, Len(Refs(n)))
<1>3. Follows(after, Len(Refs(n))) BY <1>2
<1>4. ReleaseForwardRefs(c, n) = after[Len(Refs(n))] BY DEF ReleaseForwardRefs
<1> HIDE DEF after
<1>5. after[0] = c /\ \A i \in 1 .. Len(Refs(n)) : after[i] = ReleaseRef(after[i - 1], Refs(n)[i])
  BY <1>3
<1> QED BY <1>4, <1>5


\* After the loop over a node's references the counts are those of the nodes
\* before it.
LEMMA ReleaseForwardRefsSound ==
  ASSUME Shape, NEW k \in DOMAIN tape, NEW c, Sound(c), Accounted(c, {}),
         Ok(c) => Counts(c, k, 0)
  PROVE  LET d == ReleaseForwardRefs(c, tape[k]) IN
         /\ Sound(d) /\ Accounted(d, {}) /\ (Ok(d) => Ok(c))
         /\ Ok(d) => Counts(d, k, Len(Refs(tape[k])))
         /\ d.grads = c.grads /\ d.lost = c.lost /\ d.full = c.full /\ d.mem = c.mem
<1> DEFINE r == Refs(tape[k])
           L == Len(r)
<1>1. L \in Nat /\ DOMAIN r = 1 .. L BY RefsOfNode
<1>2. PICK after : /\ after[0] = c /\ ReleaseForwardRefs(c, tape[k]) = after[L]
                   /\ \A i \in 1 .. L : after[i] = ReleaseRef(after[i - 1], r[i])
  BY <1>1, ReleaseForwardRefsSteps
<1> DEFINE Good(e, j) == /\ Sound(e) /\ Accounted(e, {}) /\ (Ok(e) => Ok(c))
                         /\ Ok(e) => Counts(e, k, j)
                         /\ e.grads = c.grads /\ e.lost = c.lost /\ e.full = c.full /\ e.mem = c.mem
           bad == {j \in 0 .. L : ~ Good(after[j], j)}
<1>3. Good(after[0], 0) BY <1>2
<1>4. ASSUME NEW j \in 1 .. L, Good(after[j - 1], j - 1) PROVE Good(after[j], j)
  <2> DEFINE e == after[j - 1]
             d == after[j]
  <2>1. d = ReleaseRef(e, r[j]) BY <1>2
  <2>2. CASE ~ Ok(e)
    <3>1. d = e BY <2>1, <2>2 DEF ReleaseRef
    <3> QED BY <1>4, <2>2, <3>1
  <2>3. CASE Ok(e)
    <3>1. j \in DOMAIN Refs(tape[k]) BY <1>1
    <3>2. Sound(e) /\ Accounted(e, {}) /\ Counts(e, k, j - 1) /\ e.grads = c.grads
          /\ e.lost = c.lost /\ e.full = c.full /\ e.mem = c.mem /\ Ok(c)
      BY <1>4, <2>3
    <3> HIDE DEF e
    <3>3. LET g == ReleaseRef(e, Refs(tape[k])[j]) IN
          /\ Sound(g) /\ Ok(g) /\ Accounted(g, {}) /\ Counts(g, k, j)
          /\ g.grads = e.grads /\ g.lost = e.lost /\ g.full = e.full /\ g.mem = e.mem
      BY <2>3, <3>1, <3>2, ReleaseRefSound
    <3> HIDE DEF d
    <3>4. Good(d, j) BY <2>1, <3>2, <3>3
    <3> QED BY <3>4 DEF d
  <2> QED BY <2>2, <2>3
<1> HIDE DEF Good
<1>5. bad = {}
  <2> SUFFICES ASSUME bad # {} PROVE FALSE OBVIOUS
  <2>1. bad \subseteq Nat BY <1>1
  <2>2. PICK j \in bad : \A i \in bad : j <= i BY <2>1, LeastElement
  <2>3. j \in 0 .. L /\ ~ Good(after[j], j) BY <2>2
  <2>4. j # 0 BY <1>3, <2>3
  <2>5. j \in 1 .. L /\ j - 1 \in 0 .. L /\ ~ (j <= j - 1) BY <1>1, <2>3, <2>4
  <2>6. j - 1 \notin bad
    <3> HIDE DEF bad
    <3> QED BY <2>2, <2>5
  <2>7. Good(after[j - 1], j - 1) BY <2>5, <2>6
  <2> QED BY <1>4, <2>3, <2>5, <2>7
<1>6. Good(after[L], L)
  <2>1. L \in 0 .. L BY <1>1
  <2> QED BY <1>5, <2>1
<1> QED BY <1>2, <1>6 DEF Good

\* A node whose turn it is has kept no product yet: its output is its own.
LEMMA NoneKept ==
  ASSUME Shape, NEW k \in DOMAIN tape, NEW c, Fulls(c, k), NEW p
  PROVE  <<tape[k].out[1], p>> \notin DOMAIN c.full
<1> SUFFICES ASSUME <<tape[k].out[1], p>> \in DOMAIN c.full PROVE FALSE OBVIOUS
<1>1. PICK i \in DOMAIN tape : i > k /\ <<tape[k].out[1], p>> \in Unreduced(tape[i]) BY DEF Fulls
<1>2. tape[i].out[1] = tape[k].out[1] BY <1>1 DEF Unreduced
<1>3. \A j \in DOMAIN tape : tape[j].out[1] \in ToSet(tape[j].out)
  <2>1. \A j \in DOMAIN tape : tape[j] \in Node /\ NodeOK(tape[j], Len(tensors)) BY RefsOfNode
  <2>2. \A j \in DOMAIN tape : tape[j].out \in Seq(Nat) /\ Len(tape[j].out) \in {1, 2}
    BY <2>1 DEF Node, NodeOK, Outputs
  <2>3. ASSUME NEW j \in DOMAIN tape PROVE 1 \in DOMAIN tape[j].out
    <3> DEFINE o == tape[j].out
    <3>1. o \in Seq(Nat) /\ Len(o) \in {1, 2} BY <2>2
    <3> HIDE DEF o
    <3>2. 1 \in DOMAIN o BY <3>1
    <3> QED BY <3>2 DEF o
  <2> QED BY <2>3 DEF ToSet
<1>4. DOMAIN tape \subseteq Nat BY DEF Shape
<1>5. k < i BY <1>1, <1>4
<1>6. tape[k].out[1] < tape[i].out[1] BY <1>3, <1>5 DEF Shape
<1>7. tape[k].out[1] \in 1 .. Len(tensors) BY <1>3, RefsOfNode DEF NodeOK
<1> QED BY <1>2, <1>6, <1>7

\* A turn that keeps products of its node only.
LEMMA FullsStep ==
  ASSUME Shape, NEW k \in DOMAIN tape, NEW c, Fulls(c, k), NEW d,
         DOMAIN d.full \subseteq DOMAIN c.full \cup Unreduced(tape[k])
  PROVE  Fulls(d, k - 1)
<1>1. DOMAIN tape \subseteq Nat BY DEF Shape
<1>2. \A i \in DOMAIN tape : i > k \/ i = k => i > k - 1 BY <1>1
<1>3. {j \in DOMAIN tape : j > k} \cup {k} \subseteq {j \in DOMAIN tape : j > k - 1} BY <1>2
<1> QED BY <1>3 DEF Fulls

\* One turn of the loop.
LEMMA VisitSound ==
  ASSUME Shape, NEW k \in DOMAIN tape, NEW c, Sound(c), Ok(c), Accounted(c, {}),
         Counts(c, k, 0), Consumed(c, k), Fulls(c, k)
  PROVE  LET d == Visit(c, tape[k]) IN
         /\ Sound(d) /\ Accounted(d, {})
         /\ Ok(d) => Counts(d, k, Len(Refs(tape[k]))) /\ Consumed(d, k - 1)
         /\ Fulls(d, k - 1)
<1> DEFINE n == tape[k]
           d == Visit(c, n)
<1>1. n \in Node /\ NodeOK(n, Len(tensors)) BY RefsOfNode
<1>2. k \in Nat /\ DOMAIN tape \subseteq Nat BY DEF Shape
<1>3. \A i \in DOMAIN tape : i > k - 1 <=> i > k \/ i = k BY <1>2
<1>4. CASE \A i \in DOMAIN n.out : ~ HasGrad(c, n.out[i])
  <2>1. d = ReleaseForwardRefs(c, n) BY <1>4 DEF Visit
  <2>2. /\ Sound(d) /\ Accounted(d, {}) /\ (Ok(d) => Counts(d, k, Len(Refs(tape[k]))))
        /\ d.grads = c.grads /\ d.full = c.full
    BY <2>1, ReleaseForwardRefsSound
  <2> HIDE DEF d
  <2>3. Consumed(d, k - 1) BY <1>3, <1>4, <2>2 DEF Consumed, HasGrad, ToSet
  <2>4. Fulls(d, k - 1) BY <2>2, FullsStep
  <2> QED BY <2>2, <2>3, <2>4 DEF d
<1>5. CASE \E i \in DOMAIN n.out : HasGrad(c, n.out[i])
  <2> DEFINE a == Rule(c, n)
             b == ReleaseOutputGrads(a, n)
             e == ReleaseForwardRefs(b, n)
  <2>1. d = e BY <1>5 DEF Visit
  <2>2. Advances(c, a, ToSet(n.in), Unreduced(n)) BY <1>1, <1>5, NoneKept, RuleSound
  <2> HIDE DEF a
  <2>3. Sound(a) BY <2>2 DEF Advances
  <2>4. Advances(a, b, {}, {}) /\ (Ok(b) => DOMAIN b.grads = DOMAIN a.grads \ ToSet(n.out))
    BY <1>1, <2>3, ReleaseOutputGradsSound
  <2> HIDE DEF b
  <2>5. Advances(c, b, ToSet(n.in) \cup {}, Unreduced(n)) BY <2>2, <2>4, Onward
  <2>6. /\ Sound(b) /\ b.refs = c.refs /\ Accounted(b, {})
        /\ DOMAIN b.grads \subseteq DOMAIN c.grads \cup ToSet(n.in)
        /\ DOMAIN b.full \subseteq DOMAIN c.full \cup Unreduced(n)
    BY <2>5 DEF Advances
  <2>7. Counts(b, k, 0) BY <2>6 DEF Counts
  <2>8. /\ Sound(e) /\ Accounted(e, {}) /\ (Ok(e) => Counts(e, k, Len(Refs(tape[k]))))
        /\ e.grads = b.grads /\ e.full = b.full /\ (Ok(e) => Ok(b))
    BY <2>6, <2>7, ReleaseForwardRefsSound
  <2> HIDE DEF e
  <2>9. ASSUME Ok(e), NEW i \in DOMAIN tape, i > k, NEW t \in ToSet(tape[i].out)
        PROVE  t \notin DOMAIN e.grads
    <3>1. t \notin DOMAIN c.grads BY <2>9 DEF Consumed
    <3>2. t \notin ToSet(n.in)
      <4> SUFFICES ASSUME t \in ToSet(n.in) PROVE FALSE OBVIOUS
      <4>1. DOMAIN n.out # {} BY <1>5
      <4>2. PICK u : u \in ToSet(n.out) BY <4>1 DEF ToSet
      <4>3. t < u /\ u < t BY <1>1, <1>2, <2>9, <4>2 DEF NodeOK, Shape
      <4>4. t \in TensorId /\ u \in TensorId BY <1>1, <4>2 DEF NodeOK, TensorId
      <4>5. t \in Int /\ u \in Int BY <4>4 DEF TensorId
      <4> QED BY <4>3, <4>5
    <3> QED BY <2>6, <2>8, <3>1, <3>2
  <2>10. Ok(e) => \A t \in ToSet(n.out) : t \notin DOMAIN e.grads BY <2>4, <2>8
  <2>11. Ok(e) => Consumed(e, k - 1) BY <1>3, <2>9, <2>10 DEF Consumed
  <2>12. Fulls(e, k - 1) BY <2>6, <2>8, FullsStep
  <2> QED BY <2>1, <2>8, <2>11, <2>12
<1> QED BY <1>4, <1>5

----------------------------------------------------------------------------
(* Seeds.                                                                  *)

\* A seed is the gradient the caller gives, or a new one.
LEMMA SeedSound ==
  ASSUME NEW c, Sound(c), NEW t, NEW g, NEW scale, g # 0 => Span(g) \in c.held \cup Params
  PROVE  Advances(c, Seed(c, t, g, scale), {t}, {})
<1>1. CASE g # 0 /\ scale = 1
  <2> DEFINE s == Span(g)
             d == Accumulate(c, t, s)
  <2>1. Seed(c, t, g, scale) = d BY <1>1 DEF Seed
  <2>2. /\ Sound(d) /\ d.refs = c.refs /\ d.lost = c.lost /\ d.full = c.full /\ (Ok(d) => Ok(c))
        /\ DOMAIN d.grads \subseteq DOMAIN c.grads \cup {t}
        /\ \A T : Accounted(c, T \cup {s}) => Accounted(d, T)
    BY <1>1, AccumulateSound
  <2> HIDE DEF d
  <2>3. ASSUME NEW T, Accounted(c, T) PROVE Accounted(c, T \cup {s}) BY <2>3 DEF Accounted
  <2> QED BY <2>1, <2>2, <2>3 DEF Advances
<1>2. CASE ~ (g # 0 /\ scale = 1)
  <2> DEFINE v == IF g = 0 THEN scale ELSE c.mem[Span(g)] * scale
             p == Produce(c, v)
             d == Accumulate(p, t, Fresh(c))
  <2>1. Seed(c, t, g, scale) = d BY <1>2 DEF Seed
  <2> HIDE DEF v
  <2>2. /\ Sound(p) /\ p.grads = c.grads /\ p.refs = c.refs /\ p.lost = c.lost /\ p.full = c.full
        /\ Ok(p) => Ok(c) /\ Spare(p, Fresh(c))
        /\ \A T : Accounted(c, T) => Accounted(p, T \cup {Fresh(c)})
    BY ProduceSound
  <2> HIDE DEF p
  <2>3. Ok(p) => Fresh(c) \in p.held \cup Params BY <2>2 DEF Spare
  <2>4. /\ Sound(d) /\ d.refs = p.refs /\ d.lost = p.lost /\ d.full = p.full /\ (Ok(d) => Ok(p))
        /\ DOMAIN d.grads \subseteq DOMAIN p.grads \cup {t}
        /\ \A T : Accounted(p, T \cup {Fresh(c)}) => Accounted(d, T)
    BY <2>2, <2>3, AccumulateSound
  <2> HIDE DEF d
  <2> QED BY <2>1, <2>2, <2>4 DEF Advances
<1> QED BY <1>1, <1>2

\* The outputs are seeded one by one.
LEMMA SeedAllSteps ==
  ASSUME NEW c, NEW sd, Len(sd.outputs) \in Nat
  PROVE  \E after : /\ after[0] = c /\ SeedAll(c, sd) = after[Len(sd.outputs)]
                    /\ \A i \in 1 .. Len(sd.outputs) :
                         after[i] = Seed(after[i - 1], sd.outputs[i], sd.grads[i], sd.scale)
<1> DEFINE Follows(f, m) ==
             f = [i \in 0 .. m |-> IF i = 0 THEN c
                                   ELSE Seed(f[i - 1], sd.outputs[i], sd.grads[i], sd.scale)]
<1>1. \A m \in Nat : \E f : Follows(f, m)
  <2> DEFINE bad == {m \in Nat : ~ \E f : Follows(f, m)}
  <2> SUFFICES ASSUME bad # {} PROVE FALSE OBVIOUS
  <2>1. PICK m \in bad : \A k \in bad : m <= k BY LeastElement
  <2>2. m # 0
    <3> DEFINE f == [i \in 0 .. 0 |-> c]
    <3>1. f = [i \in 0 .. 0 |-> IF i = 0 THEN c
                                 ELSE Seed(f[i - 1], sd.outputs[i], sd.grads[i], sd.scale)] OBVIOUS
    <3> QED BY <3>1
  <2>3. m - 1 \in Nat /\ ~ (m <= m - 1) BY <2>2
  <2>4. PICK f : Follows(f, m - 1)
    <3>1. m - 1 \notin bad
      <4> HIDE DEF bad
      <4> QED BY <2>1, <2>3
    <3> QED BY <2>3, <3>1
  <2> DEFINE e == [i \in 0 .. m |->
                     IF i = m THEN Seed(f[m - 1], sd.outputs[m], sd.grads[m], sd.scale)
                     ELSE f[i]]
  <2>5. Follows(e, m)
    <3>1. ASSUME NEW i \in 0 .. m
          PROVE  e[i] = IF i = 0 THEN c ELSE Seed(e[i - 1], sd.outputs[i], sd.grads[i], sd.scale)
      <4>1. CASE i = m BY <2>1, <2>2, <4>1
      <4>2. CASE i # m
        <5>1. i \in 0 .. m - 1 /\ (i # 0 => i - 1 \in 0 .. m - 1) BY <2>1, <4>2
        <5>2. f[i] = IF i = 0 THEN c
                     ELSE Seed(f[i - 1], sd.outputs[i], sd.grads[i], sd.scale)
          BY <2>4, <5>1
        <5>3. e[i] = f[i] /\ (i # 0 => e[i - 1] = f[i - 1]) BY <2>1, <4>2, <5>1
        <5> QED BY <5>2, <5>3
      <4> QED BY <4>1, <4>2
    <3> HIDE DEF e
    <3>2. e = [i \in 0 .. m |-> e[i]] BY DEF e
    <3> QED BY <3>1, <3>2
  <2> QED BY <2>1, <2>5
<1>2. PICK g : Follows(g, Len(sd.outputs)) BY <1>1
<1> DEFINE after == CHOOSE f : Follows(f, Len(sd.outputs))
<1>3. Follows(after, Len(sd.outputs)) BY <1>2
<1>4. SeedAll(c, sd) = after[Len(sd.outputs)] BY DEF SeedAll
<1> HIDE DEF after
<1>5. /\ after[0] = c
      /\ \A i \in 1 .. Len(sd.outputs) :
           after[i] = Seed(after[i - 1], sd.outputs[i], sd.grads[i], sd.scale)
  <2>1. after[0] = c BY <1>3
  <2>2. ASSUME NEW i \in 1 .. Len(sd.outputs)
        PROVE  after[i] = Seed(after[i - 1], sd.outputs[i], sd.grads[i], sd.scale)
    <3>1. i \in 0 .. Len(sd.outputs) /\ i # 0 OBVIOUS
    <3> HIDE DEF SeedAll
    <3> QED BY <1>3, <3>1
  <2> QED BY <2>1, <2>2
<1> QED BY <1>4, <1>5

\* One output, or two of which the second is given a parameter's value.
LEMMA SeedAllSound ==
  ASSUME NEW c, Sound(c), NEW sd, Len(sd.outputs) \in {1, 2},
         sd.grads[1] # 0 => Span(sd.grads[1]) \in c.held \cup Params,
         Len(sd.outputs) = 2 => Span(sd.grads[2]) \in Params
  PROVE  \E T : Advances(c, SeedAll(c, sd), T, {})
<1>1. Len(sd.outputs) \in Nat OBVIOUS
<1>2. PICK after : /\ after[0] = c /\ SeedAll(c, sd) = after[Len(sd.outputs)]
                   /\ \A i \in 1 .. Len(sd.outputs) :
                        after[i] = Seed(after[i - 1], sd.outputs[i], sd.grads[i], sd.scale)
  BY <1>1, SeedAllSteps
<1> DEFINE d == after[1]
           e == after[2]
<1>3. d = Seed(c, sd.outputs[1], sd.grads[1], sd.scale) BY <1>1, <1>2
<1>4. Advances(c, d, {sd.outputs[1]}, {}) BY <1>3, SeedSound
<1>5. CASE Len(sd.outputs) = 1 BY <1>2, <1>4, <1>5
<1>6. CASE Len(sd.outputs) = 2
  <2>1. e = Seed(d, sd.outputs[2], sd.grads[2], sd.scale) BY <1>2, <1>6
  <2>2. Sound(d) BY <1>4 DEF Advances
  <2> HIDE DEF d
  <2>3. Advances(d, e, {sd.outputs[2]}, {}) BY <1>6, <2>1, <2>2, SeedSound
  <2>4. SeedAll(c, sd) = e BY <1>2, <1>6
  <2> HIDE DEF e
  <2>5. Advances(c, e, {sd.outputs[1]} \cup {sd.outputs[2]}, {}) BY <1>4, <2>3, Onward
  <2> QED BY <2>4, <2>5
<1> QED BY <1>5, <1>6

\* Where a first backward pass starts.
LEMMA StartSound ==
  ASSUME Shape, Core(core), Slots(core), Before
  PROVE  LET c == [core EXCEPT !.refs = LiveSpans] IN
         /\ Sound(c) /\ Ok(c) /\ Accounted(c, {})
         /\ c.held = core.held /\ c.refs = LiveSpans /\ c.lost = {} /\ c.full = <<>>
<1> DEFINE c == [core EXCEPT !.refs = LiveSpans]
<1>1. /\ Whole(c) /\ c.held = core.held /\ c.top = core.top /\ c.mem = core.mem
      /\ c.grads = core.grads /\ c.refs = LiveSpans /\ c.lost = core.lost /\ c.full = core.full
      /\ c.status = core.status
  BY SetRefs DEF Core
<1> HIDE DEF c
<1>2. Core(c) BY <1>1 DEF Core
<1>3. DOMAIN c.grads = {} BY <1>1 DEF Before
<1>4. Slots(c) BY <1>3 DEF Slots
<1> DEFINE At(s) == {x \in Occurrences : SpanAt(x) = s}
<1>5. /\ DOMAIN LiveSpans = {SpanAt(x) : x \in Occurrences} \cap Scratch
      /\ \A s \in DOMAIN LiveSpans : LiveSpans[s] = Cardinality(At(s))
  BY DEF LiveSpans
<1>6. \A s : IsFiniteSet(At(s)) BY OccurrencesFinite, FS_Subset
<1>7. ASSUME NEW s, LiveStorageActive(c, s) PROVE s \in core.held
  <2>1. s \in DOMAIN LiveSpans BY <1>1, <1>7 DEF LiveStorageActive
  <2>2. PICK x \in Occurrences : s = SpanAt(x) /\ s \in Scratch BY <1>5, <2>1
  <2>3. s = Span(TensorAt(x)) /\ TensorAt(x) \in TensorId BY <2>2, OccurrencesFinite
  <2> QED BY <2>2, <2>3 DEF Before
<1>8. Live(c)
  <2>1. \A s \in DOMAIN c.refs : c.refs[s] # 0 => s \in c.held BY <1>1, <1>7 DEF LiveStorageActive
  <2> QED BY <1>1, <1>3, <2>1 DEF Live, Before
<1>9. Ok(c) BY <1>1 DEF Before, Ok
<1>10. ASSUME NEW s \in c.held PROVE LiveStorageActive(c, s) \/ s \in OffSpans
  <2>1. PICK t \in TensorId : s = Span(t) BY <1>1, <1>10 DEF Before
  <2>2. CASE OffTape(t) BY <2>1, <2>2 DEF OffSpans
  <2>3. CASE ~ OffTape(t)
    <3>1. PICK i \in DOMAIN tape : t \in ToSet(Refs(tape[i])) BY <2>3 DEF OffTape
    <3>2. PICK p \in DOMAIN Refs(tape[i]) : t = Refs(tape[i])[p] BY <3>1 DEF ToSet
    <3>3. <<i, p>> \in Occurrences BY OccurrencesFinite
    <3>4. SpanAt(<<i, p>>) = s BY <2>1, <3>2 DEF SpanAt
    <3>5. s \in Scratch BY <1>2, Sizes DEF Core, Scratch
    <3>6. s \in DOMAIN LiveSpans BY <1>5, <3>3, <3>4, <3>5
    <3>7. <<i, p>> \in At(s) BY <3>3, <3>4
    <3>8. LiveSpans[s] # 0
      <4> HIDE DEF At
      <4> QED BY <1>5, <1>6, <3>6, <3>7, FS_EmptySet
    <3> QED BY <1>1, <3>6, <3>8 DEF LiveStorageActive
  <2> QED BY <2>2, <2>3
<1>11. Accounted(c, {}) BY <1>10 DEF Accounted
<1>12. c.lost = {} /\ c.full = <<>> BY <1>1 DEF Before
<1> QED BY <1>1, <1>2, <1>4, <1>8, <1>9, <1>11, <1>12 DEF Sound, c

----------------------------------------------------------------------------
(* Forward.                                                                *)

\* Two results in a row lie in two spans.
LEMMA TwoProduced ==
  ASSUME NEW c, Core(c), NEW v \in Value, NEW w \in Value
  PROVE  LET p == Produce(c, v)
             q == Produce(p, w)
         IN  /\ Ok(p) =>
                  /\ Core(p) /\ p.grads = c.grads /\ p.lost = c.lost /\ p.full = c.full
                  /\ Fresh(c) \in Scratch /\ p.held = c.held \cup {Fresh(c)}
                  /\ p.mem[Fresh(c)] = v
                  /\ \A s \in c.held \cup Params : p.mem[s] = c.mem[s]
             /\ Ok(q) =>
                  /\ Core(q) /\ q.grads = c.grads /\ q.lost = c.lost /\ q.full = c.full
                  /\ Fresh(c) \in Scratch /\ Fresh(p) \in Scratch
                  /\ q.held = c.held \cup {Fresh(c), Fresh(p)}
                  /\ q.mem[Fresh(c)] = v /\ q.mem[Fresh(p)] = w
                  /\ \A s \in c.held \cup Params : q.mem[s] = c.mem[s]
<1> DEFINE p == Produce(c, v)
           q == Produce(p, w)
<1>1. v % Prime = v /\ w % Prime = w BY Residues
<1>2. /\ Core(p) /\ p.grads = c.grads /\ p.refs = c.refs /\ p.lost = c.lost /\ p.full = c.full
      /\ \A s \in c.held \cup Params : p.mem[s] = c.mem[s]
      /\ Ok(p) => /\ Ok(c) /\ Fresh(c) \in Scratch /\ Fresh(c) \notin c.held
                  /\ p.held = c.held \cup {Fresh(c)} /\ p.mem[Fresh(c)] = v
  BY <1>1, ProduceEffect
<1> HIDE DEF p
<1>3. /\ Core(q) /\ q.grads = p.grads /\ q.refs = p.refs /\ q.lost = p.lost /\ q.full = p.full
      /\ \A s \in p.held \cup Params : q.mem[s] = p.mem[s]
      /\ Ok(q) => /\ Ok(p) /\ Fresh(p) \in Scratch /\ Fresh(p) \notin p.held
                  /\ q.held = p.held \cup {Fresh(p)} /\ q.mem[Fresh(p)] = w
  BY <1>1, <1>2, ProduceEffect
<1> HIDE DEF q
<1> QED BY <1>2, <1>3 DEF p, q

\* An operator computes an element.
LEMMA ValueOfOp ==
  ASSUME NEW op, NEW x \in Value, NEW y \in Value PROVE Compute(op, x, y) \in Value
<1>1. x + y \in Int /\ x * y \in Int /\ Mask * x \in Int /\ x + Mask * y \in Int
  BY DEF Value, Prime, Mask
<1> QED BY <1>1, Residues DEF Compute

\* The new tensors N of an operator that leaves the core c: each has allocated
\* storage that holds its value, and nothing earlier has changed.
Stored(op, c, N) ==
  /\ Core(c) /\ c.grads = core.grads /\ c.lost = core.lost /\ c.full = core.full
  /\ core.held \subseteq c.held
  /\ \A s \in core.held \cup Params : c.mem[s] = core.mem[s]
  /\ N \in Seq(Tensor) /\ Len(N) = Outputs(op) + (IF Saves(op) THEN 1 ELSE 0)
  /\ \A i \in 1 .. Len(N) : /\ N[i].span \in Scratch => N[i].span \in c.held
                            /\ c.mem[N[i].span] = N[i].val
  /\ \A s \in c.held \ core.held : \E i \in 1 .. Len(N) : s = N[i].span

\* The results of an operator lie in storage of their own, or are a view, and
\* hold what was computed; the storage of earlier tensors keeps its content.
LEMMA ForwardStorage ==
  ASSUME Shape, Core(core), Before,
         NEW op \in {"add", "mul", "dropout", "dropout_add", "split", "reshape"},
         NEW x \in TensorId, NEW y \in TensorId,
         Ok(Written(core, NodeOf(op, x, y), Compute(op, core.mem[Span(x)], core.mem[Span(y)])))
  PROVE  LET n == NodeOf(op, x, y)
             v == Compute(op, core.mem[Span(x)], core.mem[Span(y)])
             c == Written(core, n, v)
             N == NewTensors(core, n, v)
         IN  Stored(op, c, N)
<1> DEFINE n == NodeOf(op, x, y)
           v == Compute(op, core.mem[Span(x)], core.mem[Span(y)])
           c == Written(core, n, v)
           N == NewTensors(core, n, v)
<1> SUFFICES Stored(op, c, N) OBVIOUS
<1>0. Ok(c) OBVIOUS
<1>1. /\ n.op = op /\ n.in[1] = x
      /\ n.saved = IF Saves(op) THEN <<Len(tensors) + 2>> ELSE <<>>
  BY DEF NodeOf
<1>2. n.saved # <<>> <=> Saves(op) BY <1>1
<1>15. \A i \in DOMAIN n.in : n.in[i] \in {x, y}
  <2>1. n.in = IF Binary(op) THEN <<x, y>> ELSE <<x>> BY DEF NodeOf
  <2> QED BY <2>1
<1>13. v = Compute(op, core.mem[Span(x)], core.mem[Span(y)]) OBVIOUS
<1>14. c = Written(core, n, v) /\ N = NewTensors(core, n, v) OBVIOUS
<1> HIDE DEF n, v, c, N
<1>3. /\ core.mem[Span(x)] = tensors[x].val /\ core.mem[Span(y)] = tensors[y].val
      /\ Span(x) \in Scratch => Span(x) \in core.held
  BY DEF Before
<1>4. tensors[x] \in Tensor /\ tensors[y] \in Tensor BY DEF Shape, TensorId
<1>5. Span(x) \in Scratch \cup Params /\ tensors[x].val \in Value /\ tensors[y].val \in Value
  BY <1>4 DEF Tensor, Span
<1>6. v \in Value BY <1>3, <1>5, <1>13, ValueOfOp
<1>7. Mask \in Value BY DEF Mask, Value, Prime
<1>8. Records(n) \in BOOLEAN BY DEF Records
<1> DEFINE p == Produce(core, v)
           q == Produce(p, v)
           r == Produce(p, Mask)
           a == Fresh(core)
           b == Fresh(p)
           dims == UNION {Dims(n.in[i]) : i \in DOMAIN n.in}
           Out(s) == [span |-> s, rg |-> Records(n), dims |-> dims, val |-> v, given |-> TRUE]
           saved == [span |-> b, rg |-> FALSE, dims |-> dims, val |-> Mask, given |-> FALSE]
<1>16. dims \in SUBSET {1, 2} BY <1>4, <1>15 DEF Tensor, Dims
<1>17. /\ op = "split" => N = <<Out(a), Out(b)>>
       /\ op # "split" /\ Saves(op) =>
            N = <<Out(IF op = "reshape" THEN Span(x) ELSE a), saved>>
       /\ op # "split" /\ ~ Saves(op) => N = <<Out(IF op = "reshape" THEN Span(x) ELSE a)>>
  BY <1>1, <1>2, <1>14 DEF NewTensors
<1> HIDE DEF dims
<1>9. CASE op = "reshape"
  <2>1. c = core BY <1>14, <1>1, <1>2, <1>9 DEF Written, Saves
  <2>2. N = <<Out(Span(x))>> BY <1>9, <1>17 DEF Saves
  <2>3. v = core.mem[Span(x)] BY <1>9, <1>13 DEF Compute
  <2>4. Out(Span(x)) \in Tensor /\ Out(Span(x)).span = Span(x) /\ Out(Span(x)).val = v
    BY <1>5, <1>6, <1>8, <1>16 DEF Tensor
  <2> HIDE DEF Out
  <2>5. N \in Seq(Tensor) /\ Len(N) = 1 /\ N[1] = Out(Span(x)) BY <2>2, <2>4
  <2>6. Outputs(op) + (IF Saves(op) THEN 1 ELSE 0) = 1 BY <1>9 DEF Outputs, Saves
  <2>7. \A i \in 1 .. Len(N) : i = 1 BY <2>5
  <2> QED BY <1>3, <2>1, <2>3, <2>4, <2>5, <2>6, <2>7 DEF Stored
<1>10. CASE op = "split"
  <2>1. c = q BY <1>14, <1>1, <1>10 DEF Written
  <2>2. N = <<Out(a), Out(b)>> BY <1>10, <1>17
  <2>3. /\ Core(q) /\ q.grads = core.grads /\ q.lost = core.lost /\ q.full = core.full
        /\ a \in Scratch /\ b \in Scratch
        /\ q.held = core.held \cup {a, b} /\ q.mem[a] = v /\ q.mem[b] = v
        /\ \A s \in core.held \cup Params : q.mem[s] = core.mem[s]
    BY <1>0, <1>6, <2>1, TwoProduced
  <2> HIDE DEF q, a, b
  <2>4. /\ Out(a) \in Tensor /\ Out(a).span = a /\ Out(a).val = v
        /\ Out(b) \in Tensor /\ Out(b).span = b /\ Out(b).val = v
    BY <1>6, <1>8, <1>16, <2>3 DEF Tensor
  <2> HIDE DEF Out
  <2>5. N \in Seq(Tensor) /\ Len(N) = 2 /\ N[1] = Out(a) /\ N[2] = Out(b) BY <2>2, <2>4
  <2>6. Outputs(op) + (IF Saves(op) THEN 1 ELSE 0) = 2 BY <1>10 DEF Outputs, Saves
  <2>7. \A i \in 1 .. Len(N) : i = 1 \/ i = 2 BY <2>5
  <2>8. 1 \in 1 .. Len(N) /\ 2 \in 1 .. Len(N) BY <2>5
  <2> QED BY <2>1, <2>3, <2>4, <2>5, <2>6, <2>7, <2>8 DEF Stored
<1>11. CASE Saves(op)
  <2>1. c = r BY <1>14, <1>1, <1>2, <1>11 DEF Written, Saves
  <2>2. N = <<Out(a), saved>> BY <1>11, <1>17 DEF Saves
  <2>3. /\ Core(r) /\ r.grads = core.grads /\ r.lost = core.lost /\ r.full = core.full
        /\ a \in Scratch /\ b \in Scratch
        /\ r.held = core.held \cup {a, b} /\ r.mem[a] = v /\ r.mem[b] = Mask
        /\ \A s \in core.held \cup Params : r.mem[s] = core.mem[s]
    BY <1>0, <1>6, <1>7, <2>1, TwoProduced
  <2> HIDE DEF r, a, b
  <2>4. /\ Out(a) \in Tensor /\ Out(a).span = a /\ Out(a).val = v
        /\ saved \in Tensor /\ saved.span = b /\ saved.val = Mask
    BY <1>6, <1>7, <1>8, <1>16, <2>3 DEF Tensor
  <2> HIDE DEF Out, saved
  <2>5. N \in Seq(Tensor) /\ Len(N) = 2 /\ N[1] = Out(a) /\ N[2] = saved BY <2>2, <2>4
  <2>6. Outputs(op) + (IF Saves(op) THEN 1 ELSE 0) = 2 BY <1>11 DEF Outputs, Saves
  <2>7. \A i \in 1 .. Len(N) : i = 1 \/ i = 2 BY <2>5
  <2>8. 1 \in 1 .. Len(N) /\ 2 \in 1 .. Len(N) BY <2>5
  <2> QED BY <2>1, <2>3, <2>4, <2>5, <2>6, <2>7, <2>8 DEF Stored
<1>12. CASE op \in {"add", "mul"}
  <2>1. c = p BY <1>14, <1>1, <1>2, <1>12 DEF Written, Saves
  <2>2. N = <<Out(a)>> BY <1>12, <1>17 DEF Saves
  <2>3. /\ Core(p) /\ p.grads = core.grads /\ p.lost = core.lost /\ p.full = core.full
        /\ a \in Scratch /\ p.held = core.held \cup {a} /\ p.mem[a] = v
        /\ \A s \in core.held \cup Params : p.mem[s] = core.mem[s]
    BY <1>0, <1>6, <2>1, TwoProduced
  <2> HIDE DEF p, a
  <2>4. Out(a) \in Tensor /\ Out(a).span = a /\ Out(a).val = v BY <1>6, <1>8, <1>16, <2>3 DEF Tensor
  <2> HIDE DEF Out
  <2>5. N \in Seq(Tensor) /\ Len(N) = 1 /\ N[1] = Out(a) BY <2>2, <2>4
  <2>6. Outputs(op) + (IF Saves(op) THEN 1 ELSE 0) = 1 BY <1>12 DEF Outputs, Saves
  <2>7. \A i \in 1 .. Len(N) : i = 1 BY <2>5
  <2>8. 1 \in 1 .. Len(N) BY <2>5
  <2> QED BY <2>1, <2>3, <2>4, <2>5, <2>6, <2>7, <2>8 DEF Stored
<1> QED BY <1>9, <1>10, <1>11, <1>12 DEF Saves

\* The node of an operator is shaped as the tape wants it.
LEMMA NodeRecorded ==
  ASSUME NEW op \in Ops, NEW x \in TensorId, NEW y \in TensorId, Len(tensors) \in Nat
  PROVE  LET n == NodeOf(op, x, y) IN
         /\ n \in Node /\ n.op = op
         /\ Len(n.in) = (IF Binary(op) THEN 2 ELSE 1) /\ Len(n.out) = Outputs(op)
         /\ Len(n.saved) = (IF Saves(op) THEN 1 ELSE 0)
         /\ \A t \in ToSet(n.in) : t \in TensorId
         /\ \A t \in ToSet(n.out) : t \in Len(tensors) + 1 .. Len(tensors) + Outputs(op)
         /\ \A t \in ToSet(n.saved) : Saves(op) /\ t = Len(tensors) + 2
<1> DEFINE new == Len(tensors)
           in == IF Binary(op) THEN <<x, y>> ELSE <<x>>
           out == [i \in 1 .. Outputs(op) |-> new + i]
           saved == IF Saves(op) THEN <<new + 2>> ELSE <<>>
           n == NodeOf(op, x, y)
<1>1. n = [op |-> op, in |-> in, out |-> out, saved |-> saved] BY DEF NodeOf
<1>2. Outputs(op) \in Nat BY DEF Outputs
<1>3. /\ in \in Seq(Nat) /\ Len(in) = (IF Binary(op) THEN 2 ELSE 1)
      /\ \A t \in ToSet(in) : t \in TensorId
  <2>1. x \in Nat /\ y \in Nat BY DEF TensorId
  <2>2. CASE Binary(op)
    <3>1. in = <<x, y>> BY <2>2
    <3>2. DOMAIN in = {1, 2} /\ in[1] = x /\ in[2] = y BY <3>1
    <3> QED BY <2>1, <2>2, <3>1, <3>2 DEF ToSet
  <2>3. CASE ~ Binary(op)
    <3>1. in = <<x>> BY <2>3
    <3>2. DOMAIN in = {1} /\ in[1] = x BY <3>1
    <3> QED BY <2>1, <2>3, <3>1, <3>2 DEF ToSet
  <2> QED BY <2>2, <2>3
<1>4. /\ out \in Seq(Nat) /\ Len(out) = Outputs(op)
      /\ \A t \in ToSet(out) : t \in new + 1 .. new + Outputs(op)
  <2>1. out \in Seq(Nat) /\ Len(out) = Outputs(op) /\ DOMAIN out = 1 .. Outputs(op) BY <1>2
  <2>2. \A i \in 1 .. Outputs(op) : new + i \in new + 1 .. new + Outputs(op) BY <1>2
  <2> QED BY <2>1, <2>2 DEF ToSet
<1>5. /\ saved \in Seq(Nat) /\ Len(saved) = (IF Saves(op) THEN 1 ELSE 0)
      /\ \A t \in ToSet(saved) : Saves(op) /\ t = new + 2
  <2>1. CASE Saves(op)
    <3>1. saved = <<new + 2>> BY <2>1
    <3>2. DOMAIN saved = {1} /\ saved[1] = new + 2 BY <3>1
    <3> QED BY <2>1, <3>1, <3>2 DEF ToSet
  <2>2. CASE ~ Saves(op)
    <3>1. saved = <<>> BY <2>2
    <3> QED BY <2>2, <3>1 DEF ToSet
  <2> QED BY <2>1, <2>2
<1> HIDE DEF in, out, saved, n
<1>6. n \in Node /\ n.op = op /\ n.in = in /\ n.out = out /\ n.saved = saved
  BY <1>1, <1>3, <1>4, <1>5 DEF Node
<1> QED BY <1>3, <1>4, <1>5, <1>6 DEF n

\* An operator of the forward pass preserves the invariant.
LEMMA ForwardStep ==
  ASSUME AutogradInv, NEW op \in Ops, NEW x \in Given, NEW y \in Given, Forward(op, x, y)
  PROVE  AutogradInv'
<1> DEFINE n == NodeOf(op, x, y)
           v == Compute(op, core.mem[Span(x)], core.mem[Span(y)])
           c == Written(core, n, v)
           N == NewTensors(core, n, v)
           new == Len(tensors)
<1>1. /\ phase = "forward" /\ Ok(c) /\ core' = c /\ tensors' = tensors \o N
      /\ tape' = (IF Records(n) THEN Append(tape, n) ELSE tape)
      /\ UNCHANGED <<mode, userEnabled, recording, phase, walk, seeds, backwards>>
  BY DEF Forward
<1>2. Shape /\ Core(core) /\ Before BY <1>1 DEF AutogradInv
<1>3. x \in TensorId /\ y \in TensorId BY DEF Given
<1>4. op \in {"add", "mul", "dropout", "dropout_add", "split", "reshape"} BY AutogradAssumption
<1>5. /\ Core(c) /\ c.grads = core.grads /\ c.lost = core.lost /\ c.full = core.full
      /\ core.held \subseteq c.held
      /\ \A s \in core.held \cup Params : c.mem[s] = core.mem[s]
      /\ N \in Seq(Tensor) /\ Len(N) = Outputs(op) + (IF Saves(op) THEN 1 ELSE 0)
      /\ \A i \in 1 .. Len(N) : /\ N[i].span \in Scratch => N[i].span \in c.held
                                /\ c.mem[N[i].span] = N[i].val
      /\ \A s \in c.held \ core.held : \E i \in 1 .. Len(N) : s = N[i].span
  <2>1. Ok(c) BY <1>1
  <2>2. Stored(op, c, N) BY <1>2, <1>3, <1>4, <2>1, ForwardStorage
  <2> HIDE DEF n, v, c, N
  <2> QED BY <2>2 DEF Stored
<1>6. tensors \in Seq(Tensor) /\ new \in Nat BY <1>2 DEF Shape
<1>7. /\ n \in Node /\ n.op = op
      /\ Len(n.in) = (IF Binary(op) THEN 2 ELSE 1) /\ Len(n.out) = Outputs(op)
      /\ Len(n.saved) = (IF Saves(op) THEN 1 ELSE 0)
      /\ \A t \in ToSet(n.in) : t \in TensorId
      /\ \A t \in ToSet(n.out) : t \in new + 1 .. new + Outputs(op)
      /\ \A t \in ToSet(n.saved) : Saves(op) /\ t = new + 2
  BY <1>3, <1>6, NodeRecorded
<1> HIDE DEF n, v, c, N
<1>8. /\ tensors' \in Seq(Tensor) /\ Len(tensors') = new + Len(N)
      /\ \A t \in 1 .. new : tensors'[t] = tensors[t]
      /\ \A i \in 1 .. Len(N) : tensors'[new + i] = N[i]
  BY <1>1, <1>5, <1>6
<1>9. Len(N) \in Nat BY <1>5
<1>10. /\ \A t \in TensorId : t \in TensorId' /\ Span(t)' = Span(t) /\ tensors'[t] = tensors[t]
       /\ \A t \in TensorId' : t \in TensorId \/ \E i \in 1 .. Len(N) : t = new + i
       /\ \A i \in 1 .. Len(N) : new + i \in TensorId'
  <2>1. TensorId = 1 .. new /\ TensorId' = 1 .. new + Len(N) BY <1>8 DEF TensorId
  <2>2. \A t \in 1 .. new : t \in 1 .. new + Len(N) BY <1>6, <1>9
  <2>3. \A i \in 1 .. Len(N) : new + i \in 1 .. new + Len(N) BY <1>6, <1>9
  <2>4. ASSUME NEW t \in 1 .. new + Len(N), t \notin 1 .. new
        PROVE  t - new \in 1 .. Len(N) /\ t = new + (t - new)
    BY <1>6, <1>9, <2>4
  <2> QED BY <1>8, <2>1, <2>2, <2>3, <2>4 DEF Span
<1>11. Before'
  <2>1. Ok(core)' /\ core'.grads = <<>> /\ core'.lost = {} /\ core'.full = <<>>
    BY <1>1, <1>2, <1>5 DEF Before, Ok
  <2>2. ASSUME NEW t \in TensorId'
        PROVE  /\ Span(t)' \in Scratch => Span(t)' \in core'.held
               /\ core'.mem[Span(t)'] = tensors'[t].val
    <3>1. CASE t \in TensorId
      <4>1. Span(t)' = Span(t) /\ tensors'[t] = tensors[t] BY <1>10, <3>1
      <4>2. Span(t) \in Scratch => Span(t) \in core.held BY <1>2, <3>1 DEF Before
      <4>3. core.mem[Span(t)] = tensors[t].val BY <1>2, <3>1 DEF Before
      <4>4. Span(t) \in Scratch \cup Params
        <5>1. tensors[t] \in Tensor BY <1>6, <3>1 DEF TensorId
        <5> QED BY <5>1 DEF Tensor, Span
      <4> QED BY <1>1, <1>5, <4>1, <4>2, <4>3, <4>4
    <3>2. CASE \E i \in 1 .. Len(N) : t = new + i
      <4>1. PICK i \in 1 .. Len(N) : t = new + i BY <3>2
      <4>2. Span(t)' = N[i].span /\ tensors'[t] = N[i] BY <1>8, <4>1 DEF Span
      <4> QED BY <1>1, <1>5, <4>2
    <3> QED BY <1>10, <3>1, <3>2
  <2>3. ASSUME NEW s \in core'.held PROVE \E t \in TensorId' : s = Span(t)'
    <3>1. CASE s \in core.held
      <4>1. PICK t \in TensorId : s = Span(t) BY <1>2, <3>1 DEF Before
      <4> QED BY <1>10, <4>1
    <3>2. CASE s \notin core.held
      <4>1. PICK i \in 1 .. Len(N) : s = N[i].span BY <1>1, <1>5, <2>3, <3>2
      <4>2. PICK t \in TensorId' : t = new + i BY <1>10
      <4>3. Span(t)' = s BY <1>8, <4>1, <4>2 DEF Span
      <4> QED BY <4>3
    <3> QED BY <3>1, <3>2
  <2>4. core'.held \subseteq {Span(t) : t \in TensorId}' BY <2>3
  <2> QED BY <2>1, <2>2, <2>4 DEF Before
<1>12. NodeOK(n, Len(tensors'))
  <2>1. Outputs(op) \in 1 .. 2 BY DEF Outputs
  <2>2. Len(N) = Outputs(op) \/ (Saves(op) /\ Len(N) = 2) BY <1>5 DEF Outputs, Saves
  <2>3. TensorId' = 1 .. new + Len(N) /\ TensorId = 1 .. new BY <1>8 DEF TensorId
  <2>4. \A t \in ToSet(n.out) : t \in TensorId'
    <3>1. Outputs(op) \in Nat /\ Outputs(op) <= Len(N) BY <1>5, <1>9, <2>1 DEF Saves
    <3>2. \A t \in new + 1 .. new + Outputs(op) : t \in 1 .. new + Len(N)
      BY <1>6, <1>9, <3>1
    <3> QED BY <1>7, <2>3, <3>2
  <2>5. \A t \in ToSet(n.saved) : t \in TensorId'
    <3>1. Saves(op) => Len(N) = 2 BY <1>5 DEF Saves, Outputs
    <3>2. new + 2 \in 1 .. new + 2 BY <1>6
    <3>3. Saves(op) => new + 2 \in 1 .. new + Len(N) BY <3>1, <3>2
    <3> QED BY <1>7, <2>3, <3>3
  <2>6. \A t \in ToSet(n.in) : t \in TensorId' BY <1>7, <1>10
  <2>7. \A t \in 1 .. new : \A u \in new + 1 .. new + Outputs(op) : t < u BY <1>6, <2>1
  <2>8. \A t \in ToSet(n.in) : \A u \in ToSet(n.out) : t < u BY <1>7, <2>3, <2>7
  <2>9. TensorId' = 1 .. Len(tensors') BY DEF TensorId
  <2> QED BY <1>7, <2>4, <2>5, <2>6, <2>8, <2>9 DEF NodeOK
<1>13. Len(tensors') \in Nat /\ \A t \in 1 .. new : t \in 1 .. Len(tensors') BY <1>6, <1>8, <1>9
<1>14. \A m : NodeOK(m, new) => NodeOK(m, Len(tensors')) BY <1>13 DEF NodeOK
<1>15. Shape'
  <2>1. tape \in Seq(Node) /\ Len(tape) \in Nat /\ DOMAIN tape = 1 .. Len(tape) BY <1>2 DEF Shape
  <2>2. tensors' # <<>> => tensors'[1].span \in Params
    <3>1. tensors # <<>> /\ 1 \in 1 .. new BY <1>3, <1>6 DEF TensorId
    <3> QED BY <1>2, <1>8, <3>1 DEF Shape
  <2>3. CASE ~ Records(n)
    <3>1. tape' = tape BY <1>1, <2>3
    <3>2. \A i \in DOMAIN tape' : NodeOK(tape'[i], Len(tensors')) BY <1>2, <1>14, <3>1 DEF Shape
    <3> QED BY <1>2, <1>8, <2>1, <2>2, <3>1, <3>2 DEF Shape
  <2>4. CASE Records(n)
    <3>1. tape' = Append(tape, n) BY <1>1, <2>4
    <3>2. /\ tape' \in Seq(Node) /\ Len(tape') = Len(tape) + 1
          /\ \A i \in 1 .. Len(tape) : tape'[i] = tape[i]
          /\ tape'[Len(tape) + 1] = n
      BY <1>7, <2>1, <3>1
    <3>3. DOMAIN tape' = 1 .. Len(tape) + 1 BY <2>1, <3>2
    <3>4. \A i \in 1 .. Len(tape) + 1 : i \in 1 .. Len(tape) \/ i = Len(tape) + 1 BY <2>1
    <3>5. \A i \in DOMAIN tape' : NodeOK(tape'[i], Len(tensors'))
      BY <1>2, <1>12, <1>14, <2>1, <3>2, <3>3, <3>4 DEF Shape
    <3>6. ASSUME NEW i \in DOMAIN tape', NEW j \in DOMAIN tape', i < j,
                 NEW t \in ToSet(tape'[i].out), NEW u \in ToSet(tape'[j].out)
          PROVE  t < u
      <4>1. i \in 1 .. Len(tape) BY <2>1, <3>3, <3>6
      <4>2. t \in ToSet(tape[i].out) BY <3>2, <3>6, <4>1
      <4>3. CASE j \in 1 .. Len(tape) BY <1>2, <2>1, <3>2, <3>6, <4>1, <4>2, <4>3 DEF Shape
      <4>4. CASE j = Len(tape) + 1
        <5>1. u \in new + 1 .. new + Outputs(op) BY <1>7, <3>2, <3>6, <4>4
        <5>2. t \in 1 .. new BY <1>2, <2>1, <4>1, <4>2 DEF Shape, NodeOK, TensorId
        <5>3. Outputs(op) \in Nat BY DEF Outputs
        <5> QED BY <1>6, <5>1, <5>2, <5>3
      <4> QED BY <3>3, <3>4, <4>3, <4>4
    <3> QED BY <1>8, <2>2, <3>2, <3>5, <3>6 DEF Shape
  <2> QED BY <2>3, <2>4
<1>16. Core(core)' /\ Slots(core)'
  <2>1. DOMAIN core'.grads = {} BY <1>1, <1>2, <1>5 DEF Before
  <2> QED BY <1>1, <1>5, <2>1 DEF Slots
<1>17. NothingLeft' BY <1>1 DEF NothingLeft
<1> QED BY <1>1, <1>11, <1>15, <1>16, <1>17 DEF AutogradInv

----------------------------------------------------------------------------
(* Backward.                                                               *)

\* What only depends on tensors and tape stays true while these stay.
LEMMA SameTape ==
  ASSUME UNCHANGED <<tensors, tape>>
  PROVE  /\ Shape => Shape'
         /\ \A c : Sound(c)' <=> Sound(c)
         /\ OffSpans' = OffSpans /\ \A c, T : Accounted(c, T)' <=> Accounted(c, T)
         /\ Occurrences' = Occurrences
         /\ \A x : SpanAt(x)' = SpanAt(x) /\ TensorAt(x)' = TensorAt(x)
         /\ \A c, k : Consumed(c, k)' <=> Consumed(c, k)
         /\ \A c, k : Fulls(c, k)' <=> Fulls(c, k)
         /\ \A n : Unreduced(n)' = Unreduced(n)
<1>1. Shape => Shape' BY DEF Shape
<1>2. TensorId' = TensorId /\ \A t : Span(t)' = Span(t) BY DEF TensorId, Span
<1>3. \A c : Sound(c)' <=> Sound(c) BY <1>2 DEF Sound, Core, Slots, Live
<1>4. \A t : OffTape(t)' <=> OffTape(t) BY DEF OffTape
<1>5. OffSpans' = OffSpans BY <1>2, <1>4 DEF OffSpans
<1>6. \A c, T : Accounted(c, T)' <=> Accounted(c, T) BY <1>5 DEF Accounted
<1>7. Occurrences' = Occurrences BY DEF Occurrences
<1>8. \A x : SpanAt(x)' = SpanAt(x) /\ TensorAt(x)' = TensorAt(x)
  BY <1>2 DEF SpanAt, TensorAt, Span
<1>9. \A c, k : Consumed(c, k)' <=> Consumed(c, k) BY DEF Consumed
<1>10. \A n : Unreduced(n)' = Unreduced(n)
  BY DEF Unreduced, NeedsGrad, Unfused, Reduces, Fused, Dims, Times, Repeats
<1>11. \A c, k : Fulls(c, k)' <=> Fulls(c, k) BY <1>10 DEF Fulls
<1> QED BY <1>1, <1>3, <1>5, <1>6, <1>7, <1>8, <1>9, <1>10, <1>11

\* Where a reference of the tape is.
LEMMA PlaceOfOccurrence ==
  ASSUME Shape, NEW x \in Occurrences
  PROVE  /\ x[1] \in DOMAIN tape /\ x[1] \in 1 .. Len(tape) /\ Len(tape) \in Nat
         /\ x[2] \in 1 .. Len(Refs(tape[x[1]])) /\ Len(Refs(tape[x[1]])) \in Nat
<1>1. PICK i \in DOMAIN tape : \E p \in DOMAIN Refs(tape[i]) : x = <<i, p>> BY OccurrencesFinite
<1>2. PICK p \in DOMAIN Refs(tape[i]) : x = <<i, p>> BY <1>1
<1>3. x[1] = i /\ x[2] = p BY <1>2
<1>4. p \in 1 .. Len(Refs(tape[i])) /\ Len(Refs(tape[i])) \in 1 .. 5 BY RefsOfNode
<1>5. DOMAIN tape = 1 .. Len(tape) /\ Len(tape) \in Nat BY DEF Shape
<1> QED BY <1>3, <1>4, <1>5

\* gd_backward up to its loop preserves the invariant.
LEMMA StartStep ==
  ASSUME AutogradInv, MaxBackward <= 1, NEW sd, Start(sd), sd.outputs \in Seq(Nat),
         Len(sd.outputs) \in {1, 2}, sd.grads[1] # 0 => sd.grads[1] \in TensorId,
         Len(sd.outputs) = 2 => Span(sd.grads[2]) \in Params
  PROVE  AutogradInv'
<1> DEFINE a == [core EXCEPT !.refs = LiveSpans]
           c == SeedAll(a, sd)
<1>1. /\ phase \in {"forward", "done"} /\ backwards < MaxBackward /\ backwards' = backwards + 1
      /\ seeds' = sd /\ core' = c /\ walk' = Len(tape)
      /\ phase' = (IF ~ Ok(c) THEN "failed" ELSE IF tape = <<>> THEN "done" ELSE "backward")
      /\ tensors' = tensors /\ tape' = tape
  BY DEF Start
<1>2. phase = "forward" /\ backwards' \in Nat /\ backwards' > 0
  <2>1. backwards \in Nat /\ MaxBackward \in Nat BY AutogradAssumption DEF AutogradInv
  <2>2. ~ (backwards > 0) BY <1>1, <2>1
  <2> QED BY <1>1, <2>1, <2>2 DEF AutogradInv
<1>3. Shape /\ Core(core) /\ Slots(core) /\ Before BY <1>2 DEF AutogradInv
<1>4. /\ Sound(a) /\ Ok(a) /\ Accounted(a, {})
      /\ a.held = core.held /\ a.refs = LiveSpans /\ a.lost = {} /\ DOMAIN a.full = {}
  BY <1>3, StartSound
<1> HIDE DEF a
<1>5. sd.grads[1] # 0 => Span(sd.grads[1]) \in a.held \cup Params
  <2>1. ASSUME NEW t \in TensorId PROVE Span(t) \in a.held \cup Params
    <3>1. tensors[t] \in Tensor BY <1>3 DEF Shape, TensorId
    <3>2. Span(t) \in Scratch \cup Params BY <3>1 DEF Tensor, Span
    <3>3. Span(t) \in Scratch => Span(t) \in core.held BY <1>3 DEF Before
    <3> QED BY <1>4, <3>2, <3>3
  <2> QED BY <2>1
<1>6. PICK T : Advances(a, c, T, {}) BY <1>4, <1>5, SeedAllSound
<1> HIDE DEF c
<1>7. /\ Sound(c) /\ c.refs = LiveSpans /\ c.lost = {} /\ DOMAIN c.full = {}
      /\ Accounted(c, {})
  BY <1>4, <1>6 DEF Advances
<1>8. /\ Shape' /\ (\A d : Sound(d)' <=> Sound(d)) /\ OffSpans' = OffSpans
      /\ \A d, S : Accounted(d, S)' <=> Accounted(d, S)
      /\ Occurrences' = Occurrences /\ \A x : SpanAt(x)' = SpanAt(x)
  BY <1>1, <1>3, SameTape
<1>9. Core(core)' /\ Slots(core)' BY <1>1, <1>7 DEF Sound, Slots
<1>10. CASE ~ Ok(c)
  <2>1. phase' = "failed" BY <1>1, <1>10
  <2> QED BY <1>2, <1>8, <1>9, <2>1 DEF AutogradInv, NothingLeft
<1>11. CASE Ok(c) /\ tape = <<>>
  <2>1. phase' = "done" /\ DOMAIN tape = {} BY <1>1, <1>11
  <2>2. Occurrences = {} BY <2>1 DEF Occurrences
  <2>3. DOMAIN c.refs = {} BY <1>7, <2>2 DEF LiveSpans
  <2>4. \A s \in c.held : s \in Range(c.grads) \cup OffSpans
    BY <1>7, <1>11, <2>3 DEF Accounted, GradStorageActive, LiveStorageActive, Range
  <2>5. core'.held \subseteq core'.lost \cup Range(core'.grads)
            \cup {Span(t) : t \in ToSet(seeds.outputs)}' \cup OffSpans'
            /\ DOMAIN core'.full = {}
    BY <1>1, <1>7, <1>8, <2>4
  <2>6. NothingLeft' BY <1>1, <2>1, <2>5 DEF NothingLeft, OffSpans
  <2> QED BY <1>2, <1>8, <1>9, <2>1, <2>6 DEF AutogradInv
<1>12. CASE Ok(c) /\ tape # <<>>
  <2>1. phase' = "backward" BY <1>1, <1>12
  <2>2. Ok(core)' /\ Sound(core)' /\ Accounted(core, {})'
    <3>1. TensorId' = TensorId /\ \A t : Span(t)' = Span(t) BY <1>1 DEF TensorId, Span
    <3> QED BY <1>1, <1>7, <1>8, <1>12, <3>1
         DEF Sound, Live, Slots, Core, Accounted, Ok, LiveStorageActive, GradStorageActive
  <2>3. Len(tape) \in DOMAIN tape /\ Len(tape) \in Nat BY <1>3, <1>12 DEF Shape
  <2>4. \A s : Left(walk, 0, s)' = {x \in Occurrences : SpanAt(x) = s}
    <3>1. \A x \in Occurrences : x[1] < Len(tape) \/ (x[1] = Len(tape) /\ x[2] > 0)
      <4> SUFFICES ASSUME NEW x \in Occurrences
                   PROVE  x[1] < Len(tape) \/ (x[1] = Len(tape) /\ x[2] > 0)
        OBVIOUS
      <4> QED BY <1>3, PlaceOfOccurrence
    <3> QED BY <1>1, <1>8, <3>1 DEF Left
  <2>5. Counts(core, walk, 0)'
    <3>1. DOMAIN c.refs = {SpanAt(x) : x \in Occurrences} \cap Scratch
          /\ \A s \in DOMAIN c.refs : c.refs[s] = Cardinality({x \in Occurrences : SpanAt(x) = s})
      BY <1>7 DEF LiveSpans
    <3>2. {SpanAt(x) : x \in Occurrences}' = {SpanAt(x) : x \in Occurrences} BY <1>8
    <3> QED BY <1>1, <2>4, <3>1, <3>2 DEF Counts
  <2>6. Consumed(core, walk)'
    <3>1. \A i \in DOMAIN tape : ~ (i > Len(tape)) BY <1>3 DEF Shape
    <3> QED BY <1>1, <3>1 DEF Consumed
  <2>7. Fulls(core, walk)' BY <1>1, <1>7 DEF Fulls
  <2>8. During' BY <1>1, <2>2, <2>3, <2>5, <2>6, <2>7 DEF During
  <2> QED BY <1>2, <1>8, <1>9, <2>1, <2>8 DEF AutogradInv, NothingLeft
<1> QED BY <1>10, <1>11, <1>12

\* A turn of the loop preserves the invariant.
LEMMA VisitStep ==
  ASSUME AutogradInv, BackwardVisit PROVE AutogradInv'
<1> DEFINE n == tape[walk]
           L == Len(Refs(n))
           c == Visit(core, n)
<1>1. /\ phase = "backward" /\ core' = c /\ walk' = walk - 1
      /\ IF ~ Ok(c) THEN phase' = "failed"
         ELSE IF walk = 1 THEN phase' = "done" ELSE phase' = phase
      /\ tensors' = tensors /\ tape' = tape /\ seeds' = seeds /\ backwards' = backwards
  BY DEF BackwardVisit, Finish
<1>2. Shape /\ During /\ backwards \in Nat /\ backwards > 0 BY <1>1 DEF AutogradInv
<1>3. /\ Sound(c) /\ Accounted(c, {})
      /\ Ok(c) => Counts(c, walk, L) /\ Consumed(c, walk - 1)
      /\ Fulls(c, walk - 1)
  BY <1>2, VisitSound DEF During
<1>4. walk \in 1 .. Len(tape) /\ Len(tape) \in Nat /\ DOMAIN tape = 1 .. Len(tape)
  BY <1>2 DEF During, Shape
<1> HIDE DEF c
<1>5. /\ Shape' /\ (\A d : Sound(d)' <=> Sound(d)) /\ OffSpans' = OffSpans
      /\ \A d, S : Accounted(d, S)' <=> Accounted(d, S)
      /\ Occurrences' = Occurrences /\ \A x : SpanAt(x)' = SpanAt(x) /\ TensorAt(x)' = TensorAt(x)
      /\ \A d, k : Fulls(d, k)' <=> Fulls(d, k)
      /\ \A m : Unreduced(m)' = Unreduced(m)
  BY <1>1, <1>2, SameTape
<1>6. Core(core)' /\ Slots(core)' BY <1>1, <1>3 DEF Sound, Slots
\* The references left behind node walk are those of the nodes before it.
<1>7. ASSUME NEW x \in Occurrences
      PROVE  /\ (x[1] < walk \/ (x[1] = walk /\ x[2] > L)) <=> x[1] < walk
             /\ x[1] < walk <=> x[1] < walk - 1 \/ (x[1] = walk - 1 /\ x[2] > 0)
  <2>1. /\ x[1] \in 1 .. Len(tape)
        /\ x[2] \in 1 .. Len(Refs(tape[x[1]])) /\ Len(Refs(tape[x[1]])) \in Nat
    BY <1>2, PlaceOfOccurrence
  <2>2. x[1] = walk => x[2] \in 1 .. L /\ L \in Nat BY <2>1
  <2> HIDE DEF L
  <2>3. x[1] = walk => ~ (x[2] > L) BY <2>2
  <2>4. x[1] \in Int /\ walk \in Int /\ x[2] > 0
    <3>1. \A k \in Nat : \A p \in 1 .. k : p \in Int /\ p > 0 OBVIOUS
    <3> QED BY <1>4, <2>1, <3>1
  <2>5. x[1] < walk <=> x[1] < walk - 1 \/ x[1] = walk - 1 BY <2>4
  <2> QED BY <2>3, <2>4, <2>5
<1>8. CASE ~ Ok(c)
  <2>1. phase' = "failed" BY <1>1, <1>8
  <2> QED BY <1>1, <1>2, <1>5, <1>6, <2>1 DEF AutogradInv, NothingLeft
<1>9. CASE Ok(c) /\ walk = 1
  <2>1. phase' = "done" BY <1>1, <1>9
  <2>2. \A t \in DOMAIN c.grads : \A i \in DOMAIN tape : t \notin ToSet(tape[i].out)
    <3>1. \A i \in DOMAIN tape : i > walk - 1 BY <1>4, <1>9
    <3> QED BY <1>3, <1>9, <3>1 DEF Consumed
  <2>3. ASSUME NEW s \in c.held, LiveStorageActive(c, s)
        PROVE  \E t \in ToSet(seeds.outputs) : s = Span(t)
    <3>1. c.refs[s] = Cardinality(Left(walk, L, s)) /\ c.refs[s] # 0
      BY <1>3, <1>9, <2>3 DEF Counts, LiveStorageActive
    <3>2. Left(walk, L, s) # {} BY <3>1, FS_EmptySet
    <3>3. PICK x \in Left(walk, L, s) : TRUE BY <3>2
    <3>4. /\ x \in Occurrences /\ SpanAt(x) = s
          /\ x[1] < walk \/ (x[1] = walk /\ x[2] > L) \/ Contains(seeds.outputs, TensorAt(x))
      BY <3>3 DEF Left
    <3>5. ~ (x[1] < walk)
      <4>1. x[1] \in 1 .. Len(tape) BY <1>2, <3>4, PlaceOfOccurrence
      <4> QED BY <1>4, <1>9, <4>1
    <3>6. Contains(seeds.outputs, TensorAt(x)) BY <1>7, <3>4, <3>5
    <3>7. seeds.outputs \in Seq(Nat) BY <1>2 DEF During
    <3>8. TensorAt(x) \in ToSet(seeds.outputs) BY <3>6, <3>7 DEF Contains, ToSet
    <3> QED BY <1>2, <3>4, <3>8, OccurrencesFinite
  <2>4. \A s \in c.held : s \in c.lost \cup Range(c.grads)
                               \cup {Span(t) : t \in ToSet(seeds.outputs)} \cup OffSpans
                               \cup Range(c.full)
    BY <1>3, <1>9, <2>3 DEF Accounted, GradStorageActive, Range
  <2>5. {Span(t) : t \in ToSet(seeds.outputs)}' = {Span(t) : t \in ToSet(seeds.outputs)}
    BY <1>1 DEF Span
  <2>6. DOMAIN c.full \subseteq UNION {Unreduced(tape[i]) : i \in DOMAIN tape}
    BY <1>3 DEF Fulls
  <2>7. (UNION {Unreduced(tape[i]) : i \in DOMAIN tape})'
          = UNION {Unreduced(tape[i]) : i \in DOMAIN tape}
    BY <1>1, <1>5
  <2>8. NothingLeft' BY <1>1, <1>5, <2>1, <2>2, <2>4, <2>5, <2>6, <2>7 DEF NothingLeft, OffSpans
  <2> QED BY <1>1, <1>2, <1>5, <1>6, <2>1, <2>8 DEF AutogradInv
<1>10. CASE Ok(c) /\ walk # 1
  <2>1. phase' = "backward" BY <1>1, <1>10
  <2>2. Ok(core)' /\ Sound(core)' /\ Accounted(core, {})'
    <3>1. TensorId' = TensorId /\ \A t : Span(t)' = Span(t) BY <1>1 DEF TensorId, Span
    <3> QED BY <1>1, <1>3, <1>5, <1>10, <3>1
         DEF Sound, Live, Slots, Core, Accounted, Ok, LiveStorageActive, GradStorageActive
  <2>3. walk' \in DOMAIN tape' BY <1>1, <1>4, <1>10
  <2>4. \A s : Left(walk, 0, s)' = Left(walk, L, s) BY <1>1, <1>5, <1>7 DEF Left
  <2>5. Counts(core, walk, 0)'
    <3>1. {SpanAt(x) : x \in Occurrences}' = {SpanAt(x) : x \in Occurrences} BY <1>5
    <3> QED BY <1>1, <1>3, <1>10, <2>4, <3>1 DEF Counts
  <2>6. Consumed(core, walk)' BY <1>1, <1>3, <1>10 DEF Consumed
  <2>7. Fulls(core, walk)' BY <1>1, <1>3, <1>5
  <2>8. During' BY <1>1, <1>2, <2>2, <2>3, <2>5, <2>6, <2>7 DEF During
  <2> QED BY <1>1, <1>2, <1>5, <1>6, <2>1, <2>8 DEF AutogradInv, NothingLeft
<1> QED BY <1>8, <1>9, <1>10

----------------------------------------------------------------------------
(* Sums.                                                                   *)

\* The element that a fold takes first, and a fold over the subsets of S.
First(s) == CHOOSE x \in s : TRUE
Folded(f, S, g) == g = [s \in SUBSET S |-> IF s = {} THEN 0 ELSE f[First(s)] + g[s \ {First(s)}]]

\* The library's sum is such a fold.
LEMMA SumIs ==
  ASSUME NEW f, NEW S PROVE SumFunctionOnSet(f, S) = (CHOOSE g : Folded(f, S, g))[S]
BY DEF SumFunctionOnSet, FoldFunctionOnSet, MapThenFoldSet, Folded, First

\* Of finite sets there is a smallest.
LEMMA SmallestSet ==
  ASSUME NEW P, P # {}, \A s \in P : IsFiniteSet(s)
  PROVE  \E s \in P : \A r \in P : Cardinality(s) <= Cardinality(r)
<1> DEFINE sizes == {Cardinality(s) : s \in P}
<1>1. sizes \subseteq Nat /\ sizes # {} BY FS_CardinalityType
<1>2. PICK n \in sizes : \A m \in sizes : n <= m BY <1>1, LeastElement
<1> QED BY <1>2

\* A set without one of its elements is smaller.
LEMMA Smaller ==
  ASSUME NEW s, IsFiniteSet(s), NEW x \in s
  PROVE  /\ IsFiniteSet(s \ {x}) /\ Cardinality(s) \in Nat
         /\ Cardinality(s \ {x}) = Cardinality(s) - 1 /\ ~ (Cardinality(s) <= Cardinality(s \ {x}))
<1>1. IsFiniteSet(s \ {x}) /\ Cardinality(s \ {x}) = Cardinality(s) - 1 BY FS_RemoveElement
<1>2. Cardinality(s) \in Nat BY FS_CardinalityType
<1> QED BY <1>1, <1>2

\* A set that is not empty has a first element.
LEMMA FirstIn == ASSUME NEW s, s # {} PROVE First(s) \in s
BY DEF First

\* There is a fold over the subsets of a finite set.
LEMMA FoldExists == ASSUME NEW f, NEW S, IsFiniteSet(S) PROVE \E g : Folded(f, S, g)
<1> DEFINE Upto(n) == {s \in SUBSET S : Cardinality(s) <= n}
           Value1(g, s) == IF s = {} THEN 0 ELSE f[First(s)] + g[s \ {First(s)}]
           Part(g, n) == g = [s \in Upto(n) |-> Value1(g, s)]
           bad == {n \in Nat : ~ \E g : Part(g, n)}
<1>1. \A s \in SUBSET S : IsFiniteSet(s) /\ Cardinality(s) \in Nat /\ Cardinality(s) <= Cardinality(S)
  BY FS_Subset, FS_CardinalityType
<1>2. ASSUME NEW n \in Nat, NEW h, n # 0 => Part(h, n - 1) PROVE \E g : Part(g, n)
  <2> DEFINE g == [s \in Upto(n) |-> Value1(h, s)]
  <2>1. ASSUME NEW s \in Upto(n) PROVE Value1(h, s) = Value1(g, s)
    <3>1. CASE s = {} BY <3>1
    <3>2. CASE s # {}
      <4> DEFINE r == s \ {First(s)}
      <4>1. First(s) \in s /\ IsFiniteSet(s) BY <1>1, <3>2, FirstIn
      <4>2. Cardinality(r) = Cardinality(s) - 1 /\ Cardinality(r) \in Nat /\ r \in SUBSET S
        BY <1>1, <4>1, Smaller
      <4>3. n # 0 /\ Cardinality(r) <= n - 1 /\ Cardinality(r) <= n BY <1>1, <4>2
      <4>4. h[r] = Value1(h, r) /\ g[r] = Value1(h, r)
        <5>1. r \in Upto(n - 1) /\ r \in Upto(n) BY <4>2, <4>3
        <5>2. Part(h, n - 1) BY <1>2, <4>3
        <5> HIDE DEF Upto, Value1, r
        <5> QED BY <5>1, <5>2
      <4> HIDE DEF g
      <4> QED BY <3>2, <4>4
    <3> QED BY <3>1, <3>2
  <2> HIDE DEF Upto, Value1
  <2>2. g = [s \in Upto(n) |-> Value1(g, s)] BY <2>1
  <2> QED BY <2>2
<1>3. bad = {}
  <2> SUFFICES ASSUME bad # {} PROVE FALSE OBVIOUS
  <2> HIDE DEF Part
  <2>1. PICK n \in bad : \A m \in bad : n <= m BY LeastElement
  <2>2. n # 0 => n - 1 \in Nat /\ ~ (n <= n - 1) BY <2>1
  <2>3. n # 0 => \E h : Part(h, n - 1) BY <2>1, <2>2
  <2> QED BY <1>2, <2>1, <2>3
<1>4. PICK g : Part(g, Cardinality(S)) BY <1>3, FS_CardinalityType
<1>5. Upto(Cardinality(S)) = SUBSET S BY <1>1
<1>6. Folded(f, S, g) BY <1>4, <1>5 DEF Folded
<1> QED BY <1>6

\* A sum over a set is its first element and the sum over the rest.
LEMMA SumFirst ==
  ASSUME NEW f, NEW S, IsFiniteSet(S)
  PROVE  SumFunctionOnSet(f, S) =
           IF S = {} THEN 0 ELSE f[First(S)] + SumFunctionOnSet(f, S \ {First(S)})
<1> DEFINE T == S \ {First(S)}
           g == CHOOSE k : Folded(f, S, k)
           h == CHOOSE k : Folded(f, T, k)
<1>1. IsFiniteSet(T) BY FS_Subset
<1>2. Folded(f, S, g) BY FoldExists
<1>3. Folded(f, T, h) BY <1>1, FoldExists
<1>4. SumFunctionOnSet(f, S) = g[S] /\ SumFunctionOnSet(f, T) = h[T] BY SumIs
<1> HIDE DEF g, h
<1>5. \A s \in SUBSET S : g[s] = IF s = {} THEN 0 ELSE f[First(s)] + g[s \ {First(s)}]
  BY <1>2 DEF Folded
<1>6. \A s \in SUBSET T : h[s] = IF s = {} THEN 0 ELSE f[First(s)] + h[s \ {First(s)}]
  BY <1>3 DEF Folded
<1> DEFINE bad == {s \in SUBSET T : g[s] # h[s]}
<1>7. bad = {}
  <2> SUFFICES ASSUME bad # {} PROVE FALSE OBVIOUS
  <2>1. \A s \in bad : IsFiniteSet(s) BY <1>1, FS_Subset
  <2>2. PICK s \in bad : \A r \in bad : Cardinality(s) <= Cardinality(r) BY <2>1, SmallestSet
  <2>3. s \in SUBSET T /\ s \in SUBSET S /\ g[s] # h[s] BY <2>2
  <2>4. CASE s = {} BY <1>5, <1>6, <2>3, <2>4
  <2>5. CASE s # {}
    <3>1. First(s) \in s BY <2>5, FirstIn
    <3>2. ~ (Cardinality(s) <= Cardinality(s \ {First(s)})) BY <2>1, <2>2, <3>1, Smaller
    <3>3. s \ {First(s)} \in SUBSET T /\ s \ {First(s)} \notin bad BY <2>2, <2>3, <3>2
    <3>4. g[s \ {First(s)}] = h[s \ {First(s)}] BY <3>3
    <3> QED BY <1>5, <1>6, <2>3, <2>5, <3>4
  <2> QED BY <2>4, <2>5
<1>8. g[T] = h[T] BY <1>7
<1> QED BY <1>4, <1>5, <1>8

\* Sums of the same numbers are the same.
LEMMA SumSame ==
  ASSUME NEW f, NEW g, NEW S, IsFiniteSet(S), \A x \in S : f[x] = g[x]
  PROVE  SumFunctionOnSet(f, S) = SumFunctionOnSet(g, S)
<1> DEFINE bad == {s \in SUBSET S : SumFunctionOnSet(f, s) # SumFunctionOnSet(g, s)}
<1>1. bad = {}
  <2> SUFFICES ASSUME bad # {} PROVE FALSE OBVIOUS
  <2>1. \A s \in bad : IsFiniteSet(s) BY FS_Subset
  <2>2. PICK s \in bad : \A r \in bad : Cardinality(s) <= Cardinality(r) BY <2>1, SmallestSet
  <2>3. IsFiniteSet(s) BY <2>1, <2>2
  <2>4. CASE s = {}
    <3>1. SumFunctionOnSet(f, s) = 0 /\ SumFunctionOnSet(g, s) = 0 BY <2>3, <2>4, SumFirst
    <3> QED BY <2>2, <3>1
  <2>5. CASE s # {}
    <3> DEFINE r == s \ {First(s)}
    <3>1. First(s) \in s /\ First(s) \in S BY <2>2, <2>5, FirstIn
    <3>2. ~ (Cardinality(s) <= Cardinality(r)) BY <2>3, <3>1, Smaller
    <3>3. r \in SUBSET S /\ r \notin bad BY <2>2, <3>2
    <3>4. SumFunctionOnSet(f, r) = SumFunctionOnSet(g, r) BY <3>3
    <3>5. SumFunctionOnSet(f, s) = f[First(s)] + SumFunctionOnSet(f, r) BY <2>3, <2>5, SumFirst
    <3>6. SumFunctionOnSet(g, s) = g[First(s)] + SumFunctionOnSet(g, r) BY <2>3, <2>5, SumFirst
    <3> HIDE DEF r
    <3> QED BY <2>2, <3>1, <3>4, <3>5, <3>6
  <2> QED BY <2>4, <2>5
<1> QED BY <1>1

\* A sum of integers is one.
LEMMA SumInt ==
  ASSUME NEW f, NEW S, IsFiniteSet(S), \A x \in S : f[x] \in Int
  PROVE  SumFunctionOnSet(f, S) \in Int
<1> DEFINE bad == {s \in SUBSET S : SumFunctionOnSet(f, s) \notin Int}
<1>1. bad = {}
  <2> SUFFICES ASSUME bad # {} PROVE FALSE OBVIOUS
  <2>1. \A s \in bad : IsFiniteSet(s) BY FS_Subset
  <2>2. PICK s \in bad : \A r \in bad : Cardinality(s) <= Cardinality(r) BY <2>1, SmallestSet
  <2>3. IsFiniteSet(s) BY <2>1, <2>2
  <2>4. CASE s = {}
    <3>1. SumFunctionOnSet(f, s) = 0 BY <2>3, <2>4, SumFirst
    <3> QED BY <2>2, <3>1
  <2>5. CASE s # {}
    <3> DEFINE r == s \ {First(s)}
    <3>1. First(s) \in s /\ First(s) \in S BY <2>2, <2>5, FirstIn
    <3>2. ~ (Cardinality(s) <= Cardinality(r)) BY <2>3, <3>1, Smaller
    <3>3. r \in SUBSET S /\ r \notin bad BY <2>2, <3>2
    <3>4. SumFunctionOnSet(f, r) \in Int BY <3>3
    <3>5. SumFunctionOnSet(f, s) = f[First(s)] + SumFunctionOnSet(f, r) BY <2>3, <2>5, SumFirst
    <3> HIDE DEF r
    <3>6. SumFunctionOnSet(f, s) \in Int BY <3>1, <3>4, <3>5
    <3> QED BY <2>2, <3>6
  <2> QED BY <2>4, <2>5
<1> QED BY <1>1

\* Any element of a set can be taken out of the sum.
LEMMA SumTake ==
  ASSUME NEW f, NEW S, IsFiniteSet(S), \A x \in S : f[x] \in Int
  PROVE  \A y \in S : SumFunctionOnSet(f, S) = f[y] + SumFunctionOnSet(f, S \ {y})
<1> DEFINE Splits(s, y) == SumFunctionOnSet(f, s) = f[y] + SumFunctionOnSet(f, s \ {y})
           bad == {s \in SUBSET S : \E y \in s : ~ Splits(s, y)}
<1>1. bad = {}
  <2> SUFFICES ASSUME bad # {} PROVE FALSE OBVIOUS
  <2>1. \A s \in bad : IsFiniteSet(s) BY FS_Subset
  <2>2. PICK s \in bad : \A r \in bad : Cardinality(s) <= Cardinality(r)
    <3> HIDE DEF bad
    <3> QED BY <2>1, SmallestSet
  <2>3. IsFiniteSet(s) /\ s \in SUBSET S BY <2>1, <2>2
  <2>4. PICK y \in s : ~ Splits(s, y) BY <2>2
  <2> DEFINE x == First(s)
  <2>5. x \in s BY <2>4, FirstIn
  <2>6. Splits(s, x) BY <2>3, <2>5, SumFirst
  <2> HIDE DEF x
  <2>7. x # y BY <2>4, <2>6
  <2> DEFINE sx == s \ {x}
             sy == s \ {y}
             sxy == (s \ {x}) \ {y}
  <2>8. /\ ~ (Cardinality(s) <= Cardinality(sx)) /\ ~ (Cardinality(s) <= Cardinality(sy))
        /\ IsFiniteSet(sx) /\ IsFiniteSet(sy)
    BY <2>3, <2>5, Smaller
  <2>9. sx \notin bad /\ sy \notin bad
    <3> HIDE DEF bad
    <3> QED BY <2>2, <2>8
  <2>10. Splits(sx, y) /\ Splits(sy, x) BY <2>3, <2>5, <2>7, <2>9
  <2>11. sy \ {x} = sxy /\ sx \ {y} = sxy OBVIOUS
  <2>12. IsFiniteSet(sxy) /\ sxy \in SUBSET S BY <2>3, FS_Subset
  <2>13. SumFunctionOnSet(f, sxy) \in Int /\ f[x] \in Int /\ f[y] \in Int
    BY <2>3, <2>4, <2>5, <2>12, SumInt
  <2>14. /\ SumFunctionOnSet(f, s) = f[x] + SumFunctionOnSet(f, sx)
         /\ SumFunctionOnSet(f, sx) = f[y] + SumFunctionOnSet(f, sxy)
         /\ SumFunctionOnSet(f, sy) = f[x] + SumFunctionOnSet(f, sxy)
         /\ SumFunctionOnSet(f, s) # f[y] + SumFunctionOnSet(f, sy)
    BY <2>4, <2>6, <2>10, <2>11
  <2> HIDE DEF sx, sy, sxy
  <2> QED BY <2>13, <2>14
<1> QED BY <1>1

----------------------------------------------------------------------------
(* The chain rule.                                                         *)

\* An input of a node is before its outputs.
Acyclic(ts, nodes) ==
  /\ Len(ts) \in Nat /\ Len(nodes) \in Nat
  /\ \A k \in 1 .. Len(nodes) :
       /\ IsFiniteSet(ToSet(nodes[k].out)) /\ ToSet(nodes[k].out) \subseteq 1 .. Len(ts)
       /\ \A p \in {1, 2} : p <= Len(nodes[k].in) =>
            \A u \in ToSet(nodes[k].out) : nodes[k].in[p] < u

\* What t was called with, what comes back through one use, and through all.
SeedSum(ts, sd, t) ==
  SumFunction([i \in {j \in DOMAIN sd.outputs : sd.outputs[j] = t} |-> SeedOf(ts, sd, i)])

Back(ts, nodes, a, kp) ==
  Derivative(ts, nodes[kp[1]], kp[2]) * SumFunctionOnSet(a, ToSet(nodes[kp[1]].out))

Backs(ts, nodes, a, t) == [kp \in Uses(nodes, t) |-> Back(ts, nodes, a, kp)]

Total(ts, nodes, sd, a, t) == SeedSum(ts, sd, t) + SumFunction(Backs(ts, nodes, a, t))

\* A use is of a node that there is.
LEMMA UseIs ==
  ASSUME NEW ts, NEW nodes, Acyclic(ts, nodes), NEW t, NEW kp \in Uses(nodes, t)
  PROVE  /\ kp[1] \in 1 .. Len(nodes) /\ kp[2] \in {1, 2} /\ kp = <<kp[1], kp[2]>>
         /\ kp[2] <= Len(nodes[kp[1]].in) /\ nodes[kp[1]].in[kp[2]] = t
         /\ IsFiniteSet(ToSet(nodes[kp[1]].out)) /\ ToSet(nodes[kp[1]].out) \subseteq 1 .. Len(ts)
         /\ \A u \in ToSet(nodes[kp[1]].out) : t < u
<1>1. kp \in (1 .. Len(nodes)) \X {1, 2} /\ kp[2] <= Len(nodes[kp[1]].in) /\ nodes[kp[1]].in[kp[2]] = t
  BY DEF Uses
<1>2. kp[1] \in 1 .. Len(nodes) /\ kp[2] \in {1, 2} /\ kp = <<kp[1], kp[2]>> BY <1>1
<1> QED BY <1>1, <1>2 DEF Acyclic

\* The uses of a tensor are finitely many.
LEMMA UsesFinite ==
  ASSUME NEW ts, NEW nodes, Acyclic(ts, nodes), NEW t PROVE IsFiniteSet(Uses(nodes, t))
<1>1. Len(nodes) \in Nat BY DEF Acyclic
<1>2. IsFiniteSet(1 .. Len(nodes)) BY <1>1, FS_Interval
<1>3. IsFiniteSet({1, 2})
  <2>1. IsFiniteSet(1 .. 2)
    <3>1. 1 \in Int /\ 2 \in Int OBVIOUS
    <3> QED BY <3>1, FS_Interval, Zenon
  <2>2. 1 .. 2 = {1, 2} OBVIOUS
  <2> QED BY <2>1, <2>2
<1>4. IsFiniteSet((1 .. Len(nodes)) \X {1, 2}) BY <1>2, <1>3, FS_Product
<1>5. Uses(nodes, t) \subseteq (1 .. Len(nodes)) \X {1, 2} BY DEF Uses
<1> QED BY <1>4, <1>5, FS_Subset

\* The total for t is about later tensors only.
LEMMA TotalSame ==
  ASSUME NEW ts, NEW nodes, NEW sd, Acyclic(ts, nodes), NEW t, NEW a, NEW b,
         \A u \in 1 .. Len(ts) : t < u => a[u] = b[u]
  PROVE  Total(ts, nodes, sd, a, t) = Total(ts, nodes, sd, b, t)
<1>1. ASSUME NEW kp \in Uses(nodes, t) PROVE Back(ts, nodes, a, kp) = Back(ts, nodes, b, kp)
  <2> DEFINE S == ToSet(nodes[kp[1]].out)
  <2>1. IsFiniteSet(S) /\ \A u \in S : a[u] = b[u] BY UseIs
  <2> HIDE DEF S
  <2>2. SumFunctionOnSet(a, S) = SumFunctionOnSet(b, S) BY <2>1, SumSame
  <2> QED BY <2>2 DEF Back, S
<1>2. Backs(ts, nodes, a, t) = Backs(ts, nodes, b, t) BY <1>1 DEF Backs
<1> QED BY <1>2 DEF Total

\* The recursion of ChainRule is from a tensor to later ones, so that there is
\* such a function.
LEMMA ChainRuleIs ==
  ASSUME NEW ts, NEW nodes, NEW sd, Acyclic(ts, nodes)
  PROVE  LET a == ChainRule(ts, nodes, sd) IN
         a = [t \in 1 .. Len(ts) |-> Total(ts, nodes, sd, a, t)]
<1> DEFINE L == Len(ts)
           All(a, t) == Total(ts, nodes, sd, a, t)
           Above(n) == {t \in 1 .. L : t > L - n}
           Part(a, n) == a = [t \in Above(n) |-> All(a, t)]
           bad == {n \in Nat : ~ \E a : Part(a, n)}
<1>0. L \in Nat BY DEF Acyclic
<1>1. ASSUME NEW n \in Nat, NEW h, n # 0 => Part(h, n - 1) PROVE \E a : Part(a, n)
  <2> DEFINE g == [t \in Above(n) |-> All(h, t)]
  <2>1. ASSUME NEW t \in Above(n) PROVE All(h, t) = All(g, t)
    <3>1. ASSUME NEW u \in 1 .. Len(ts), t < u PROVE h[u] = g[u]
      <4>1. n # 0 /\ u \in Above(n - 1) /\ u \in Above(n) BY <1>0, <3>1
      <4>2. Part(h, n - 1) BY <1>1, <4>1
      <4> HIDE DEF Above, All
      <4>3. h[u] = All(h, u) /\ g[u] = All(h, u) BY <4>1, <4>2
      <4> QED BY <4>3
    <3> HIDE DEF g
    <3> QED BY <3>1, TotalSame
  <2> HIDE DEF Above, All
  <2>2. g = [t \in Above(n) |-> All(g, t)] BY <2>1
  <2> QED BY <2>2
<1>2. bad = {}
  <2> SUFFICES ASSUME bad # {} PROVE FALSE OBVIOUS
  <2> HIDE DEF Part
  <2>1. PICK n \in bad : \A m \in bad : n <= m BY LeastElement
  <2>2. n # 0 => n - 1 \in Nat /\ ~ (n <= n - 1) BY <2>1
  <2>3. n # 0 => \E h : Part(h, n - 1) BY <2>1, <2>2
  <2> QED BY <1>1, <2>1, <2>3
<1>3. PICK b : Part(b, L) BY <1>0, <1>2
<1>4. Above(L) = 1 .. L BY <1>0
<1> DEFINE Is(a) == a = [t \in 1 .. L |-> All(a, t)]
<1>5. Is(b) BY <1>3, <1>4
<1>6. ChainRule(ts, nodes, sd) = CHOOSE a : Is(a) BY DEF ChainRule, Total, SeedSum, Backs, Back
<1> HIDE DEF Is
<1>7. Is(ChainRule(ts, nodes, sd)) BY <1>5, <1>6
<1> QED BY <1>7 DEF Is

\* Values, seeds and scales are integers.
Integral(ts, nodes, sd) ==
  /\ \A k \in 1 .. Len(nodes), p \in {1, 2} :
       p <= Len(nodes[k].in) => Derivative(ts, nodes[k], p) \in Int
  /\ IsFiniteSet(DOMAIN sd.outputs)
  /\ \A i \in DOMAIN sd.outputs : SeedOf(ts, sd, i) \in Int

\* What comes back is an integer, and so is a derivative.
LEMMA ChainRuleInt ==
  ASSUME NEW ts, NEW nodes, NEW sd, Acyclic(ts, nodes), Integral(ts, nodes, sd)
  PROVE  LET a == ChainRule(ts, nodes, sd) IN
         /\ \A t \in 1 .. Len(ts) : a[t] \in Int
         /\ \A t : SeedSum(ts, sd, t) \in Int
         /\ \A t : \A kp \in Uses(nodes, t) : Back(ts, nodes, a, kp) \in Int
<1> DEFINE a == ChainRule(ts, nodes, sd)
           L == Len(ts)
<1>0. L \in Nat BY DEF Acyclic
<1>1. \A t \in 1 .. L : a[t] = Total(ts, nodes, sd, a, t)
  <2>1. a = [t \in 1 .. Len(ts) |-> Total(ts, nodes, sd, a, t)] BY ChainRuleIs
  <2> HIDE DEF a
  <2> QED BY <2>1
<1> HIDE DEF a
<1>2. ASSUME NEW t PROVE SeedSum(ts, sd, t) \in Int
  <2> DEFINE S == {j \in DOMAIN sd.outputs : sd.outputs[j] = t}
             f == [i \in S |-> SeedOf(ts, sd, i)]
  <2>1. IsFiniteSet(S) BY FS_Subset DEF Integral
  <2>2. \A i \in S : f[i] \in Int BY DEF Integral
  <2>3. SeedSum(ts, sd, t) = SumFunctionOnSet(f, S) BY DEF SeedSum, SumFunction
  <2> HIDE DEF f, S
  <2> QED BY <2>1, <2>2, <2>3, SumInt
<1>3. ASSUME NEW t, NEW kp \in Uses(nodes, t), \A u \in 1 .. L : t < u => a[u] \in Int
      PROVE  Back(ts, nodes, a, kp) \in Int
  <2> DEFINE S == ToSet(nodes[kp[1]].out)
  <2>1. IsFiniteSet(S) /\ \A u \in S : a[u] \in Int BY <1>3, UseIs
  <2> HIDE DEF S
  <2>2. SumFunctionOnSet(a, S) \in Int BY <2>1, SumInt
  <2>3. Derivative(ts, nodes[kp[1]], kp[2]) \in Int BY UseIs DEF Integral
  <2> QED BY <2>2, <2>3 DEF Back, S
<1>4. ASSUME NEW t \in 1 .. L, \A u \in 1 .. L : t < u => a[u] \in Int PROVE a[t] \in Int
  <2> DEFINE f == Backs(ts, nodes, a, t)
  <2>1. DOMAIN f = Uses(nodes, t) /\ \A kp \in Uses(nodes, t) : f[kp] \in Int
    BY <1>3, <1>4 DEF Backs
  <2> HIDE DEF f
  <2>2. SumFunction(f) \in Int BY <2>1, SumInt, UsesFinite DEF SumFunction
  <2>3. a[t] = SeedSum(ts, sd, t) + SumFunction(f) BY <1>1 DEF Total, f
  <2> QED BY <1>2, <2>2, <2>3
<1> DEFINE bad == {n \in Nat : \E t \in 1 .. L : n = L - t /\ a[t] \notin Int}
<1>5. bad = {}
  <2> SUFFICES ASSUME bad # {} PROVE FALSE OBVIOUS
  <2>1. PICK n \in bad : \A m \in bad : n <= m BY LeastElement
  <2>2. PICK t \in 1 .. L : n = L - t /\ a[t] \notin Int BY <2>1
  <2>3. ASSUME NEW u \in 1 .. L, t < u PROVE a[u] \in Int
    <3>1. L - u \in Nat /\ ~ (n <= L - u) BY <1>0, <2>2, <2>3
    <3>2. L - u \notin bad
      <4> HIDE DEF bad
      <4> QED BY <2>1, <3>1
    <3> QED BY <3>1, <3>2
  <2> QED BY <1>4, <2>2, <2>3
<1>6. \A t \in 1 .. L : a[t] \in Int
  <2>1. ASSUME NEW t \in 1 .. L PROVE L - t \in Nat BY <1>0
  <2> QED BY <1>5, <2>1
<1>7. \A t : \A kp \in Uses(nodes, t) : Back(ts, nodes, a, kp) \in Int BY <1>3, <1>6
<1> QED BY <1>2, <1>6, <1>7 DEF a

\* What has come back to t when the nodes after w have been visited.
SoFar(ts, nodes, sd, t, w) ==
  SeedSum(ts, sd, t)
  + SumFunctionOnSet(Backs(ts, nodes, ChainRule(ts, nodes, sd), t), {kp \in Uses(nodes, t) : kp[1] > w})

\* What a visit to w brings back through position p.
Gain(ts, nodes, sd, t, w, p) ==
  IF p <= Len(nodes[w].in) /\ nodes[w].in[p] = t
  THEN Back(ts, nodes, ChainRule(ts, nodes, sd), <<w, p>>) ELSE 0

\* Nothing has come back before the walk; when all uses are behind, all has.
LEMMA SoFarEnds ==
  ASSUME NEW ts, NEW nodes, NEW sd, Acyclic(ts, nodes), Integral(ts, nodes, sd), NEW t \in 1 .. Len(ts)
  PROVE  /\ SoFar(ts, nodes, sd, t, Len(nodes)) = SeedSum(ts, sd, t)
         /\ \A w : (\A kp \in Uses(nodes, t) : kp[1] > w) =>
                SoFar(ts, nodes, sd, t, w) = ChainRule(ts, nodes, sd)[t]
<1> DEFINE a == ChainRule(ts, nodes, sd)
           f == Backs(ts, nodes, a, t)
           U(w) == {kp \in Uses(nodes, t) : kp[1] > w}
<1>1. U(Len(nodes)) = {}
  <2>1. ASSUME NEW kp \in Uses(nodes, t) PROVE ~ (kp[1] > Len(nodes))
    <3>1. kp[1] \in 1 .. Len(nodes) /\ Len(nodes) \in Nat BY UseIs DEF Acyclic
    <3> QED BY <3>1
  <2> QED BY <2>1
<1>2. SumFunctionOnSet(f, {}) = 0
  <2>1. IsFiniteSet({}) BY FS_EmptySet
  <2> HIDE DEF f
  <2> QED BY <2>1, SumFirst
<1>3. SeedSum(ts, sd, t) \in Int BY ChainRuleInt
<1>4. SoFar(ts, nodes, sd, t, Len(nodes)) = SeedSum(ts, sd, t)
  <2>1. SoFar(ts, nodes, sd, t, Len(nodes)) = SeedSum(ts, sd, t) + SumFunctionOnSet(f, U(Len(nodes)))
    BY DEF SoFar
  <2> HIDE DEF f, U
  <2> QED BY <1>1, <1>2, <1>3, <2>1
<1>5. a[t] = SeedSum(ts, sd, t) + SumFunctionOnSet(f, Uses(nodes, t))
  <2>1. a = [u \in 1 .. Len(ts) |-> Total(ts, nodes, sd, a, u)] BY ChainRuleIs
  <2> HIDE DEF a
  <2>2. a[t] = Total(ts, nodes, sd, a, t) BY <2>1
  <2>3. DOMAIN f = Uses(nodes, t) BY DEF Backs
  <2> QED BY <2>2, <2>3 DEF Total, SumFunction
<1>6. ASSUME NEW w, \A kp \in Uses(nodes, t) : kp[1] > w PROVE U(w) = Uses(nodes, t) BY <1>6
<1> QED BY <1>4, <1>5, <1>6 DEF SoFar

\* A visit brings back what its positions do.
LEMMA SoFarStep ==
  ASSUME NEW ts, NEW nodes, NEW sd, Acyclic(ts, nodes), Integral(ts, nodes, sd),
         NEW t \in 1 .. Len(ts), NEW w \in 1 .. Len(nodes)
  PROVE  /\ SoFar(ts, nodes, sd, t, w) \in Int
         /\ \A p \in {1, 2} : Gain(ts, nodes, sd, t, w, p) \in Int
         /\ SoFar(ts, nodes, sd, t, w - 1) =
              SoFar(ts, nodes, sd, t, w) + Gain(ts, nodes, sd, t, w, 1) + Gain(ts, nodes, sd, t, w, 2)
<1> DEFINE a == ChainRule(ts, nodes, sd)
           f == Backs(ts, nodes, a, t)
           U(v) == {kp \in Uses(nodes, t) : kp[1] > v}
           x == <<w, 1>>
           y == <<w, 2>>
           V == U(w - 1) \ {x}
           G(p) == Gain(ts, nodes, sd, t, w, p)
<1>0. w \in Nat BY DEF Acyclic
<1>1. \A kp \in Uses(nodes, t) : f[kp] = Back(ts, nodes, a, kp) /\ f[kp] \in Int
  BY ChainRuleInt DEF Backs
<1>2. SeedSum(ts, sd, t) \in Int BY ChainRuleInt
<1>3. \A p \in {1, 2} : <<w, p>> \in Uses(nodes, t) <=> p <= Len(nodes[w].in) /\ nodes[w].in[p] = t
  BY DEF Uses
<1>4. \A p \in {1, 2} : G(p) = IF <<w, p>> \in Uses(nodes, t) THEN f[<<w, p>>] ELSE 0
  BY <1>1, <1>3 DEF Gain
<1>5. \A p \in {1, 2} : G(p) \in Int BY <1>1, <1>4
<1> HIDE DEF f, G
<1>6. \A v : IsFiniteSet(U(v)) BY UsesFinite, FS_Subset
<1>7. IsFiniteSet(V) BY <1>6, FS_Subset
<1>8. SumFunctionOnSet(f, U(w - 1)) = G(1) + SumFunctionOnSet(f, V)
  <2>1. \A kp \in U(w - 1) : f[kp] \in Int BY <1>1
  <2>2. CASE x \in Uses(nodes, t)
    <3>1. x \in U(w - 1) BY <1>0, <2>2
    <3> HIDE DEF U, x
    <3>2. SumFunctionOnSet(f, U(w - 1)) = f[x] + SumFunctionOnSet(f, U(w - 1) \ {x})
      BY <1>6, <2>1, <3>1, SumTake
    <3>3. G(1) = f[x] BY <1>4, <2>2 DEF x
    <3> QED BY <3>2, <3>3
  <2>3. CASE x \notin Uses(nodes, t)
    <3>1. V = U(w - 1) BY <2>3
    <3>2. SumFunctionOnSet(f, V) \in Int
      <4> HIDE DEF V, U
      <4> QED BY <1>7, <2>1, <3>1, SumInt
    <3>3. G(1) = 0 BY <1>4, <2>3
    <3> HIDE DEF V
    <3> QED BY <3>1, <3>2, <3>3
  <2> QED BY <2>2, <2>3
<1>9. \A kp \in Uses(nodes, t) : kp[1] > w - 1 <=> kp[1] > w \/ kp = x \/ kp = y
  <2>1. ASSUME NEW kp \in Uses(nodes, t) PROVE kp[1] > w - 1 <=> kp[1] > w \/ kp = x \/ kp = y
    <3>1. kp[1] \in Nat /\ kp[2] \in {1, 2} /\ kp = <<kp[1], kp[2]>> BY UseIs DEF Acyclic
    <3>2. kp[1] > w - 1 <=> kp[1] > w \/ kp[1] = w BY <1>0, <3>1
    <3>3. kp[1] = w <=> kp = x \/ kp = y BY <3>1
    <3> QED BY <3>2, <3>3
  <2> QED BY <2>1
<1>10. ~ (x[1] > w) /\ ~ (y[1] > w) /\ x # y BY <1>0
<1>11. V \ {y} = U(w) BY <1>9, <1>10
<1>12. SumFunctionOnSet(f, V) = G(2) + SumFunctionOnSet(f, U(w))
  <2>1. \A kp \in V : f[kp] \in Int BY <1>1
  <2>2. CASE y \in Uses(nodes, t)
    <3>1. y \in V BY <1>9, <1>10, <2>2
    <3> HIDE DEF V, y
    <3>2. SumFunctionOnSet(f, V) = f[y] + SumFunctionOnSet(f, V \ {y})
      BY <1>7, <2>1, <3>1, SumTake
    <3>3. G(2) = f[y] BY <1>4, <2>2 DEF y
    <3> QED BY <1>11, <3>2, <3>3
  <2>3. CASE y \notin Uses(nodes, t)
    <3>1. V = U(w) BY <1>11, <2>3
    <3>2. SumFunctionOnSet(f, V) \in Int
      <4> HIDE DEF V
      <4> QED BY <1>7, <2>1, SumInt
    <3>3. G(2) = 0 BY <1>4, <2>3
    <3> HIDE DEF V
    <3> QED BY <3>1, <3>2, <3>3
  <2> QED BY <2>2, <2>3
<1>13. SumFunctionOnSet(f, U(w)) \in Int
  <2>1. \A kp \in U(w) : f[kp] \in Int BY <1>1
  <2> HIDE DEF U
  <2> QED BY <1>6, <2>1, SumInt
<1>14. /\ SoFar(ts, nodes, sd, t, w) = SeedSum(ts, sd, t) + SumFunctionOnSet(f, U(w))
       /\ SoFar(ts, nodes, sd, t, w - 1) = SeedSum(ts, sd, t) + SumFunctionOnSet(f, U(w - 1))
  BY DEF SoFar, f
<1> HIDE DEF U, V
<1>15. G(1) \in Int /\ G(2) \in Int BY <1>5
<1>16. \A p \in {1, 2} : Gain(ts, nodes, sd, t, w, p) \in Int BY <1>5 DEF G
<1>17. SoFar(ts, nodes, sd, t, w - 1) = SoFar(ts, nodes, sd, t, w) + G(1) + G(2)
  BY <1>2, <1>8, <1>12, <1>13, <1>14, <1>15
<1> QED BY <1>2, <1>13, <1>14, <1>16, <1>17 DEF G

----------------------------------------------------------------------------
(* Gradients.                                                              *)

\* What a slot holds; nothing counts as zero.
Amount(c, t) == IF HasGrad(c, t) THEN c.mem[c.grads[t]] ELSE 0

\* The slots, but for those of X, are of tensors that need a gradient.
Typed(c, X) == \A u \in DOMAIN c.grads \ X : u \in TensorId /\ NeedsGrad(u) /\ Amount(c, u) \in Value

\* From c to d the gradient of t has z more, if t needs one; those of X may be gone.
Gets(c, d, t, z, X) ==
  /\ DOMAIN d.grads \ X = (DOMAIN c.grads \cup (IF NeedsGrad(t) THEN {t} ELSE {})) \ X
  /\ \A u \in TensorId \ X : NeedsGrad(u) =>
       Amount(d, u) = (Amount(c, u) + (IF u = t THEN z ELSE 0)) % Prime

\* Elements are added modulo the prime.
LEMMA Residue ==
  /\ \A a, b \in Int : ((a % Prime) + b) % Prime = (a + b) % Prime
  /\ \A a, b \in Int : (a + (b % Prime)) % Prime = (a + b) % Prime
  /\ Value \subseteq Int /\ 0 \in Value /\ 0 % Prime = 0
BY DEF Prime, Value

\* The same, of two numbers.
LEMMA AddResidue == ASSUME NEW a \in Int, NEW b \in Int PROVE (a + (b % Prime)) % Prime = (a + b) % Prime
BY DEF Prime

\* Adding nothing changes nothing.
LEMMA Unchanged ==
  \A a \in Value : a % Prime = a /\ a + 0 = a /\ 0 + a = a /\ (a + 0) % Prime = a /\ (0 + a) % Prime = a
BY DEF Prime, Value

\* Slots stay as typed.
LEMMA GetsTyped ==
  ASSUME NEW c, NEW d, NEW t \in TensorId, NEW z \in Int, NEW X, Typed(c, X), Gets(c, d, t, z, X)
  PROVE  Typed(d, X)
<1>1. ASSUME NEW u \in DOMAIN d.grads \ X PROVE u \in TensorId /\ NeedsGrad(u) /\ Amount(d, u) \in Value
  <2>1. u \in DOMAIN c.grads \ X \/ (NeedsGrad(t) /\ u = t) BY <1>1 DEF Gets
  <2>2. u \in TensorId /\ NeedsGrad(u) BY <2>1 DEF Typed
  <2>3. Amount(c, u) \in Int
    <3>1. CASE u \in DOMAIN c.grads BY <1>1, <3>1, Residue DEF Typed
    <3>2. CASE u \notin DOMAIN c.grads BY <3>2 DEF Amount, HasGrad
    <3> QED BY <3>1, <3>2
  <2>4. Amount(d, u) = (Amount(c, u) + (IF u = t THEN z ELSE 0)) % Prime BY <1>1, <2>2 DEF Gets
  <2>5. Amount(c, u) + (IF u = t THEN z ELSE 0) \in Int BY <2>3
  <2> QED BY <2>2, <2>4, <2>5, Residues
<1> QED BY <1>1 DEF Typed

\* Nothing is added to what needs no gradient.
LEMMA GetsNothing ==
  ASSUME NEW c, NEW t, ~ NeedsGrad(t), NEW z, NEW X, Typed(c, X) PROVE Gets(c, c, t, z, X)
<1>1. ASSUME NEW u \in TensorId \ X, NeedsGrad(u)
      PROVE  Amount(c, u) = (Amount(c, u) + (IF u = t THEN z ELSE 0)) % Prime
  <2>1. u # t BY <1>1
  <2>2. Amount(c, u) \in Value
    <3>1. CASE u \in DOMAIN c.grads BY <1>1, <3>1 DEF Typed
    <3>2. CASE u \notin DOMAIN c.grads BY <3>2, Residue DEF Amount, HasGrad
    <3> QED BY <3>1, <3>2
  <2>3. Amount(c, u) + 0 = Amount(c, u) /\ Amount(c, u) % Prime = Amount(c, u)
    BY <2>2, Unchanged
  <2> QED BY <2>1, <2>3
<1> QED BY <1>1 DEF Gets

\* What is added counts modulo the prime.
LEMMA GetsResidue ==
  ASSUME NEW c, NEW d, NEW t \in TensorId, NEW z \in Int, NEW X, Typed(c, X), Gets(c, d, t, z % Prime, X)
  PROVE  Gets(c, d, t, z, X)
<1>1. ASSUME NEW u \in TensorId \ X, NeedsGrad(u)
      PROVE  Amount(d, u) = (Amount(c, u) + (IF u = t THEN z ELSE 0)) % Prime
  <2> DEFINE r == z % Prime
             x == Amount(c, u)
             y == Amount(d, u)
  <2>1. x \in Int
    <3>1. CASE u \in DOMAIN c.grads BY <1>1, <3>1, Residue DEF Typed
    <3>2. CASE u \notin DOMAIN c.grads BY <3>2 DEF Amount, HasGrad
    <3> QED BY <3>1, <3>2
  <2>2. y = (x + (IF u = t THEN r ELSE 0)) % Prime BY <1>1 DEF Gets
  <2> HIDE DEF x
  <2>3. (x + r) % Prime = (x + z) % Prime BY <2>1, AddResidue
  <2> HIDE DEF r, x, y
  <2>4. y = (x + (IF u = t THEN z ELSE 0)) % Prime
    <3>1. ASSUME u = t PROVE y = (x + (IF u = t THEN z ELSE 0)) % Prime BY <2>2, <2>3, <3>1
    <3>2. ASSUME u # t PROVE y = (x + (IF u = t THEN z ELSE 0)) % Prime BY <2>2, <3>2
    <3> QED BY <3>1, <3>2
  <2> QED BY <2>4 DEF x, y
<1> QED BY <1>1 DEF Gets

\* An accumulation, also into t's slot.
LEMMA AccumulateMem ==
  ASSUME NEW c, Sound(c), NEW t, NEW s \in c.held \cup Params, Ok(Accumulate(c, t, s)),
         c.mem[s] \in Value
  PROVE  LET d == Accumulate(c, t, s) IN
         /\ DOMAIN d.grads = DOMAIN c.grads \cup {t}
         /\ Amount(d, t) = (Amount(c, t) + c.mem[s]) % Prime
         /\ \A u \in DOMAIN c.grads \ {t} : Amount(d, u) = Amount(c, u)
         /\ \A r \in c.held \cup Params :
              (HasGrad(c, t) => r # c.grads[t]) => d.mem[r] = c.mem[r]
<1> DEFINE d == Accumulate(c, t, s)
<1>1. Ok(c) BY DEF Accumulate
<1>2. c.mem[s] % Prime = c.mem[s] /\ 0 + c.mem[s] = c.mem[s] BY Unchanged
<1>3. \A u \in DOMAIN c.grads : c.grads[u] \in c.held BY DEF Sound, Slots
<1>4. c.held \subseteq Scratch BY Sizes DEF Sound, Core, Scratch
<1>5. CASE HasGrad(c, t)
  <2> DEFINE w == Write(c, c.grads[t], c.mem[c.grads[t]] + c.mem[s])
             e == ReleaseTemporary(w, s)
  <2>1. d = e BY <1>1, <1>5 DEF Accumulate
  <2>2. t \in DOMAIN c.grads BY <1>5 DEF HasGrad
  <2>3. /\ Sound(w) /\ w.grads = c.grads /\ w.held = c.held
        /\ w.mem[c.grads[t]] = (c.mem[c.grads[t]] + c.mem[s]) % Prime
        /\ \A r \in (Scratch \cup Params) \ {c.grads[t]} : w.mem[r] = c.mem[r]
    BY <2>2, WriteSound
  <2> HIDE DEF w
  <2>4. e.grads = w.grads /\ e.mem = w.mem BY <2>3, ReleaseTemporarySound
  <2> HIDE DEF d, e
  <2>5. \A u \in DOMAIN c.grads \ {t} : c.grads[u] # c.grads[t] BY <2>2 DEF Sound, Slots
  <2>6. DOMAIN d.grads = DOMAIN c.grads \cup {t} BY <2>1, <2>2, <2>3, <2>4
  <2>7. Amount(d, t) = (Amount(c, t) + c.mem[s]) % Prime
    BY <2>1, <2>2, <2>3, <2>4 DEF Amount, HasGrad
  <2>8. \A u \in DOMAIN c.grads \ {t} : Amount(d, u) = Amount(c, u)
    BY <1>3, <1>4, <2>1, <2>3, <2>4, <2>5 DEF Amount, HasGrad
  <2>9. \A r \in c.held \cup Params : r # c.grads[t] => d.mem[r] = c.mem[r]
    BY <1>4, <2>1, <2>3, <2>4
  <2> QED BY <1>5, <2>6, <2>7, <2>8, <2>9 DEF d
<1>6. CASE ~ HasGrad(c, t) /\ CanAdopt(c, s)
  <2> DEFINE e == AddSlot(c, t, s)
  <2>1. d = e BY <1>1, <1>6 DEF Accumulate
  <2>2. Spare(c, s) /\ t \notin DOMAIN c.grads
    BY <1>6, Sizes DEF Spare, CanAdopt, HasGrad, Scratch, Params
  <2>3. /\ Ok(e) => DOMAIN e.grads = DOMAIN c.grads \cup {t} /\ e.grads[t] = s
        /\ \A u \in DOMAIN c.grads : e.grads[u] = c.grads[u]
        /\ e.mem = c.mem
    BY <2>2, AddSlotSound
  <2>4. Ok(e) BY <2>1
  <2> HIDE DEF d, e
  <2>5. DOMAIN d.grads = DOMAIN c.grads \cup {t} /\ Amount(d, t) = c.mem[s] /\ Amount(c, t) = 0
    BY <2>1, <2>2, <2>3, <2>4 DEF Amount, HasGrad
  <2>6. \A u \in DOMAIN c.grads \ {t} : Amount(d, u) = Amount(c, u)
    BY <2>1, <2>3, <2>4 DEF Amount, HasGrad
  <2>7. Amount(d, t) = (Amount(c, t) + c.mem[s]) % Prime BY <1>2, <2>5
  <2> QED BY <2>1, <2>3, <2>5, <2>6, <2>7 DEF d
<1>7. CASE ~ HasGrad(c, t) /\ ~ CanAdopt(c, s)
  <2> DEFINE e == CopySlot(c, t, s)
  <2>1. d = ReleaseTemporary(e, s) BY <1>1, <1>7 DEF Accumulate
  <2>2. t \notin DOMAIN c.grads BY <1>7 DEF HasGrad
  <2>3. /\ Sound(e) /\ e.refs = c.refs /\ c.held \subseteq e.held
        /\ Ok(e) => /\ DOMAIN e.grads = DOMAIN c.grads \cup {t}
                    /\ e.mem[e.grads[t]] = c.mem[s] % Prime
                    /\ \A r \in c.held \cup Params : e.mem[r] = c.mem[r]
        /\ \A u \in DOMAIN c.grads : e.grads[u] = c.grads[u]
    BY <2>2, CopySlotSound
  <2>0. Ok(d) OBVIOUS
  <2> HIDE DEF e
  <2>4. d.grads = e.grads /\ d.mem = e.mem /\ d.status = e.status
    BY <2>1, <2>3, ReleaseTemporarySound
  <2> HIDE DEF d
  <2>5. Ok(e) BY <2>0, <2>4 DEF Ok
  <2>6. DOMAIN d.grads = DOMAIN c.grads \cup {t} /\ Amount(d, t) = c.mem[s] /\ Amount(c, t) = 0
    BY <1>2, <2>2, <2>3, <2>4, <2>5 DEF Amount, HasGrad
  <2>7. \A u \in DOMAIN c.grads \ {t} : Amount(d, u) = Amount(c, u)
    BY <1>3, <2>3, <2>4, <2>5 DEF Amount, HasGrad
  <2>8. Amount(d, t) = (Amount(c, t) + c.mem[s]) % Prime BY <1>2, <2>6
  <2> QED BY <2>3, <2>4, <2>5, <2>6, <2>7, <2>8 DEF d
<1> QED BY <1>5, <1>6, <1>7

\* An accumulation adds what is in s to the gradient of t.
LEMMA AccumulateGets ==
  ASSUME NEW c, Sound(c), NEW t, NeedsGrad(t), NEW s \in c.held \cup Params,
         Ok(Accumulate(c, t, s)), c.mem[s] \in Value, NEW X, t \notin X, Typed(c, X)
  PROVE  Gets(c, Accumulate(c, t, s), t, c.mem[s], X)
<1> DEFINE d == Accumulate(c, t, s)
<1>1. /\ DOMAIN d.grads = DOMAIN c.grads \cup {t}
      /\ Amount(d, t) = (Amount(c, t) + c.mem[s]) % Prime
      /\ \A u \in DOMAIN c.grads \ {t} : Amount(d, u) = Amount(c, u)
  BY AccumulateMem
<1> HIDE DEF d
<1>2. ASSUME NEW u \in TensorId \ X, NeedsGrad(u), u # t
      PROVE  Amount(d, u) = (Amount(c, u) + 0) % Prime
  <2>1. CASE u \in DOMAIN c.grads
    <3>1. Amount(d, u) = Amount(c, u) /\ Amount(c, u) \in Value BY <1>1, <1>2, <2>1 DEF Typed
    <3> QED BY <3>1, Unchanged
  <2>2. CASE u \notin DOMAIN c.grads
    <3>1. Amount(d, u) = 0 /\ Amount(c, u) = 0 BY <1>1, <1>2, <2>2 DEF Amount, HasGrad
    <3> QED BY <3>1, Residue
  <2> QED BY <2>1, <2>2
<1> QED BY <1>1, <1>2 DEF Gets, d

\* A gradient that is passed on is there twice, or was stolen.
LEMMA PassGets ==
  ASSUME NEW c, Sound(c), NEW from, from \in DOMAIN c.grads, NEW to, NeedsGrad(to), from # to,
         Ok(Pass(c, from, to)), Amount(c, from) \in Value,
         NEW X, from \in X, to \notin X, Typed(c, X)
  PROVE  LET d == Pass(c, from, to) IN
         Gets(c, d, to, Amount(c, from), X) /\ d.mem[c.grads[from]] = Amount(c, from)
<1> DEFINE s == c.grads[from]
           d == Pass(c, from, to)
<1>1. Ok(c) BY DEF Pass
<1>2. Amount(c, from) = c.mem[s] /\ s \in c.held BY DEF Amount, HasGrad, Sound, Slots
<1>3. CASE CanSteal(c, from, to)
  <2> DEFINE g == Without(With(c.grads, to, s), from)
             e == [c EXCEPT !.grads = g]
  <2>1. d = e BY <1>1, <1>3 DEF Pass
  <2>2. to \notin DOMAIN c.grads BY <1>3 DEF CanSteal, HasGrad
  <2>3. /\ DOMAIN g = (DOMAIN c.grads \cup {to}) \ {from} /\ g[to] = s
        /\ \A u \in DOMAIN c.grads \ {from} : g[u] = c.grads[u]
    BY <2>2 DEF With, Without
  <2> HIDE DEF g
  <2>4. e.mem = c.mem /\ e.grads = g BY SetGrads DEF Core, Sound
  <2> HIDE DEF e, d
  <2>5. Amount(d, to) = c.mem[s] /\ Amount(c, to) = 0 BY <2>1, <2>2, <2>3, <2>4 DEF Amount, HasGrad
  <2>6. ASSUME NEW u \in TensorId \ X, NeedsGrad(u), u # to
        PROVE  Amount(d, u) = (Amount(c, u) + 0) % Prime
    <3>1. CASE u \in DOMAIN c.grads
      <4>1. Amount(d, u) = Amount(c, u) BY <2>1, <2>3, <2>4, <2>6, <3>1 DEF Amount, HasGrad
      <4>2. Amount(c, u) \in Value BY <2>6, <3>1 DEF Typed
      <4> QED BY <4>1, <4>2, Unchanged
    <3>2. CASE u \notin DOMAIN c.grads
      <4>1. Amount(d, u) = 0 /\ Amount(c, u) = 0
        BY <2>1, <2>3, <2>4, <2>6, <3>2 DEF Amount, HasGrad
      <4> QED BY <4>1, Residue
    <3> QED BY <3>1, <3>2
  <2>7. Amount(d, to) = (Amount(c, to) + Amount(c, from)) % Prime
    BY <1>2, <2>5, Unchanged
  <2>8. DOMAIN d.grads \ X = (DOMAIN c.grads \cup {to}) \ X BY <2>1, <2>3, <2>4
  <2> QED BY <1>2, <2>1, <2>4, <2>6, <2>7, <2>8 DEF Gets, d
<1>4. CASE ~ CanSteal(c, from, to)
  <2>1. d = Accumulate(c, to, s) BY <1>1, <1>4 DEF Pass
  <2>2. Gets(c, d, to, c.mem[s], X) BY <1>2, <2>1, AccumulateGets
  <2>3. HasGrad(c, to) => s # c.grads[to] BY DEF Sound, Slots, HasGrad
  <2>4. d.mem[s] = c.mem[s] BY <1>2, <2>1, <2>3, AccumulateMem
  <2> QED BY <1>2, <2>2, <2>4
<1> QED BY <1>3, <1>4

\* A contribution adds what was computed.
LEMMA ContributeGets ==
  ASSUME NEW c, Sound(c), NEW t \in TensorId, NEW v \in Int, Ok(Contribute(c, t, v)),
         NEW X, t \notin X, Typed(c, X)
  PROVE  Gets(c, Contribute(c, t, v), t, v, X)
<1>1. CASE ~ NeedsGrad(t) BY <1>1, GetsNothing DEF Contribute
<1>2. CASE NeedsGrad(t)
  <2> DEFINE p == Produce(c, v)
             d == Accumulate(p, t, Fresh(c))
  <2>1. Contribute(c, t, v) = d BY <1>2 DEF Contribute
  <2>2. /\ Sound(p) /\ p.grads = c.grads
        /\ \A s \in c.held \cup Params : p.mem[s] = c.mem[s]
        /\ Ok(p) => Spare(p, Fresh(c)) /\ p.mem[Fresh(c)] = v % Prime
    BY ProduceSound
  <2>3. Ok(p) /\ Ok(d) BY <2>1 DEF Accumulate
  <2>4. \A u : Amount(p, u) = Amount(c, u) BY <2>2 DEF Amount, HasGrad, Sound, Slots
  <2> HIDE DEF p
  <2>5. Typed(p, X) BY <2>2, <2>4 DEF Typed
  <2>6. Fresh(c) \in p.held \cup Params /\ p.mem[Fresh(c)] = v % Prime /\ v % Prime \in Value
    BY <2>2, <2>3, Residues DEF Spare
  <2>7. Gets(p, d, t, v % Prime, X) BY <1>2, <2>2, <2>3, <2>5, <2>6, AccumulateGets
  <2> HIDE DEF d
  <2>8. Gets(c, d, t, v % Prime, X) BY <2>2, <2>4, <2>7 DEF Gets
  <2> QED BY <2>1, <2>8, GetsResidue
<1> QED BY <1>1, <1>2

\* Products are integers and commute.
LEMMA Product == \A a, b \in Int : a * b \in Int /\ a * b = b * a /\ 1 * a = a
OBVIOUS

\* What has come to the outputs of n, and what n's rule makes of it.
Upstream(c, n) == Amount(c, n.out[1]) + (IF n.op = "split" THEN Amount(c, n.out[2]) ELSE 0)

Brings(c, d, n, X) ==
  \E e : /\ Gets(c, e, n.in[1], Derivative(tensors, n, 1) * Upstream(c, n), X)
         /\ IF Binary(n.op) THEN Gets(e, d, n.in[2], Derivative(tensors, n, 2) * Upstream(c, n), X)
            ELSE d = e

\* Nothing is typed by more than is excepted.
LEMMA TypedMost == ASSUME NEW c, Typed(c, {}), NEW X PROVE Typed(c, X)
BY DEF Typed

\* What a typed slot holds, or counts for, is an element.
LEMMA AmountIs ==
  ASSUME NEW c, Typed(c, {}) PROVE \A u : Amount(c, u) \in Value /\ Amount(c, u) \in Int
<1>1. ASSUME NEW u PROVE Amount(c, u) \in Value
  <2>1. CASE u \in DOMAIN c.grads BY <2>1 DEF Typed
  <2>2. CASE u \notin DOMAIN c.grads BY <2>2, Residue DEF Amount, HasGrad
  <2> QED BY <2>1, <2>2
<1> QED BY <1>1, Residue

\* What a rule reads is what was recorded.
Readable(c, n) ==
  \A t \in ToSet(n.in) \cup ToSet(n.saved) :
    t \in TensorId /\ (Span(t) \in Params \/ LiveStorageActive(c, Span(t)))

\* Three factors, as a rule and as the chain rule write them.
LEMMA ThreeFactors == \A a, b, k \in Int : a * b * k \in Int /\ a * b * k = (b * k) * a
<1> SUFFICES ASSUME NEW a \in Int, NEW b \in Int, NEW k \in Int
             PROVE  a * b * k \in Int /\ a * b * k = (b * k) * a
  OBVIOUS
<1> QED OBVIOUS

\* An operand of the shape of the output is not summed.
LEMMA TimesIs ==
  ASSUME NEW n, NEW p
  PROVE  /\ Times(tensors, n, p) \in Nat /\ Times(tensors, n, p) \in Int
         /\ ~ Reduces(n, p) => Times(tensors, n, p) = 1
<1> DEFINE from == tensors[n.out[1]].dims
           to   == tensors[n.in[p]].dims
           i    == IF 1 \in from \ to THEN Extent ELSE 1
           j    == IF 2 \in from \ to THEN Extent ELSE 1
<1>1. Times(tensors, n, p) = i * j BY DEF Times, Repeats
<1>2. i \in Nat /\ j \in Nat /\ (from = to => i = 1 /\ j = 1) BY AutogradAssumption
<1>3. Reduces(n, p) <=> to # from BY DEF Reduces, Dims
<1> HIDE DEF i, j
<1>4. i * j \in Nat BY <1>2
<1>5. 1 * 1 = 1 OBVIOUS
<1> QED BY <1>1, <1>2, <1>3, <1>4, <1>5

\* What is computed into new storage adds nothing yet.
LEMMA MadeSame ==
  ASSUME NEW c, Sound(c), NEW d, NEW A, NEW K, Makes(c, d, A, K)
  PROVE  /\ \A u : Amount(d, u) = Amount(c, u)
         /\ \A X : Typed(c, X) => Typed(d, X)
         /\ \A e, t, z, X : Gets(d, e, t, z, X) => Gets(c, e, t, z, X)
<1>1. d.grads = c.grads /\ \A u : Amount(d, u) = Amount(c, u)
  BY DEF Makes, Amount, HasGrad, Sound, Slots
<1> QED BY <1>1 DEF Typed, Gets

\* A result in hand, added to the gradient of t.
LEMMA ResultGets ==
  ASSUME NEW c, Sound(c), NEW t \in TensorId, NEW s \in c.held \cup Params, NEW z \in Int,
         c.mem[s] = z % Prime, NeedsGrad(t), Ok(Accumulate(c, t, s)), NEW X, t \notin X, Typed(c, X)
  PROVE  Gets(c, Accumulate(c, t, s), t, z, X)
<1>1. c.mem[s] \in Value BY Residues
<1>2. Gets(c, Accumulate(c, t, s), t, c.mem[s], X) BY <1>1, AccumulateGets
<1> QED BY <1>2, GetsResidue

\* The other result in hand stays as it is, and so do the slots of other tensors.
LEMMA ResultStays ==
  ASSUME NEW c, Sound(c), NEW t, NEW s \in c.held \cup Params, Ok(Accumulate(c, t, s)),
         c.mem[s] \in Value
  PROVE  /\ \A r : Spare(c, r) => Accumulate(c, t, s).mem[r] = c.mem[r]
         /\ \A u \in DOMAIN c.grads \ {t} : Accumulate(c, t, s).mem[c.grads[u]] = c.mem[c.grads[u]]
<1>1. \A r \in c.held \cup Params :
        (HasGrad(c, t) => r # c.grads[t]) => Accumulate(c, t, s).mem[r] = c.mem[r]
  BY AccumulateMem
<1> QED BY <1>1 DEF Spare, CanAdopt, GradStorageActive, HasGrad, Sound, Slots

\* So does it when a gradient is passed on.
LEMMA PassStays ==
  ASSUME NEW c, Sound(c), NEW from \in DOMAIN c.grads, NEW to, Ok(Pass(c, from, to)),
         Amount(c, from) \in Value, NEW r, Spare(c, r)
  PROVE  Pass(c, from, to).mem[r] = c.mem[r]
<1> DEFINE s == c.grads[from]
<1>1. Ok(c) BY DEF Pass
<1>2. s \in c.held /\ c.mem[s] \in Value BY DEF Amount, HasGrad, Sound, Slots
<1>3. CASE CanSteal(c, from, to)
  <2> DEFINE g == Without(With(c.grads, to, s), from)
  <2>1. Pass(c, from, to) = [c EXCEPT !.grads = g] BY <1>1, <1>3 DEF Pass
  <2> HIDE DEF g
  <2> QED BY <2>1, SetGrads DEF Core, Sound
<1>4. CASE ~ CanSteal(c, from, to)
  <2>1. Pass(c, from, to) = Accumulate(c, to, s) BY <1>1, <1>4 DEF Pass
  <2> QED BY <1>2, <2>1, ResultStays
<1> QED BY <1>3, <1>4

\* What mul brings: both products are there before either is added.
LEMMA RuleMulBrings ==
  ASSUME Shape, NEW c, Sound(c), Typed(c, {}), NEW n \in Node, n.op = "mul",
         NodeOK(n, Len(tensors)), Readable(c, n), n.out[1] \in DOMAIN c.grads, NEW X,
         \A t \in ToSet(n.in) : t \notin X, n.in[1] \in ToSet(n.in), n.in[2] \in ToSet(n.in),
         \A p \in {1, 2} : <<n.out[1], p>> \notin DOMAIN c.full, Ok(Rule(c, n))
  PROVE  Brings(c, Rule(c, n), n, X)
<1> DEFINE g == c.mem[c.grads[n.out[1]]]
           v == g * c.mem[Span(n.in[2])] * Times(tensors, n, 1)
           u == g * c.mem[Span(n.in[1])] * Times(tensors, n, 2)
           d == MulGrad(c, n, 1)
           e == MulGrad(d, n, 2)
           a == MulSpan(c, n, 1)
           b == MulSpan(d, n, 2)
           A == IF NeedsGrad(n.in[1]) THEN {a} ELSE {}
           B == IF NeedsGrad(n.in[2]) THEN {b} ELSE {}
           x == IF NeedsGrad(n.in[1]) THEN Accumulate(e, n.in[1], a) ELSE e
           y == IF NeedsGrad(n.in[2]) THEN Accumulate(x, n.in[2], b) ELSE x
<1>1. Rule(c, n) = y BY DEF Rule, RuleMul
<1>2. /\ n.in[1] \in TensorId /\ n.in[2] \in TensorId /\ n.in[1] \notin X /\ n.in[2] \notin X
      /\ c.mem[Span(n.in[1])] = tensors[n.in[1]].val /\ c.mem[Span(n.in[2])] = tensors[n.in[2]].val
      /\ Span(n.in[1]) \in c.held \cup Params
  BY DEF Readable, Sound, Live, LiveStorageActive
<1>3. tensors[n.in[1]].val \in Int /\ tensors[n.in[2]].val \in Int
  <2>1. tensors[n.in[1]] \in Tensor /\ tensors[n.in[2]] \in Tensor BY <1>2 DEF Shape, TensorId
  <2> QED BY <2>1, Residue DEF Tensor
<1>4. g = Upstream(c, n) /\ g \in Int
  <2>1. Amount(c, n.out[1]) \in Int /\ Amount(c, n.out[1]) = g BY AmountIs DEF Amount, HasGrad
  <2> HIDE DEF g
  <2> QED BY <2>1 DEF Upstream
<1>5. /\ v \in Int /\ v = Derivative(tensors, n, 1) * Upstream(c, n)
      /\ u \in Int /\ u = Derivative(tensors, n, 2) * Upstream(c, n)
  <2>1. /\ Derivative(tensors, n, 1) = tensors[n.in[2]].val * Times(tensors, n, 1)
        /\ Derivative(tensors, n, 2) = tensors[n.in[1]].val * Times(tensors, n, 2)
    BY DEF Derivative
  <2> DEFINE i == tensors[n.in[1]].val
             j == tensors[n.in[2]].val
             k == Times(tensors, n, 1)
             l == Times(tensors, n, 2)
  <2>2. i \in Int /\ j \in Int /\ k \in Int /\ l \in Int BY <1>3, TimesIs
  <2>3. v = g * j * k /\ u = g * i * l BY <1>2
  <2>4. Derivative(tensors, n, 1) = j * k /\ Derivative(tensors, n, 2) = i * l BY <2>1
  <2> HIDE DEF g, i, j, k, l, v, u
  <2>5. g * j * k \in Int /\ g * j * k = (j * k) * g /\ g * i * l \in Int /\ g * i * l = (i * l) * g
    BY <1>4, <2>2, ThreeFactors
  <2> QED BY <1>4, <2>3, <2>4, <2>5
<1>6. {1, 2} \subseteq DOMAIN n.in
  <2>1. n.in \in Seq(Nat) BY DEF Node
  <2> QED BY <2>1 DEF NodeOK, Binary
<1>7. /\ Makes(c, d, A, Keys(n, 1))
      /\ Ok(d) /\ NeedsGrad(n.in[1]) => d.mem[a] = v % Prime
  <2>1. 1 \in DOMAIN n.in /\ 3 - 1 = 2 BY <1>6
  <2>2. /\ Makes(c, MulGrad(c, n, 1), IF NeedsGrad(n.in[1]) THEN {MulSpan(c, n, 1)} ELSE {},
                 Keys(n, 1))
        /\ Ok(MulGrad(c, n, 1)) /\ NeedsGrad(n.in[1]) =>
             MulGrad(c, n, 1).mem[MulSpan(c, n, 1)]
               = (c.mem[c.grads[n.out[1]]] * c.mem[Span(n.in[3 - 1])]
                  * Times(tensors, n, 1)) % Prime
    BY <2>1, MulGradMakes
  <2> QED BY <2>1, <2>2
<1> HIDE DEF a, d
<1>8. /\ Makes(d, e, B, Keys(n, 2))
      /\ Ok(e) /\ NeedsGrad(n.in[2]) => e.mem[b] = u % Prime
  <2>1. Sound(d) /\ <<n.out[1], 2>> \notin DOMAIN d.full BY <1>7 DEF Makes, Keys
  <2>2. 2 \in DOMAIN n.in /\ 3 - 2 = 1 BY <1>6
  <2>3. /\ Makes(d, e, B, Keys(n, 2))
        /\ Ok(e) /\ NeedsGrad(n.in[2]) =>
             e.mem[b] = (d.mem[d.grads[n.out[1]]] * d.mem[Span(n.in[1])]
                        * Times(tensors, n, 2)) % Prime
    <3>1. /\ Makes(d, MulGrad(d, n, 2), IF NeedsGrad(n.in[2]) THEN {MulSpan(d, n, 2)} ELSE {},
                   Keys(n, 2))
          /\ Ok(MulGrad(d, n, 2)) /\ NeedsGrad(n.in[2]) =>
               MulGrad(d, n, 2).mem[MulSpan(d, n, 2)]
                 = (d.mem[d.grads[n.out[1]]] * d.mem[Span(n.in[3 - 2])]
                    * Times(tensors, n, 2)) % Prime
      BY <2>1, <2>2, MulGradMakes
    <3> QED BY <2>2, <3>1
  <2>4. d.grads = c.grads /\ c.grads[n.out[1]] \in c.held BY <1>7 DEF Makes, Sound, Slots
  <2>5. d.mem[d.grads[n.out[1]]] = g /\ d.mem[Span(n.in[1])] = c.mem[Span(n.in[1])]
    BY <1>2, <1>7, <2>4 DEF Makes
  <2> QED BY <2>3, <2>5
<1>0. /\ NeedsGrad(n.in[1]) => A = {a}
      /\ NeedsGrad(n.in[2]) => B = {b}
  OBVIOUS
<1> HIDE DEF g, v, u, b, e, A, B
<1>9. /\ Sound(e) /\ Sound(d) /\ (Ok(e) => \A s \in A \cup B : Spare(e, s))
      /\ (Ok(e) => \A s \in B : s \notin A) /\ (Ok(e) => \A s \in A : e.mem[s] = d.mem[s])
      /\ (Ok(e) => Ok(d))
  <2>1. Ok(e) => /\ \A s \in A : Spare(e, s) /\ s \notin B
                 /\ \A s \in B : Spare(e, s) /\ s \notin A
    BY <1>7, <1>8, InHand
  <2>2. Ok(d) => A \subseteq d.held BY <1>7 DEF Makes, Spare
  <2> QED BY <1>7, <1>8, <2>1, <2>2 DEF Makes
<1>10. Ok(y) /\ Ok(x) /\ Ok(e)
  <2>1. Ok(y) BY <1>1
  <2> HIDE DEF x
  <2>2. Ok(x) BY <2>1 DEF Accumulate
  <2>3. Ok(e) BY <2>2 DEF Accumulate, x
  <2> QED BY <2>1, <2>2, <2>3
<1>11. Typed(e, X) /\ \A z, t, w : Gets(e, z, t, w, X) => Gets(c, z, t, w, X)
  <2>1. Typed(c, X) BY TypedMost
  <2>2. Typed(d, X) /\ \A z, t, w : Gets(d, z, t, w, X) => Gets(c, z, t, w, X)
    BY <1>7, <2>1, MadeSame
  <2> QED BY <1>8, <1>9, <2>2, MadeSame
<1>12. /\ Gets(e, x, n.in[1], v, X) /\ Sound(x) /\ Typed(x, X)
       /\ NeedsGrad(n.in[2]) => b \in x.held /\ x.mem[b] = u % Prime
  <2>1. CASE NeedsGrad(n.in[1])
    <3>1. x = Accumulate(e, n.in[1], a) BY <2>1
    <3>2. Ok(Accumulate(e, n.in[1], a)) /\ a \in e.held /\ e.mem[a] = v % Prime /\ e.mem[a] \in Value
      BY <1>0, <1>5, <1>7, <1>9, <1>10, <2>1, <3>1, Residues DEF Spare
    <3>3. Gets(e, x, n.in[1], v, X) BY <1>2, <1>5, <1>9, <1>11, <2>1, <3>1, <3>2, ResultGets
    <3>4. Sound(x) /\ \A r : Spare(e, r) /\ r # a => Spare(x, r)
      BY <1>9, <1>10, <3>1, <3>2, AccumulateSound
    <3>5. \A r : Spare(e, r) => x.mem[r] = e.mem[r] BY <1>9, <3>1, <3>2, ResultStays
    <3> HIDE DEF x
    <3>6. Typed(x, X) BY <1>2, <1>5, <1>11, <3>3, GetsTyped
    <3> QED BY <1>0, <1>8, <1>9, <1>10, <2>1, <3>3, <3>4, <3>5, <3>6 DEF Spare
  <2>2. CASE ~ NeedsGrad(n.in[1])
    <3>1. x = e BY <2>2
    <3>2. Gets(e, e, n.in[1], v, X) BY <1>11, <2>2, GetsNothing
    <3> HIDE DEF x
    <3> QED BY <1>0, <1>8, <1>9, <1>10, <1>11, <3>1, <3>2 DEF Spare
  <2> QED BY <2>1, <2>2
<1> HIDE DEF x
<1>13. Gets(x, y, n.in[2], u, X)
  <2>1. CASE NeedsGrad(n.in[2])
    <3>1. y = Accumulate(x, n.in[2], b) BY <2>1
    <3>2. Ok(Accumulate(x, n.in[2], b)) BY <1>10, <3>1
    <3> QED BY <1>2, <1>5, <1>12, <2>1, <3>1, <3>2, ResultGets
  <2>2. CASE ~ NeedsGrad(n.in[2]) BY <1>12, <2>2, GetsNothing
  <2> QED BY <2>1, <2>2
<1> HIDE DEF y
<1> QED BY <1>1, <1>5, <1>11, <1>12, <1>13 DEF Brings, Binary

\* What add brings: the sums over what was repeated are there before the
\* output's gradient is passed on.
LEMMA RuleAddBrings ==
  ASSUME Shape, NEW c, Sound(c), Typed(c, {}), NEW n, n.op = "add",
         n.out[1] \in DOMAIN c.grads, NEW X, n.out[1] \in X, n.in[1] \notin X, n.in[2] \notin X,
         n.in[1] \in TensorId, n.in[2] \in TensorId, Ok(Rule(c, n))
  PROVE  Brings(c, Rule(c, n), n, X)
<1> DEFINE s == c.grads[n.out[1]]
           g == Amount(c, n.out[1])
           v == g * Times(tensors, n, 1)
           u == g * Times(tensors, n, 2)
           R(p) == NeedsGrad(n.in[p]) /\ Reduces(n, p)
           d == AddReduced(c, n, 1)
           e == AddReduced(d, n, 2)
           a == Fresh(c)
           b == Fresh(d)
           A == IF R(1) THEN {a} ELSE {}
           B == IF R(2) THEN {b} ELSE {}
           x == IF ~NeedsGrad(n.in[1]) THEN e
                ELSE IF Reduces(n, 1) THEN Accumulate(e, n.in[1], a)
                ELSE Pass(e, n.out[1], n.in[1])
           y == IF ~NeedsGrad(n.in[2]) THEN x
                ELSE Accumulate(x, n.in[2], IF Reduces(n, 2) THEN b ELSE s)
<1>1. Rule(c, n) = y BY DEF Rule, RuleAdd
<1>2. g \in Int /\ g \in Value /\ c.mem[s] = g /\ s \in c.held
  BY AmountIs DEF Amount, HasGrad, Sound, Slots
<1>3. /\ v \in Int /\ v = Derivative(tensors, n, 1) * Upstream(c, n)
      /\ u \in Int /\ u = Derivative(tensors, n, 2) * Upstream(c, n)
      /\ (~ Reduces(n, 1) => v = g) /\ (~ Reduces(n, 2) => u = g)
  <2>1. /\ Derivative(tensors, n, 1) = Times(tensors, n, 1)
        /\ Derivative(tensors, n, 2) = Times(tensors, n, 2)
    BY DEF Derivative
  <2>2. /\ Times(tensors, n, 1) \in Int /\ Times(tensors, n, 2) \in Int
        /\ (~ Reduces(n, 1) => Times(tensors, n, 1) = 1)
        /\ (~ Reduces(n, 2) => Times(tensors, n, 2) = 1)
    BY TimesIs
  <2>3. Upstream(c, n) = g + 0 BY DEF Upstream
  <2> HIDE DEF g
  <2>4. g + 0 = g /\ g * 1 = g BY <1>2
  <2> QED BY <1>2, <2>1, <2>2, <2>3, <2>4, Product
<1>4. /\ Makes(c, d, A, {}) /\ (Ok(d) /\ R(1) => d.mem[a] = v % Prime)
  <2>1. /\ Makes(c, d, A, {})
        /\ Ok(d) /\ R(1) =>
             d.mem[a] = (c.mem[c.grads[n.out[1]]] * Times(tensors, n, 1)) % Prime
    BY AddReducedMakes
  <2> HIDE DEF g, d, a, A
  <2> QED BY <1>2, <2>1
<1> HIDE DEF d, a
<1>5. /\ Sound(d) /\ d.grads = c.grads /\ d.mem[s] = g BY <1>2, <1>4 DEF Makes
<1>6. Makes(d, e, B, {}) /\ (Ok(e) /\ R(2) => e.mem[b] = u % Prime)
  <2>1. /\ Makes(d, e, B, {})
        /\ Ok(e) /\ R(2) =>
             e.mem[b] = (d.mem[d.grads[n.out[1]]] * Times(tensors, n, 2)) % Prime
    BY <1>5, AddReducedMakes
  <2> HIDE DEF g, e, b, B
  <2> QED BY <1>5, <2>1
<1>0. /\ A = IF R(1) THEN {a} ELSE {}
      /\ B = IF R(2) THEN {b} ELSE {}
  OBVIOUS
<1> HIDE DEF e, b, u, v, A, B
<1>7. /\ Sound(e) /\ (Ok(e) => \A r \in A \cup B : Spare(e, r))
      /\ (Ok(e) => \A r \in B : r \notin A) /\ (Ok(e) => \A r \in A : e.mem[r] = d.mem[r])
      /\ (Ok(e) => Ok(d)) /\ e.grads = c.grads /\ e.mem[s] = g
  <2>1. Ok(e) => /\ \A r \in A : Spare(e, r) /\ r \notin B
                 /\ \A r \in B : Spare(e, r) /\ r \notin A
    BY <1>4, <1>6, InHand
  <2>2. (Ok(d) => A \subseteq d.held) /\ s \in d.held BY <1>2, <1>4 DEF Makes, Spare
  <2> HIDE DEF g
  <2> QED BY <1>5, <1>6, <2>1, <2>2 DEF Makes
<1>8. Amount(e, n.out[1]) = g BY <1>7 DEF Amount, HasGrad
<1>9. Ok(y) /\ Ok(x) /\ Ok(e)
  <2>1. Ok(y) BY <1>1
  <2> HIDE DEF x
  <2>2. Ok(x) BY <2>1 DEF Accumulate
  <2>3. Ok(e) BY <2>2 DEF Accumulate, Pass, x
  <2> QED BY <2>1, <2>2, <2>3
<1>10. Typed(e, X) /\ \A z, t, w : Gets(e, z, t, w, X) => Gets(c, z, t, w, X)
  <2>1. Typed(c, X) BY TypedMost
  <2>2. Typed(d, X) /\ \A z, t, w : Gets(d, z, t, w, X) => Gets(c, z, t, w, X)
    BY <1>4, <2>1, MadeSame
  <2> QED BY <1>5, <1>6, <2>2, MadeSame
<1> HIDE DEF g
<1>11. /\ Gets(e, x, n.in[1], v, X) /\ Takes(e, x, {n.in[1]}, A) /\ x.mem[s] = g
       /\ R(2) => x.mem[b] = u % Prime
  <2>1. CASE ~NeedsGrad(n.in[1])
    <3>1. x = e /\ A = {} BY <1>0, <2>1
    <3>2. Gets(e, e, n.in[1], v, X) BY <1>10, <2>1, GetsNothing
    <3>3. Takes(e, e, {n.in[1]}, {}) BY <1>7, TakesNothing
    <3> HIDE DEF x
    <3> QED BY <1>0, <1>6, <1>7, <1>9, <3>1, <3>2, <3>3
  <2>2. CASE R(1)
    <3>1. x = Accumulate(e, n.in[1], a) /\ A = {a} BY <1>0, <2>2
    <3>2. Ok(Accumulate(e, n.in[1], a)) /\ a \in e.held /\ e.mem[a] = v % Prime /\ e.mem[a] \in Value
      BY <1>3, <1>4, <1>7, <1>9, <2>2, <3>1, Residues DEF Spare
    <3>3. Gets(e, x, n.in[1], v, X) BY <1>3, <1>7, <1>10, <2>2, <3>1, <3>2, ResultGets
    <3>4. Takes(e, x, {n.in[1]}, A) BY <1>7, <3>1, <3>2, AccumulateTakes
    <3>5. /\ \A r : Spare(e, r) => x.mem[r] = e.mem[r]
          /\ \A w \in DOMAIN e.grads \ {n.in[1]} : x.mem[e.grads[w]] = e.mem[e.grads[w]]
      BY <1>7, <3>1, <3>2, ResultStays
    <3> HIDE DEF x
    <3> QED BY <1>0, <1>6, <1>7, <1>9, <3>3, <3>4, <3>5
  <2>3. CASE NeedsGrad(n.in[1]) /\ ~ Reduces(n, 1)
    <3>1. x = Pass(e, n.out[1], n.in[1]) /\ A = {} /\ v = g BY <1>0, <1>3, <2>3
    <3>2. Ok(Pass(e, n.out[1], n.in[1])) /\ n.out[1] # n.in[1] BY <1>9, <3>1
    <3>3. Gets(e, x, n.in[1], g, X) /\ x.mem[s] = g
      BY <1>2, <1>7, <1>8, <1>10, <2>3, <3>1, <3>2, PassGets
    <3>4. Takes(e, x, {n.in[1]}, {}) BY <1>7, <3>1, PassTakes
    <3>5. \A r : Spare(e, r) => x.mem[r] = e.mem[r] BY <1>2, <1>7, <1>8, <3>1, <3>2, PassStays
    <3> HIDE DEF x
    <3> QED BY <1>0, <1>6, <1>7, <1>9, <3>1, <3>3, <3>4, <3>5
  <2> QED BY <2>1, <2>2, <2>3
<1> HIDE DEF x
<1>12. Typed(x, X) BY <1>3, <1>10, <1>11, GetsTyped
<1>13. Sound(x) BY <1>11 DEF Takes
<1>14. Gets(x, y, n.in[2], u, X)
  <2>1. CASE ~NeedsGrad(n.in[2]) BY <1>12, <2>1, GetsNothing
  <2>2. CASE R(2)
    <3>1. y = Accumulate(x, n.in[2], b) BY <2>2
    <3>2. b \in x.held BY <1>0, <1>7, <1>9, <1>11, <2>2 DEF Takes, Spare
    <3>3. Ok(Accumulate(x, n.in[2], b)) BY <1>9, <3>1
    <3> QED BY <1>3, <1>11, <1>12, <1>13, <2>2, <3>1, <3>2, <3>3, ResultGets
  <2>3. CASE NeedsGrad(n.in[2]) /\ ~ Reduces(n, 2)
    <3>1. y = Accumulate(x, n.in[2], s) BY <2>3
    <3>2. GradStorageActive(x, s)
      BY <1>7, <1>11 DEF Takes, GradStorageActive
    <3>3. s \in x.held BY <1>13, <3>2 DEF Sound, Slots, GradStorageActive
    <3>4. Ok(Accumulate(x, n.in[2], s)) /\ u = g BY <1>3, <1>9, <2>3, <3>1
    <3> QED BY <1>2, <1>11, <1>12, <1>13, <2>3, <3>1, <3>3, <3>4, AccumulateGets
  <2> QED BY <2>1, <2>2, <2>3
<1> HIDE DEF y
<1> QED BY <1>1, <1>3, <1>10, <1>11, <1>14 DEF Brings, Binary

\* What a rule that passes the output's gradient on to one input, or copies it,
\* leaves for the rest of the rule: the output's gradient where it was.
LEMMA PassesOn ==
  ASSUME Shape, NEW c, Sound(c), Typed(c, {}), NEW from \in DOMAIN c.grads, NEW to \in TensorId,
         NEW X, from \in X, to \notin X,
         Ok(IF NeedsGrad(to) THEN Pass(c, from, to) ELSE c)
  PROVE  LET d == IF NeedsGrad(to) THEN Pass(c, from, to) ELSE c IN
         /\ Sound(d) /\ d.refs = c.refs /\ c.held \subseteq d.held
         /\ Gets(c, d, to, Amount(c, from), X) /\ Typed(d, X)
         /\ d.mem[c.grads[from]] = Amount(c, from)
<1>1. Typed(c, X) /\ Amount(c, from) \in Value /\ Amount(c, from) \in Int BY TypedMost, AmountIs
<1>2. CASE NeedsGrad(to)
  <2> DEFINE d == Pass(c, from, to)
  <2>1. Ok(d) BY <1>2
  <2>2. Gets(c, d, to, Amount(c, from), X) /\ d.mem[c.grads[from]] = Amount(c, from)
    BY <1>1, <1>2, <2>1, PassGets
  <2>3. Takes(c, d, {to}, {}) /\ c.held \subseteq d.held BY <2>1, PassTakes DEF Takes
  <2> HIDE DEF d
  <2>4. Typed(d, X) BY <1>1, <2>2, GetsTyped
  <2> QED BY <1>2, <2>2, <2>3, <2>4 DEF Takes, d
<1>3. CASE ~ NeedsGrad(to)
  <2>1. Gets(c, c, to, Amount(c, from), X) BY <1>1, <1>3, GetsNothing
  <2>2. c.mem[c.grads[from]] = Amount(c, from) BY DEF Amount, HasGrad
  <2> QED BY <1>1, <1>3, <2>1, <2>2
<1> QED BY <1>2, <1>3

\* A slot's storage, added to the gradient of t.
LEMMA SharedGets ==
  ASSUME Shape, NEW c, Sound(c), NEW t, NEW s \in c.held, NEW X, t \notin X, Typed(c, X),
         c.mem[s] \in Value, Ok(IF NeedsGrad(t) THEN Accumulate(c, t, s) ELSE c)
  PROVE  Gets(c, IF NeedsGrad(t) THEN Accumulate(c, t, s) ELSE c, t, c.mem[s], X)
<1>1. CASE NeedsGrad(t)
  <2>1. Ok(Accumulate(c, t, s)) BY <1>1
  <2>2. Gets(c, Accumulate(c, t, s), t, c.mem[s], X) BY <1>1, <2>1, AccumulateGets
  <2> QED BY <1>1, <2>2
<1>2. CASE ~ NeedsGrad(t) BY <1>2, GetsNothing
<1> QED BY <1>1, <1>2

\* What stands in a sequence is in its set.
LEMMA Listed == ASSUME NEW q \in Seq(Nat), NEW i \in 1 .. Len(q) PROVE q[i] \in ToSet(q)
BY DEF ToSet

\* Every rule brings each input the derivative times what came to the outputs,
\* wherever the result of one input is stolen, adopted or copied, and whatever
\* the rule does before the other.
LEMMA RuleBrings ==
  ASSUME Shape, NEW c, Sound(c), Typed(c, {}), NEW n \in Node, NodeOK(n, Len(tensors)),
         Readable(c, n), \E i \in DOMAIN n.out : HasGrad(c, n.out[i]),
         \A p \in {1, 2} : <<n.out[1], p>> \notin DOMAIN c.full,
         Saves(n.op) => tensors[n.saved[1]].val = Mask, Ok(Rule(c, n))
  PROVE  Brings(c, Rule(c, n), n, ToSet(n.out))
<1> DEFINE d == Rule(c, n)
           X == ToSet(n.out)
           o == n.out[1]
           x == n.in[1]
           y == n.in[2]
           g == Amount(c, o)
           D(p) == Derivative(tensors, n, p)
<1>1. n.op \in {"add", "mul", "dropout", "dropout_add", "split", "reshape"}
  BY AutogradAssumption DEF Node
<1>2. n.in \in Seq(Nat) /\ n.out \in Seq(Nat) /\ n.saved \in Seq(Nat) BY DEF Node
<1>3. x \in ToSet(n.in) /\ (Binary(n.op) => y \in ToSet(n.in))
  <2>1. 1 \in 1 .. Len(n.in) /\ (Binary(n.op) => 2 \in 1 .. Len(n.in)) BY ONLY NodeOK(n, Len(tensors)) DEF NodeOK
  <2> QED BY ONLY <1>2, <2>1, Listed
<1>4. n.op # "split" => o \in DOMAIN c.grads
  BY <1>2 DEF NodeOK, Outputs, HasGrad
<1>5. o \in X
  <2>1. 1 \in 1 .. Len(n.out) BY ONLY NodeOK(n, Len(tensors)) DEF NodeOK, Outputs
  <2> QED BY ONLY <1>2, <2>1, Listed
<1>6. \A t \in ToSet(n.in) : t \notin X /\ t \in TensorId
  <2>1. ASSUME NEW t \in ToSet(n.in), t \in X PROVE FALSE
    <3>1. t < t /\ t \in TensorId BY <2>1 DEF NodeOK, Readable
    <3> QED BY <3>1 DEF TensorId
  <2> QED BY <2>1 DEF Readable
<1>7. Typed(c, X) BY TypedMost
<1>8. \A u : Amount(c, u) \in Value /\ Amount(c, u) \in Int BY AmountIs
<1>9. n.op # "split" => /\ Upstream(c, n) = g /\ c.mem[c.grads[o]] = g
                        /\ c.grads[o] \in c.held
  <2>1. g \in Int BY <1>8
  <2>2. n.op # "split" => Upstream(c, n) = g + 0 BY DEF Upstream
  <2>3. g + 0 = g
    <3> HIDE DEF g
    <3> QED BY <2>1
  <2> QED BY <1>4, <2>2, <2>3 DEF Amount, HasGrad, Sound, Slots
<1>10. /\ Saves(n.op) => D(IF n.op = "dropout" THEN 1 ELSE 2) = Mask
       /\ n.op \in {"dropout_add", "split", "reshape"} => D(1) = 1
  BY DEF Derivative, Saves
<1>11. Saves(n.op) => /\ n.saved[1] \in TensorId
                      /\ Span(n.saved[1]) \in Params \/ LiveStorageActive(c, Span(n.saved[1]))
  <2>1. Saves(n.op) => n.saved[1] \in ToSet(n.saved) BY <1>2 DEF NodeOK, ToSet
  <2> QED BY <2>1 DEF Readable
<1>12. ASSUME NEW e, Sound(e), e.refs = c.refs, Saves(n.op) PROVE e.mem[Span(n.saved[1])] = Mask
  BY <1>11, <1>12 DEF Sound, Live, LiveStorageActive
<1>13. g \in Int /\ g \in Value BY <1>8
<1>14. 1 * g = g /\ g * Mask = Mask * g /\ Mask * g \in Int
  <2> HIDE DEF g
  <2> QED BY <1>13 DEF Mask
<1> HIDE DEF X, D
<1>15. CASE n.op = "add"
  <2>1. y \in ToSet(n.in) BY <1>3, <1>15 DEF Binary
  <2>2. x \notin X /\ y \notin X /\ x \in TensorId /\ y \in TensorId BY <1>3, <1>6, <2>1
  <2> QED BY <1>4, <1>5, <1>15, <2>2, RuleAddBrings DEF X
<1>16. CASE n.op = "mul"
  <2>1. y \in ToSet(n.in) BY <1>3, <1>16 DEF Binary
  <2> QED BY <1>3, <1>4, <1>6, <1>16, <2>1, RuleMulBrings DEF X
<1>17. CASE n.op = "dropout"
  <2> DEFINE v == c.mem[c.grads[o]] * c.mem[Span(n.saved[1])]
  <2>1. d = Contribute(c, x, v) BY <1>17 DEF Rule, RuleDropout
  <2>2. Saves(n.op) /\ ~ Binary(n.op) BY <1>17 DEF Saves, Binary
  <2>3. v = Mask * g BY <1>9, <1>12, <1>14, <1>17, <2>2
  <2>4. D(1) * Upstream(c, n) = Mask * g BY <1>9, <1>10, <1>17, <2>2
  <2> HIDE DEF v, g
  <2>5. Gets(c, d, x, v, X) BY <1>3, <1>6, <1>7, <1>14, <2>1, <2>3, ContributeGets
  <2> QED BY <2>2, <2>3, <2>4, <2>5 DEF Brings, D, X
<1>18. CASE n.op = "dropout_add"
  <2> DEFINE p == IF NeedsGrad(x) THEN Pass(c, o, x) ELSE c
             v == p.mem[c.grads[o]] * p.mem[Span(n.saved[1])]
             e == Contribute(p, y, v)
  <2>0. d = RuleDropoutAdd(c, n) BY ONLY <1>18 DEF Rule
  <2>1. d = e
    <3> HIDE DEF d
    <3> QED BY ONLY <2>0, Zenon DEF RuleDropoutAdd
  <2>a. Ok(d) BY ONLY Ok(Rule(c, n))
  <2>2. Ok(e)
    <3> HIDE DEF d, e
    <3> QED BY ONLY <2>1, <2>a
  <2>3. Ok(p)
    <3> HIDE DEF v, p
    <3> QED BY <2>2 DEF Contribute, Accumulate, Produce
  <2>4. /\ Sound(p) /\ p.refs = c.refs
        /\ Gets(c, p, x, g, X) /\ Typed(p, X) /\ p.mem[c.grads[o]] = g
    BY <1>3, <1>4, <1>5, <1>6, <1>18, <2>3, PassesOn
  <2>5. Saves(n.op) /\ Binary(n.op) BY <1>18 DEF Saves, Binary
  <2> HIDE DEF p, g
  <2>6. v = Mask * g BY <1>12, <1>14, <2>4, <2>5
  <2> HIDE DEF v
  <2>7. Gets(p, e, y, v, X) BY <1>3, <1>6, <1>14, <2>2, <2>4, <2>5, <2>6, ContributeGets
  <2> HIDE DEF e
  <2>8. D(1) * Upstream(c, n) = g /\ D(2) * Upstream(c, n) = Mask * g
    BY <1>9, <1>10, <1>14, <1>18, <2>5
  <2> QED BY <2>1, <2>4, <2>5, <2>6, <2>7, <2>8 DEF Brings, D, X
<1>19. CASE n.op = "split"
  <2> DEFINE v == SplitGrad(c, n)
             r == Amount(c, n.out[2])
  <2>1. d = Contribute(c, x, v) BY <1>19 DEF Rule, RuleSplit
  <2>2. v = g + r BY DEF SplitGrad, Amount
  <2>3. r \in Int BY <1>8
  <2>4. D(1) * Upstream(c, n) = 1 * (g + r) BY <1>10, <1>19 DEF Upstream
  <2> HIDE DEF v, g, r
  <2>5. v \in Int /\ 1 * (g + r) = v BY <1>13, <2>2, <2>3
  <2>6. Gets(c, d, x, v, X) BY <1>3, <1>6, <1>7, <2>1, <2>5, ContributeGets
  <2>7. ~ Binary(n.op) BY <1>19 DEF Binary
  <2> QED BY <2>4, <2>5, <2>6, <2>7 DEF Brings, D, X
<1>20. CASE n.op = "reshape"
  <2> DEFINE e == IF NeedsGrad(x) THEN Accumulate(c, x, c.grads[o]) ELSE c
  <2>1. d = e BY <1>20 DEF Rule, RuleReshape
  <2>2. Ok(e) BY <2>1
  <2>3. c.mem[c.grads[o]] = g /\ c.grads[o] \in c.held BY <1>9, <1>20
  <2> HIDE DEF g
  <2>4. Gets(c, e, x, g, X) BY <1>3, <1>6, <1>7, <1>13, <2>2, <2>3, SharedGets
  <2> HIDE DEF e
  <2>5. ~ Binary(n.op) BY <1>20 DEF Binary
  <2>6. D(1) * Upstream(c, n) = g BY <1>9, <1>10, <1>14, <1>20
  <2> QED BY <2>1, <2>4, <2>5, <2>6 DEF Brings, D, X
<1> QED BY <1>1, <1>15, <1>16, <1>17, <1>18, <1>19, <1>20 DEF X

\* What the tape says of its tensors: every output needs a gradient and is no
\* parameter, and what dropout saves is its mask.
Flow ==
  /\ Len(Leaves) <= Len(tensors)
  /\ \A i \in DOMAIN tape :
       /\ \A t \in ToSet(tape[i].out) : NeedsGrad(t) /\ t > Len(Leaves)
       /\ Saves(tape[i].op) => tensors[tape[i].saved[1]].val = Mask
       /\ tape[i].op = "split" => tape[i].out[1] # tape[i].out[2]

SeedsAre(sd) ==
  IsFiniteSet(DOMAIN sd.outputs) /\ \A i \in DOMAIN sd.outputs : SeedOf(tensors, sd, i) \in Int

\* The outputs of a node are one or two, and a sum over them is of one or two.
LEMMA OutputSum ==
  ASSUME NEW n \in Node, NodeOK(n, Len(tensors)), n.op = "split" => n.out[1] # n.out[2]
  PROVE  /\ IsFiniteSet(ToSet(n.out)) /\ n.out[1] \in ToSet(n.out)
         /\ n.op = "split" => n.out[2] \in ToSet(n.out)
         /\ \A f : (\A t \in ToSet(n.out) : f[t] \in Int) =>
              SumFunctionOnSet(f, ToSet(n.out)) =
                f[n.out[1]] + (IF n.op = "split" THEN f[n.out[2]] ELSE 0)
<1> DEFINE X == ToSet(n.out)
           x == n.out[1]
           y == n.out[2]
<1>1. n.out \in Seq(Nat) /\ Len(n.out) = Outputs(n.op) BY DEF Node, NodeOK
<1>2. X = IF n.op = "split" THEN {x, y} ELSE {x}
  <2>1. CASE n.op = "split"
    <3>1. DOMAIN n.out = {1, 2} BY <1>1, <2>1 DEF Outputs
    <3> QED BY <2>1, <3>1 DEF ToSet
  <2>2. CASE n.op # "split"
    <3>1. DOMAIN n.out = {1} BY <1>1, <2>2 DEF Outputs
    <3> QED BY <2>2, <3>1 DEF ToSet
  <2> QED BY <2>1, <2>2
<1> HIDE DEF X
<1>3. IsFiniteSet({}) /\ IsFiniteSet({x}) /\ IsFiniteSet({y}) /\ IsFiniteSet({x, y})
  <2>1. IsFiniteSet({}) BY FS_EmptySet
  <2>2. IsFiniteSet({} \cup {x}) /\ IsFiniteSet({} \cup {y}) BY <2>1, FS_AddElement
  <2>3. {} \cup {x} = {x} /\ {} \cup {y} = {y} OBVIOUS
  <2>4. IsFiniteSet({x} \cup {y}) BY <2>2, <2>3, FS_AddElement
  <2>5. {x} \cup {y} = {x, y} OBVIOUS
  <2> QED BY <2>1, <2>2, <2>3, <2>4, <2>5
<1>4. ASSUME NEW f, \A t \in X : f[t] \in Int
      PROVE  SumFunctionOnSet(f, X) = f[x] + (IF n.op = "split" THEN f[y] ELSE 0)
  <2>1. SumFunctionOnSet(f, {}) = 0 BY <1>3, SumFirst
  <2>2. CASE n.op = "split"
    <3>1. X = {x, y} /\ x # y BY <1>2, <2>2
    <3>2. X \ {x} = {y} /\ {y} \ {y} = {} /\ x \in X /\ y \in X BY <3>1
    <3>3. f[x] \in Int /\ f[y] \in Int BY <1>4, <3>2
    <3>4. SumFunctionOnSet(f, X) = f[x] + SumFunctionOnSet(f, X \ {x}) BY <1>3, <1>4, <3>1, <3>2, SumTake
    <3>5. SumFunctionOnSet(f, {y}) = f[y] + SumFunctionOnSet(f, {y} \ {y}) BY <1>3, <3>3, SumTake
    <3>6. f[y] + 0 = f[y] BY <3>3
    <3> QED BY <2>1, <2>2, <3>2, <3>4, <3>5, <3>6
  <2>3. CASE n.op # "split"
    <3>1. X = {x} /\ {x} \ {x} = {} BY <1>2, <2>3
    <3>2. f[x] \in Int BY <1>4, <3>1
    <3>3. SumFunctionOnSet(f, {x}) = f[x] + SumFunctionOnSet(f, {x} \ {x}) BY <1>3, <3>2, SumTake
    <3> QED BY <2>1, <2>3, <3>1, <3>3
  <2> QED BY <2>2, <2>3
<1> QED BY <1>2, <1>3, <1>4 DEF X

\* A tape that is shaped as it should be has no cycle, and computes in integers.
LEMMA TapeFlows ==
  ASSUME Shape, Flow, NEW sd, SeedsAre(sd)
  PROVE  Acyclic(tensors, tape) /\ Integral(tensors, tape, sd)
<1>1. Len(tensors) \in Nat /\ Len(tape) \in Nat /\ DOMAIN tape = 1 .. Len(tape) BY DEF Shape
<1>2. ASSUME NEW k \in 1 .. Len(tape)
      PROVE  /\ IsFiniteSet(ToSet(tape[k].out)) /\ ToSet(tape[k].out) \subseteq 1 .. Len(tensors)
             /\ \A p \in {1, 2} : p <= Len(tape[k].in) =>
                  /\ \A u \in ToSet(tape[k].out) : tape[k].in[p] < u
                  /\ Derivative(tensors, tape[k], p) \in Int
  <2> DEFINE n == tape[k]
  <2>1. n \in Node /\ NodeOK(n, Len(tensors)) BY <1>1 DEF Shape
  <2>2. IsFiniteSet(ToSet(n.out)) BY <1>1, <2>1, OutputSum DEF Flow
  <2> HIDE DEF n
  <2>3. ToSet(n.out) \subseteq 1 .. Len(tensors) BY <2>1 DEF NodeOK
  <2>4. ASSUME NEW p \in {1, 2}, p <= Len(n.in) PROVE n.in[p] \in ToSet(n.in)
    <3>1. n.in \in Seq(Nat) BY <2>1 DEF Node
    <3> QED BY <2>4, <3>1 DEF ToSet
  <2>5. ASSUME NEW p \in {1, 2}, p <= Len(n.in) PROVE Derivative(tensors, n, p) \in Int
    <3>1. CASE n.op = "mul"
      <4>1. Len(n.in) = 2 BY <2>1, <3>1 DEF NodeOK, Binary
      <4>2. 3 - p \in {1, 2} /\ 3 - p <= Len(n.in) BY <4>1
      <4>3. n.in[3 - p] \in 1 .. Len(tensors) BY <2>1, <2>4, <4>2 DEF NodeOK
      <4>4. tensors[n.in[3 - p]] \in Tensor BY <4>3 DEF Shape
      <4>5. tensors[n.in[3 - p]].val \in Int BY <4>4, Residue DEF Tensor
      <4>6. Derivative(tensors, n, p) = tensors[n.in[3 - p]].val * Times(tensors, n, p)
        BY <3>1 DEF Derivative
      <4>7. Times(tensors, n, p) \in Int BY TimesIs
      <4> QED BY <4>5, <4>6, <4>7
    <3>2. CASE n.op = "add"
      <4>1. Derivative(tensors, n, p) = Times(tensors, n, p) BY <3>2 DEF Derivative
      <4> QED BY <4>1, TimesIs
    <3>3. CASE n.op # "mul" /\ n.op # "add" BY <3>3 DEF Derivative, Mask
    <3> QED BY <3>1, <3>2, <3>3
  <2>6. \A p \in {1, 2} : p <= Len(n.in) => \A u \in ToSet(n.out) : n.in[p] < u
    BY <2>1, <2>4 DEF NodeOK
  <2> QED BY <2>2, <2>3, <2>5, <2>6 DEF n
<1> QED BY <1>1, <1>2 DEF Acyclic, Integral, SeedsAre

\* Multiples of numbers that are the same modulo the prime are too.
LEMMA ResidueTimes ==
  ASSUME NEW d \in Int, NEW a \in Int, NEW b \in Int, a % Prime = b % Prime
  PROVE  (d * a) % Prime = (d * b) % Prime
<1>1. PICK k \in Int : a = b + 97 * k
  <2> DEFINE q == a \div 97
             r == b \div 97
  <2>1. a = 97 * q + (a % 97) /\ b = 97 * r + (b % 97) /\ q \in Int /\ r \in Int OBVIOUS
  <2>2. a % 97 = b % 97 /\ a % 97 \in Int BY DEF Prime
  <2> HIDE DEF q, r
  <2>3. a = b + 97 * (q - r) /\ q - r \in Int BY <2>1, <2>2
  <2> QED BY <2>3
<1> DEFINE m == d * k
           x == d * b
<1>2. d * a = x + 97 * m
  <2>1. d * (b + 97 * k) = d * b + 97 * (d * k) OBVIOUS
  <2> QED BY <1>1, <2>1
<1>3. m \in Int /\ x \in Int OBVIOUS
<1> HIDE DEF m, x
<1>4. (x + 97 * m) % 97 = x % 97 BY <1>3
<1> QED BY <1>2, <1>4 DEF Prime, x

\* Residues can be taken of a sum's terms.
LEMMA ResidueSums ==
  \A a, b \in Int : ((a % Prime) + (b % Prime)) % Prime = (a + b) % Prime
BY DEF Prime

\* The same, of two sums in a row.
LEMMA ResidueGains ==
  ASSUME NEW s \in Int, NEW y \in Int, NEW z \in Int, NEW g \in Int, NEW h \in Int,
         y % Prime = g % Prime, z % Prime = h % Prime
  PROVE  ((((s % Prime) + y) % Prime) + z) % Prime = (s + g + h) % Prime
BY DEF Prime

\* The nodes that computed t, if any, are not after w.
ComputedBy(t, w) == \A i \in DOMAIN tape : t \in ToSet(tape[i].out) => i <= w

\* Halfway through the walk, before node w, the slots hold what has come back
\* so far, modulo the prime; nothing has come to a tensor without a slot.
Right(c, w) ==
  /\ Typed(c, {})
  /\ \A t \in TensorId : NeedsGrad(t) /\ ComputedBy(t, w) =>
       IF HasGrad(c, t) THEN Amount(c, t) = SoFar(tensors, tape, seeds, t, w) % Prime
       ELSE SoFar(tensors, tape, seeds, t, w) = 0

\* When its turn comes, all has come back to the outputs of a node.
LEMMA OutputsRight ==
  ASSUME Shape, Flow, SeedsAre(seeds), NEW w \in DOMAIN tape, NEW c, Right(c, w),
         NEW t \in ToSet(tape[w].out)
  PROVE  /\ t \in TensorId /\ NeedsGrad(t) /\ Adjoint[t] \in Int
         /\ Amount(c, t) = Adjoint[t] % Prime
         /\ ~ HasGrad(c, t) => Adjoint[t] = 0
<1>1. Acyclic(tensors, tape) /\ Integral(tensors, tape, seeds) BY TapeFlows
<1>2. DOMAIN tape = 1 .. Len(tape) /\ Len(tape) \in Nat BY DEF Shape
<1>3. t \in TensorId /\ NeedsGrad(t) /\ t \in 1 .. Len(tensors) /\ t \in Int
  BY DEF Shape, NodeOK, TensorId, Flow
<1>4. Adjoint[t] \in Int BY <1>1, <1>3, ChainRuleInt DEF Adjoint
<1>5. ASSUME NEW i \in DOMAIN tape, t \in ToSet(tape[i].out), ~ (i <= w) PROVE FALSE
  <2>1. w < i BY <1>2, <1>5
  <2>2. t < t BY <1>5, <2>1 DEF Shape
  <2> QED BY <1>3, <2>2
<1>6. ASSUME NEW kp \in Uses(tape, t), ~ (kp[1] > w) PROVE FALSE
  <2>1. kp[1] \in 1 .. Len(tape) /\ \A u \in ToSet(tape[kp[1]].out) : t < u BY <1>1, UseIs
  <2>2. kp[1] = w \/ kp[1] < w BY <1>2, <1>6, <2>1
  <2>3. CASE kp[1] = w
    <3>1. t < t BY <2>1, <2>3
    <3> QED BY <1>3, <3>1
  <2>4. CASE kp[1] < w
    <3>1. NodeOK(tape[kp[1]], Len(tensors)) /\ tape[kp[1]] \in Node BY <1>2, <2>1 DEF Shape
    <3> DEFINE u == tape[kp[1]].out[1]
    <3>2. u \in ToSet(tape[kp[1]].out) BY <3>1 DEF NodeOK, Node, Outputs, ToSet
    <3>3. t < u /\ u < t BY <1>2, <2>1, <2>4, <3>2 DEF Shape
    <3>4. u \in Int BY <3>1, <3>2 DEF NodeOK
    <3> HIDE DEF u
    <3> QED BY <1>3, <3>3, <3>4
  <2> QED BY <2>2, <2>3, <2>4
<1>7. SoFar(tensors, tape, seeds, t, w) = Adjoint[t] BY <1>1, <1>3, <1>6, SoFarEnds DEF Adjoint
<1>8. ComputedBy(t, w) BY <1>5 DEF ComputedBy
<1>9. IF HasGrad(c, t) THEN Amount(c, t) = Adjoint[t] % Prime ELSE Adjoint[t] = 0
  BY <1>3, <1>7, <1>8 DEF Right
<1>10. ~ HasGrad(c, t) => Amount(c, t) = 0 BY DEF Amount
<1> QED BY <1>3, <1>4, <1>9, <1>10, Residue

\* What the rule of node w multiplies is, modulo the prime, what the chain rule does.
LEMMA UpstreamRight ==
  ASSUME Shape, Flow, SeedsAre(seeds), NEW w \in DOMAIN tape, NEW c, Right(c, w)
  PROVE  LET n == tape[w]
             S == SumFunctionOnSet(Adjoint, ToSet(n.out))
         IN  /\ S \in Int /\ Upstream(c, n) \in Int /\ Upstream(c, n) % Prime = S % Prime
             /\ (\A i \in DOMAIN n.out : ~ HasGrad(c, n.out[i])) => S = 0
<1> DEFINE n == tape[w]
           S == SumFunctionOnSet(Adjoint, ToSet(n.out))
           x == n.out[1]
           y == n.out[2]
           a == Adjoint[x]
           b == Adjoint[y]
<1>1. n \in Node /\ NodeOK(n, Len(tensors)) /\ (n.op = "split" => n.out[1] # n.out[2])
  BY DEF Shape, Flow
<1>2. \A t \in ToSet(n.out) : /\ Adjoint[t] \in Int /\ Amount(c, t) = Adjoint[t] % Prime
                              /\ ~ HasGrad(c, t) => Adjoint[t] = 0
  BY OutputsRight
<1>3. /\ x \in ToSet(n.out) /\ (n.op = "split" => y \in ToSet(n.out))
      /\ S = a + (IF n.op = "split" THEN b ELSE 0)
  BY <1>1, <1>2, OutputSum
<1>4. a \in Int /\ Amount(c, x) = a % Prime BY <1>2, <1>3
<1>5. n.op = "split" => b \in Int /\ Amount(c, y) = b % Prime BY <1>2, <1>3
<1>6. Upstream(c, n) = Amount(c, x) + (IF n.op = "split" THEN Amount(c, y) ELSE 0) BY DEF Upstream
<1>7. ASSUME \A i \in DOMAIN n.out : ~ HasGrad(c, n.out[i]) PROVE S = 0
  <2>1. \A t \in ToSet(n.out) : Adjoint[t] = 0 BY <1>2, <1>7 DEF ToSet
  <2> HIDE DEF S, n
  <2> QED BY <1>3, <2>1
<1> HIDE DEF S, a, b, x, y, n
<1>8. CASE n.op = "split"
  <2>1. Upstream(c, n) = (a % Prime) + (b % Prime) /\ S = a + b BY <1>3, <1>4, <1>5, <1>6, <1>8
  <2>2. a % Prime \in Int /\ b % Prime \in Int BY <1>4, <1>5, <1>8 DEF Prime
  <2>3. ((a % Prime) + (b % Prime)) % Prime = (a + b) % Prime BY <1>4, <1>5, <1>8, ResidueSums
  <2> QED BY <1>4, <1>5, <1>7, <1>8, <2>1, <2>2, <2>3 DEF S, n
<1>9. CASE n.op # "split"
  <2>1. Upstream(c, n) = (a % Prime) + 0 /\ S = a + 0 BY <1>3, <1>4, <1>6, <1>9
  <2>2. a % Prime \in Value BY <1>4, Residues
  <2>3. (a % Prime) + 0 = a % Prime /\ (a % Prime) % Prime = a % Prime BY <2>2, Unchanged
  <2>4. a + 0 = a BY <1>4
  <2>5. a % Prime \in Int BY <2>2 DEF Value
  <2> QED BY <1>4, <1>7, <2>1, <2>3, <2>4, <2>5 DEF S, n
<1> QED BY <1>8, <1>9

\* A visit brings to every tensor what the chain rule says of it.
LEMMA VisitRight ==
  ASSUME Shape, Flow, SeedsAre(seeds), NEW w \in DOMAIN tape, NEW c, Sound(c), Ok(c),
         Accounted(c, {}), Counts(c, w, 0), Fulls(c, w), Right(c, w), Readable(c, tape[w]),
         Ok(Visit(c, tape[w]))
  PROVE  Right(Visit(c, tape[w]), w - 1)
<1> DEFINE n == tape[w]
           X == ToSet(n.out)
           d == Visit(c, n)
           S == SumFunctionOnSet(Adjoint, X)
           U == Upstream(c, n)
           D(p) == Derivative(tensors, n, p)
           At(p, t) == p <= Len(n.in) /\ n.in[p] = t
           G(t, p) == IF At(p, t) THEN D(p) * S ELSE 0
           Z(t, p) == IF At(p, t) THEN D(p) * U ELSE 0
           F(t, v) == SoFar(tensors, tape, seeds, t, v)
           \* What is to be shown of one tensor.
           Gained(t) == IF HasGrad(d, t) THEN Amount(d, t) = F(t, w - 1) % Prime
                        ELSE F(t, w - 1) = 0
<1>1. Acyclic(tensors, tape) /\ Integral(tensors, tape, seeds) BY TapeFlows
<1>2. w \in 1 .. Len(tape) /\ Len(tape) \in Nat /\ DOMAIN tape \subseteq Int BY DEF Shape
<1>3. n \in Node /\ NodeOK(n, Len(tensors)) BY DEF Shape
<1>4. /\ S \in Int /\ U \in Int /\ U % Prime = S % Prime
      /\ (\A i \in DOMAIN n.out : ~ HasGrad(c, n.out[i])) => S = 0
  BY UpstreamRight
<1>5. \A p \in {1, 2} : p <= Len(n.in) => D(p) \in Int BY <1>1, <1>2 DEF Integral
<1>6. ASSUME NEW t \in TensorId
      PROVE  /\ F(t, w) \in Int /\ G(t, 1) \in Int /\ G(t, 2) \in Int
             /\ F(t, w - 1) = F(t, w) + G(t, 1) + G(t, 2)
  <2>1. t \in 1 .. Len(tensors) BY DEF TensorId
  <2>2. \A p \in {1, 2} : G(t, p) = Gain(tensors, tape, seeds, t, w, p) BY DEF Gain, Back, Adjoint
  <2> HIDE DEF G
  <2> QED BY <1>1, <1>2, <2>1, <2>2, SoFarStep
<1>7. ASSUME NEW t, NEW p \in {1, 2} PROVE Z(t, p) \in Int /\ Z(t, p) % Prime = G(t, p) % Prime
  <2>1. CASE At(p, t)
    <3>1. D(p) \in Int BY <1>5, <2>1
    <3> HIDE DEF D, S, U
    <3>2. D(p) * U \in Int /\ (D(p) * U) % Prime = (D(p) * S) % Prime BY <1>4, <3>1, ResidueTimes
    <3> QED BY <2>1, <3>2
  <2>2. CASE ~ At(p, t) BY <2>2
  <2> QED BY <2>1, <2>2
<1>8. ASSUME NEW t \in TensorId, ComputedBy(t, w - 1) PROVE t \notin X /\ ComputedBy(t, w)
  <2>1. ~ (w <= w - 1) /\ \A i \in DOMAIN tape : i <= w - 1 => i <= w BY <1>2
  <2> QED BY <1>8, <2>1 DEF ComputedBy
<1>9. Typed(c, {}) /\ \A t \in TensorId : NeedsGrad(t) /\ ComputedBy(t, w) =>
        IF HasGrad(c, t) THEN Amount(c, t) = F(t, w) % Prime ELSE F(t, w) = 0
  BY DEF Right
<1>10. ASSUME NEW t \in TensorId, NeedsGrad(t), ComputedBy(t, w) PROVE Amount(c, t) = F(t, w) % Prime
  <2>1. ~ HasGrad(c, t) => Amount(c, t) = 0 BY DEF Amount
  <2> HIDE DEF F
  <2> QED BY <1>9, <1>10, <2>1, Residue
<1>11. CASE \A i \in DOMAIN n.out : ~ HasGrad(c, n.out[i])
  <2>1. d = ReleaseForwardRefs(c, n) BY <1>11 DEF Visit
  <2>2. d.grads = c.grads /\ d.mem = c.mem BY <2>1, ReleaseForwardRefsSound
  <2> HIDE DEF d
  <2>3. \A t : (HasGrad(d, t) <=> HasGrad(c, t)) /\ Amount(d, t) = Amount(c, t)
    BY <2>2 DEF Amount, HasGrad
  <2>4. Typed(d, {}) BY <1>9, <2>2, <2>3 DEF Typed
  <2>5. ASSUME NEW t \in TensorId, NeedsGrad(t), ComputedBy(t, w - 1) PROVE Gained(t)
    <3>1. \A p \in {1, 2} : G(t, p) = 0
      <4>1. S = 0 BY <1>4, <1>11
      <4> HIDE DEF S, D
      <4>2. \A p \in {1, 2} : p <= Len(n.in) => D(p) * S = 0 BY <1>5, <4>1
      <4> QED BY <4>2
    <3> HIDE DEF G, F
    <3>2. F(t, w - 1) = F(t, w) BY <1>6, <3>1
    <3> QED BY <1>8, <1>9, <2>3, <2>5, <3>2
  <2> QED BY <2>4, <2>5 DEF Right, d
<1>12. CASE \E i \in DOMAIN n.out : HasGrad(c, n.out[i])
  <2> DEFINE a == Rule(c, n)
             b == ReleaseOutputGrads(a, n)
  <2>1. d = ReleaseForwardRefs(b, n) BY <1>12 DEF Visit
  <2>2. Advances(c, a, ToSet(n.in), Unreduced(n)) BY <1>3, <1>12, NoneKept, RuleSound
  <2>3. /\ Advances(a, b, {}, {}) /\ (Ok(b) => DOMAIN b.grads = DOMAIN a.grads \ X)
        /\ b.mem = a.mem /\ \A u \in DOMAIN b.grads : b.grads[u] = a.grads[u]
    <3>1. Sound(a) BY <2>2 DEF Advances
    <3> HIDE DEF a
    <3> QED BY <1>3, <3>1, ReleaseOutputGradsSound
  <2>4. Advances(c, b, ToSet(n.in) \cup {}, Unreduced(n))
    <3> HIDE DEF a, b
    <3> QED BY <2>2, <2>3, Onward
  <2>5. /\ d.grads = b.grads /\ d.mem = b.mem /\ Ok(b)
    <3> HIDE DEF b
    <3>1. Sound(b) /\ b.refs = c.refs /\ Accounted(b, {}) BY <2>4 DEF Advances
    <3>2. Counts(b, w, 0) BY <3>1 DEF Counts
    <3> QED BY <2>1, <3>1, <3>2, ReleaseForwardRefsSound
  <2>6. Ok(a)
    <3> HIDE DEF a, b
    <3> QED BY <2>3, <2>5 DEF Advances
  <2>7. Brings(c, a, n, X)
    <3>1. Saves(n.op) => tensors[n.saved[1]].val = Mask BY DEF Flow
    <3> QED BY <1>3, <1>9, <1>12, <2>6, <3>1, NoneKept, RuleBrings
  <2> HIDE DEF a, b, d
  <2>8. /\ DOMAIN d.grads = DOMAIN a.grads \ X
        /\ \A u \in TensorId \ X : Amount(d, u) = Amount(a, u)
        /\ \A u \in DOMAIN d.grads : Amount(d, u) = Amount(a, u)
    BY <2>3, <2>5 DEF Amount, HasGrad
  <2> DEFINE x == n.in[1]
             y == n.in[2]
             two == Binary(n.op)
  <2>9. x \in TensorId /\ (two => y \in TensorId) /\ Len(n.in) = IF two THEN 2 ELSE 1
    <3>1. n.in \in Seq(Nat) /\ Len(n.in) = IF two THEN 2 ELSE 1 BY <1>3 DEF Node, NodeOK
    <3>2. x \in ToSet(n.in) /\ (two => y \in ToSet(n.in)) BY <3>1 DEF ToSet
    <3> QED BY <3>1, <3>2 DEF Readable
  <2>10. PICK e : /\ Gets(c, e, x, D(1) * U, X)
                  /\ IF two THEN Gets(e, a, y, D(2) * U, X) ELSE a = e
    BY <2>7 DEF Brings
  <2>11. /\ \A t : Z(t, 1) = IF x = t THEN D(1) * U ELSE 0
         /\ \A t : Z(t, 2) = IF two /\ y = t THEN D(2) * U ELSE 0
         /\ \A t : At(1, t) <=> x = t
         /\ \A t : At(2, t) <=> two /\ y = t
    <3> HIDE DEF x, y, D, U
    <3> QED BY <2>9 DEF x, y
  <2>12. D(1) * U \in Int /\ (two => D(2) * U \in Int)
    <3>1. D(1) \in Int /\ (two => D(2) \in Int) BY <1>5, <2>9
    <3> HIDE DEF D, U, two
    <3> QED BY <1>4, <3>1
  <2> DEFINE z1 == D(1) * U
             z2 == D(2) * U
  <2> HIDE DEF z1, z2, x, y, two
  <2>13. Gets(c, e, x, z1, X) /\ IF two THEN Gets(e, a, y, z2, X) ELSE a = e
    BY <2>10 DEF z1, z2
  <2>14. z1 \in Int /\ (two => z2 \in Int) BY <2>12 DEF z1, z2
  <2>15. Typed(c, X) /\ Typed(e, X) /\ Typed(a, X)
    <3>1. Typed(c, X) BY <1>9, TypedMost
    <3>2. Typed(e, X) BY <2>9, <2>13, <2>14, <3>1, GetsTyped
    <3> QED BY <2>9, <2>13, <2>14, <3>1, <3>2, GetsTyped
  <2>16. Typed(d, {}) BY <2>8, <2>15 DEF Typed
  <2>17. ASSUME NEW t \in TensorId, NeedsGrad(t), ComputedBy(t, w - 1) PROVE Gained(t)
    <3>1. t \in TensorId \ X /\ ComputedBy(t, w) BY <1>8, <2>17
    <3> DEFINE k1 == IF t = x THEN z1 ELSE 0
               k2 == IF two /\ t = y THEN z2 ELSE 0
    <3>2. Z(t, 1) = k1 /\ Z(t, 2) = k2 BY <2>11 DEF z1, z2
    <3>3. Amount(e, t) = (Amount(c, t) + k1) % Prime BY <2>13, <2>17, <3>1 DEF Gets
    <3>4. Amount(a, t) = (Amount(e, t) + k2) % Prime
      <4>1. CASE two BY <2>13, <2>17, <3>1, <4>1 DEF Gets
      <4>2. CASE ~ two
        <5>1. a = e /\ k2 = 0 BY <2>13, <4>2
        <5>2. Amount(e, t) \in Value
          <6>1. CASE t \in DOMAIN e.grads BY <2>15, <3>1, <6>1 DEF Typed
          <6>2. CASE t \notin DOMAIN e.grads BY <6>2, Residue DEF Amount, HasGrad
          <6> QED BY <6>1, <6>2
        <5>3. (Amount(e, t) + 0) % Prime = Amount(e, t) BY <5>2, Unchanged
        <5> QED BY <5>1, <5>3
      <4> QED BY <4>1, <4>2
    <3>5. Amount(c, t) = F(t, w) % Prime BY <1>10, <2>17, <3>1
    <3> DEFINE s == F(t, w)
               g1 == G(t, 1)
               g2 == G(t, 2)
    <3>6. /\ s \in Int /\ g1 \in Int /\ g2 \in Int /\ F(t, w - 1) = s + g1 + g2 BY <1>6
    <3>7. k1 \in Int /\ k2 \in Int /\ k1 % Prime = g1 % Prime /\ k2 % Prime = g2 % Prime
      <4>1. /\ Z(t, 1) \in Int /\ Z(t, 1) % Prime = G(t, 1) % Prime
            /\ Z(t, 2) \in Int /\ Z(t, 2) % Prime = G(t, 2) % Prime
        BY <1>7
      <4> HIDE DEF Z, G, k1, k2
      <4> QED BY <3>2, <4>1
    <3> HIDE DEF s, g1, g2, k1, k2, F
    <3>8. Amount(d, t) = ((((s % Prime) + k1) % Prime) + k2) % Prime
      BY <2>8, <3>1, <3>3, <3>4, <3>5 DEF s
    <3>9. ((((s % Prime) + k1) % Prime) + k2) % Prime = (s + g1 + g2) % Prime
      BY <3>6, <3>7, ResidueGains
    <3>10. Amount(d, t) = F(t, w - 1) % Prime BY <3>6, <3>8, <3>9
    <3>11. ASSUME ~ HasGrad(d, t) PROVE F(t, w - 1) = 0
      <4>1. t \notin DOMAIN a.grads \ X BY <2>8, <3>11 DEF HasGrad
      <4>2. t \notin DOMAIN e.grads \ X /\ ~ (two /\ t = y) BY <2>13, <2>17, <3>1, <4>1 DEF Gets
      <4>3. t \notin DOMAIN c.grads \ X /\ t # x BY <2>13, <2>17, <3>1, <4>2 DEF Gets
      <4>4. s = 0 BY <1>9, <2>17, <3>1, <4>3 DEF HasGrad, s
      <4>5. g1 = 0 /\ g2 = 0
        <5>1. ~ At(1, t) /\ ~ At(2, t) BY <2>11, <4>2, <4>3
        <5> HIDE DEF At
        <5> QED BY <5>1 DEF g1, g2
      <4> QED BY <3>6, <4>4, <4>5
    <3> QED BY <3>10, <3>11
  <2> QED BY <2>16, <2>17 DEF Right, d
<1> QED BY <1>11, <1>12

\* A sum over some of two indices.
LEMMA SumOfTwo ==
  ASSUME NEW f, NEW J, J \subseteq {1, 2}, \A i \in J : f[i] \in Int
  PROVE  /\ IsFiniteSet(J)
         /\ SumFunctionOnSet(f, J) =
              (IF 1 \in J THEN f[1] ELSE 0) + (IF 2 \in J THEN f[2] ELSE 0)
<1> DEFINE K == J \ {1}
           L == K \ {2}
<1>1. L = {} OBVIOUS
<1>2. IsFiniteSet(L) /\ IsFiniteSet(K) /\ IsFiniteSet(J)
  <2>1. IsFiniteSet({}) BY FS_EmptySet
  <2>2. IsFiniteSet({} \cup {1}) BY <2>1, FS_AddElement
  <2>3. IsFiniteSet(({} \cup {1}) \cup {2}) BY <2>2, FS_AddElement
  <2>4. J \subseteq ({} \cup {1}) \cup {2} OBVIOUS
  <2>5. IsFiniteSet(J) BY <2>3, <2>4, FS_Subset
  <2>6. K \subseteq J OBVIOUS
  <2> QED BY <1>1, <2>1, <2>5, <2>6, FS_Subset
<1>3. SumFunctionOnSet(f, L) = 0 BY <1>1, <1>2, SumFirst
<1>4. SumFunctionOnSet(f, K) = IF 2 \in J THEN f[2] ELSE 0
  <2>1. \A i \in K : f[i] \in Int OBVIOUS
  <2>2. CASE 2 \in J
    <3>1. 2 \in K /\ f[2] \in Int BY <2>2
    <3> HIDE DEF K
    <3>2. SumFunctionOnSet(f, K) = f[2] + SumFunctionOnSet(f, L) BY <1>2, <2>1, <3>1, SumTake
    <3> HIDE DEF L
    <3> QED BY <1>3, <2>2, <3>1, <3>2
  <2>3. CASE 2 \notin J
    <3>1. K = {} BY <2>3
    <3> HIDE DEF K
    <3> QED BY <1>2, <2>3, <3>1, SumFirst
  <2> QED BY <2>2, <2>3
<1>5. SumFunctionOnSet(f, J) = (IF 1 \in J THEN f[1] ELSE 0) + (IF 2 \in J THEN f[2] ELSE 0)
  <2> HIDE DEF L
  <2> DEFINE r == IF 2 \in J THEN f[2] ELSE 0
  <2>1. r \in Int OBVIOUS
  <2>2. CASE 1 \in J
    <3>0. \A y \in J : SumFunctionOnSet(f, J) = f[y] + SumFunctionOnSet(f, J \ {y})
      <4>1. \A i \in J : f[i] \in Int OBVIOUS
      <4>2. IsFiniteSet(J) BY <1>2
      <4> QED BY ONLY <4>1, <4>2, SumTake
    <3>1. SumFunctionOnSet(f, J) = f[1] + SumFunctionOnSet(f, K) BY <2>2, <3>0
    <3> HIDE DEF K
    <3> QED BY <1>4, <2>2, <3>1
  <2>3. CASE 1 \notin J
    <3>1. K = J BY <2>3
    <3> HIDE DEF K
    <3>2. SumFunctionOnSet(f, J) = r BY <1>4, <3>1
    <3> HIDE DEF r
    <3>3. r = 0 + r BY <2>1
    <3> QED BY <2>3, <3>2, <3>3 DEF r
  <2> QED BY <2>2, <2>3
<1> QED BY <1>2, <1>5

\* What a call of gd_backward may be given.
SeedsOK(sd) ==
  /\ sd.outputs \in Seq(Nat) /\ Len(sd.outputs) \in {1, 2} /\ sd.scale \in Nat
  /\ \A i \in 1 .. Len(sd.outputs) : sd.outputs[i] \in TensorId /\ NeedsGrad(sd.outputs[i])
  /\ sd.grads[1] = 0 \/ sd.grads[1] \in TensorId
  /\ Len(sd.outputs) = 2 => sd.grads[2] \in TensorId /\ Span(sd.grads[2]) \in Params

\* What t was called with, for one output or two.
LEMMA SeedSumIs ==
  ASSUME Shape, NEW sd, SeedsOK(sd)
  PROVE  /\ SeedsAre(sd) /\ \A i \in 1 .. Len(sd.outputs) : SeedOf(tensors, sd, i) \in Int
         /\ \A t : SeedSum(tensors, sd, t) =
              (IF sd.outputs[1] = t THEN SeedOf(tensors, sd, 1) ELSE 0)
              + (IF Len(sd.outputs) = 2 /\ sd.outputs[2] = t THEN SeedOf(tensors, sd, 2) ELSE 0)
<1> DEFINE L == Len(sd.outputs)
           V(i) == SeedOf(tensors, sd, i)
<1>1. L \in {1, 2} /\ DOMAIN sd.outputs = 1 .. L BY DEF SeedsOK
<1>2. ASSUME NEW g, g = 0 \/ g \in TensorId
      PROVE  sd.scale * (IF g = 0 THEN 1 ELSE tensors[g].val) \in Int
  <2>1. sd.scale \in Int BY DEF SeedsOK
  <2>2. CASE g = 0 BY <2>1, <2>2
  <2>3. CASE g \in TensorId
    <3>1. tensors[g] \in Tensor BY <2>3 DEF Shape, TensorId
    <3>2. tensors[g].val \in Int BY <3>1, Residue DEF Tensor
    <3> QED BY <2>1, <3>2
  <2> QED BY <1>2, <2>2, <2>3
<1>3. ASSUME NEW i \in 1 .. L PROVE V(i) \in Int
  <2> HIDE DEF L, V
  <2>1. i = 1 \/ (i = 2 /\ L = 2)
    <3>1. i \in Int /\ 1 <= i /\ i <= L BY <1>1
    <3> HIDE <1>3
    <3> QED BY <1>1, <3>1
  <2> USE DEF L, V
  <2>2. sd.grads[i] = 0 \/ sd.grads[i] \in TensorId BY <2>1 DEF SeedsOK
  <2> QED BY <1>2, <2>2 DEF SeedOf
<1>4. ASSUME NEW t
      PROVE  SeedSum(tensors, sd, t) = (IF sd.outputs[1] = t THEN V(1) ELSE 0)
                                       + (IF L = 2 /\ sd.outputs[2] = t THEN V(2) ELSE 0)
  <2> DEFINE J == {j \in DOMAIN sd.outputs : sd.outputs[j] = t}
             f == [i \in J |-> V(i)]
  <2>1. /\ J \subseteq {1, 2} /\ (1 \in J <=> sd.outputs[1] = t)
        /\ 2 \in J <=> L = 2 /\ sd.outputs[2] = t
    BY <1>1
  <2>2. SeedSum(tensors, sd, t) = SumFunctionOnSet(f, J) BY DEF SeedSum, SumFunction
  <2>3. \A i \in J : f[i] = V(i) /\ f[i] \in Int BY <1>1, <1>3
  <2> HIDE DEF f, J, V
  <2> QED BY <2>1, <2>2, <2>3, SumOfTwo
<1>5. IsFiniteSet(DOMAIN sd.outputs)
  <2>1. 1 .. L \subseteq {1, 2} BY <1>1
  <2> DEFINE f == [i \in 1 .. L |-> 0]
  <2>2. \A i \in 1 .. L : f[i] \in Int OBVIOUS
  <2> HIDE DEF f
  <2> QED BY <1>1, <2>1, <2>2, SumOfTwo
<1> QED BY <1>1, <1>3, <1>4, <1>5 DEF SeedsAre

\* A seed brings what the call says, scaled.
LEMMA SeedGets ==
  ASSUME Shape, NEW c, Sound(c), Typed(c, {}), NEW t \in TensorId, NeedsGrad(t),
         NEW g, NEW scale \in Nat, Ok(Seed(c, t, g, scale)),
         g = 0 \/ (g \in TensorId /\ Span(g) \in c.held \cup Params /\ c.mem[Span(g)] = tensors[g].val)
  PROVE  Gets(c, Seed(c, t, g, scale), t, scale * (IF g = 0 THEN 1 ELSE tensors[g].val), {})
<1>1. ASSUME g # 0 PROVE tensors[g].val \in Value /\ tensors[g].val \in Int
  <2>1. g \in Nat /\ tensors[g] \in Tensor BY <1>1 DEF Shape, TensorId
  <2> QED BY <2>1, Residue DEF Tensor
<1>2. CASE g # 0 /\ scale = 1
  <2>1. Seed(c, t, g, scale) = Accumulate(c, t, Span(g)) BY <1>2 DEF Seed
  <2>2. c.mem[Span(g)] = tensors[g].val BY <1>2
  <2>3. c.mem[Span(g)] = scale * (IF g = 0 THEN 1 ELSE tensors[g].val) BY <1>1, <1>2, <2>2
  <2>4. Gets(c, Accumulate(c, t, Span(g)), t, c.mem[Span(g)], {})
    BY <1>1, <1>2, <2>1, <2>2, AccumulateGets
  <2> QED BY <2>1, <2>3, <2>4
<1>3. CASE ~ (g # 0 /\ scale = 1)
  <2> DEFINE v == IF g = 0 THEN scale ELSE c.mem[Span(g)] * scale
  <2>1. Seed(c, t, g, scale) = Contribute(c, t, v) BY <1>3 DEF Seed, Contribute
  <2>2. v \in Int /\ v = scale * (IF g = 0 THEN 1 ELSE tensors[g].val)
    <3>1. CASE g = 0 BY <3>1
    <3>2. CASE g # 0
      <4>1. v = tensors[g].val * scale BY <3>2
      <4> QED BY <1>1, <3>2, <4>1
    <3> QED BY <3>1, <3>2
  <2> HIDE DEF v
  <2>3. Gets(c, Contribute(c, t, v), t, v, {}) BY <2>1, <2>2, ContributeGets
  <2> QED BY <2>1, <2>2, <2>3
<1> QED BY <1>2, <1>3

\* A seed changes nothing once the call has failed.
LEMMA SeedOfFailed ==
  ASSUME NEW c, ~ Ok(c), NEW t, NEW g, NEW scale PROVE Seed(c, t, g, scale) = c
<1>1. \A s : Accumulate(c, t, s) = c BY DEF Accumulate
<1>2. \A v : Produce(c, v) = c BY DEF Produce
<1> QED BY ONLY <1>1, <1>2 DEF Seed

\* After the seeds, the slots hold what the call said, of each output.
LEMMA SeedAllRight ==
  ASSUME Shape, NEW c, Sound(c), DOMAIN c.grads = {}, NEW sd, SeedsOK(sd),
         \A t \in TensorId : Span(t) \in c.held \cup Params /\ c.mem[Span(t)] = tensors[t].val,
         Ok(SeedAll(c, sd))
  PROVE  LET d == SeedAll(c, sd) IN
         /\ Typed(d, {})
         /\ \A t \in TensorId : NeedsGrad(t) =>
              IF HasGrad(d, t) THEN Amount(d, t) = SeedSum(tensors, sd, t) % Prime
              ELSE SeedSum(tensors, sd, t) = 0
<1> DEFINE L == Len(sd.outputs)
           x == sd.outputs[1]
           y == sd.outputs[2]
           v == SeedOf(tensors, sd, 1)
           z == SeedOf(tensors, sd, 2)
           K(t) == IF x = t THEN v ELSE 0
           M(t) == IF L = 2 /\ y = t THEN z ELSE 0
           d == SeedAll(c, sd)
<1>1. /\ L \in {1, 2} /\ L \in Nat /\ sd.scale \in Nat
      /\ x \in TensorId /\ NeedsGrad(x) /\ (L = 2 => y \in TensorId /\ NeedsGrad(y))
  BY DEF SeedsOK
<1>2. v \in Int /\ (L = 2 => z \in Int) /\ \A t : SeedSum(tensors, sd, t) = K(t) + M(t)
  BY <1>1, SeedSumIs
<1>3. PICK after : /\ after[0] = c /\ d = after[L]
                   /\ \A i \in 1 .. L :
                        after[i] = Seed(after[i - 1], sd.outputs[i], sd.grads[i], sd.scale)
  BY <1>1, SeedAllSteps
<1> DEFINE e == after[1]
<1>4. e = Seed(c, x, sd.grads[1], sd.scale) BY <1>1, <1>3
<1>5. L = 2 => d = Seed(e, y, sd.grads[2], sd.scale) BY <1>1, <1>3
<1>6. L = 1 => d = e BY <1>3
<1>7. Ok(e)
  <2>1. Ok(d) BY ONLY Ok(SeedAll(c, sd))
  <2> HIDE DEF e, d
  <2>2. L = 2 => Ok(e) BY ONLY <1>5, <2>1, SeedOfFailed
  <2> QED BY ONLY <1>1, <1>6, <2>1, <2>2
<1>8. Sound(e)
  <2>1. Advances(c, e, {x}, {}) BY <1>4, SeedSound DEF SeedsOK
  <2> QED BY <2>1 DEF Advances
<1>9. Typed(c, {}) /\ \A t : Amount(c, t) = 0 BY DEF Typed, Amount, HasGrad
<1>10. v = sd.scale * (IF sd.grads[1] = 0 THEN 1 ELSE tensors[sd.grads[1]].val) BY DEF SeedOf
<1>11. Gets(c, e, x, v, {})
  <2> HIDE DEF e, v
  <2>1. \/ sd.grads[1] = 0
        \/ /\ sd.grads[1] \in TensorId /\ Span(sd.grads[1]) \in c.held \cup Params
           /\ c.mem[Span(sd.grads[1])] = tensors[sd.grads[1]].val
    BY DEF SeedsOK
  <2> QED BY <1>1, <1>4, <1>7, <1>9, <1>10, <2>1, SeedGets
<1>12. L = 2 => Gets(e, d, y, z, {})
  <2> SUFFICES ASSUME L = 2 PROVE Gets(e, d, y, z, {}) OBVIOUS
  <2>1. sd.grads[2] \in TensorId /\ Span(sd.grads[2]) \in Params BY DEF SeedsOK
  <2>2. sd.grads[2] # 0 BY <2>1 DEF TensorId
  <2>3. z = sd.scale * (IF sd.grads[2] = 0 THEN 1 ELSE tensors[sd.grads[2]].val) BY DEF SeedOf
  <2> HIDE DEF e, v, z, d
  <2>4. e.mem[Span(sd.grads[2])] = tensors[sd.grads[2]].val BY <1>8, <2>1 DEF Sound, Live
  <2>5. Typed(e, {}) BY <1>1, <1>2, <1>9, <1>11, GetsTyped
  <2>6. Ok(d) BY DEF d
  <2> QED BY <1>1, <1>5, <1>8, <2>1, <2>3, <2>4, <2>5, <2>6, SeedGets
<1> HIDE DEF e, d, v, z
<1>13. Typed(e, {}) BY <1>1, <1>2, <1>9, <1>11, GetsTyped
<1>14. Typed(d, {})
  <2>1. CASE L = 1 BY <1>6, <1>13, <2>1
  <2>2. CASE L = 2 BY <1>1, <1>2, <1>12, <1>13, <2>2, GetsTyped
  <2> QED BY <1>1, <2>1, <2>2
<1>15. ASSUME NEW t \in TensorId, NeedsGrad(t)
       PROVE  /\ Amount(d, t) = (K(t) + M(t)) % Prime
              /\ ~ HasGrad(d, t) => K(t) = 0 /\ M(t) = 0
  <2>1. K(t) \in Int /\ M(t) \in Int BY <1>2
  <2>2. Amount(e, t) = (0 + K(t)) % Prime BY <1>9, <1>11, <1>15 DEF Gets
  <2>3. DOMAIN e.grads = {x} BY <1>1, <1>11 DEF Gets
  <2>4. CASE L = 2
    <3>1. Amount(d, t) = (Amount(e, t) + M(t)) % Prime BY <1>12, <1>15, <2>4 DEF Gets
    <3>2. DOMAIN d.grads = {x} \cup {y} BY <1>1, <1>12, <2>3, <2>4 DEF Gets
    <3>3. ~ HasGrad(d, t) => K(t) = 0 /\ M(t) = 0 BY <3>2 DEF HasGrad
    <3> HIDE DEF K, M
    <3>4. ((((0 % Prime) + K(t)) % Prime) + M(t)) % Prime = (0 + K(t) + M(t)) % Prime
      <4>1. 0 \in Int OBVIOUS
      <4> QED BY <2>1, <4>1, ResidueGains
    <3>5. 0 % Prime = 0 /\ 0 + K(t) + M(t) = K(t) + M(t) BY <2>1, Residue
    <3> QED BY <2>2, <3>1, <3>3, <3>4, <3>5
  <2>5. CASE L = 1
    <3>1. d = e /\ M(t) = 0 BY <1>6, <2>5
    <3>2. ~ HasGrad(d, t) => K(t) = 0 BY <2>3, <3>1 DEF HasGrad
    <3> HIDE DEF K, M
    <3>3. 0 + K(t) = K(t) + 0 BY <2>1
    <3> QED BY <2>2, <3>1, <3>2, <3>3
  <2> QED BY <1>1, <2>4, <2>5
<1>16. ASSUME NEW t \in TensorId, NeedsGrad(t)
       PROVE  IF HasGrad(d, t) THEN Amount(d, t) = SeedSum(tensors, sd, t) % Prime
              ELSE SeedSum(tensors, sd, t) = 0
  <2> HIDE DEF K, M
  <2> QED BY <1>2, <1>15, <1>16
<1> QED BY <1>14, <1>16 DEF d

----------------------------------------------------------------------------
(* The invariant.                                                          *)

\* A new step satisfies what is asked of the forward pass.
LEMMA FreshState ==
  tensors = FreshTensors /\ tape = <<>> /\ core = FreshCore =>
    Shape /\ Core(core) /\ Slots(core) /\ Before
<1> SUFFICES ASSUME tensors = FreshTensors, tape = <<>>, core = FreshCore
             PROVE  Shape /\ Core(core) /\ Slots(core) /\ Before
  OBVIOUS
<1> DEFINE L == Len(Leaves)
<1>1. L \in Nat /\ Leaves \in Seq([rg : BOOLEAN, dims : SUBSET {1, 2}]) /\ Spans \in Nat
  BY AutogradAssumption
<1>2. \A i \in 1 .. L : Leaves[i].rg \in BOOLEAN /\ Leaves[i].dims \in SUBSET {1, 2}
                       /\ -i \in Params /\ -i < 0
  <2>1. \A i \in 1 .. L : -i \in Params /\ -i < 0 BY <1>1 DEF Params
  <2>2. \A i \in 1 .. L : Leaves[i] \in [rg : BOOLEAN, dims : SUBSET {1, 2}]
    <3> DEFINE Leaf == [rg : BOOLEAN, dims : SUBSET {1, 2}]
    <3>1. Leaves \in Seq(Leaf) BY <1>1
    <3> HIDE DEF Leaf
    <3>2. \A i \in 1 .. Len(Leaves) : Leaves[i] \in Leaf BY <3>1
    <3> QED BY <3>2 DEF Leaf
  <2> QED BY <2>1, <2>2
<1>3. \A i \in 1 .. L : (1 + i) % Prime \in Value /\ 1 - (-i) = 1 + i
  <2>1. \A i \in 1 .. L : 1 + i \in Int /\ 1 - (-i) = 1 + i BY <1>1
  <2> QED BY <2>1, Residues
<1>4. \A i \in 1 .. L : [span |-> -i, rg |-> Leaves[i].rg, dims |-> Leaves[i].dims,
                         val |-> (1 + i) % Prime, given |-> TRUE] \in Tensor
  BY <1>2, <1>3 DEF Tensor
<1>5. /\ tensors \in Seq(Tensor) /\ Len(tensors) = L /\ TensorId = 1 .. L
      /\ \A t \in 1 .. L : tensors[t].span = -t /\ tensors[t].val = (1 + t) % Prime
  BY <1>1, <1>4 DEF FreshTensors, TensorId
<1>6. Shape
  <2>1. tensors # <<>> => tensors[1].span \in Params
    <3>1. tensors # <<>> => 1 \in 1 .. L BY <1>5, <1>1
    <3> QED BY <1>2, <1>5, <3>1
  <2>2. tape \in Seq(Node) /\ DOMAIN tape = {} OBVIOUS
  <2> QED BY <1>5, <2>1, <2>2 DEF Shape
<1> DEFINE mem == [s \in Scratch \cup Params |-> IF s < 0 THEN (1 - s) % Prime ELSE 0]
<1>7. /\ core.held = {} /\ core.top = 0 /\ core.mem = mem /\ core.grads = <<>> /\ core.refs = <<>>
      /\ core.lost = {} /\ core.full = <<>> /\ core.status = "OK" /\ Whole(core)
  BY DEF FreshCore, Whole
<1>8. DOMAIN core.mem = Scratch \cup Params /\ \A t \in 1 .. L : core.mem[-t] = (1 + t) % Prime
  BY <1>2, <1>3, <1>7
<1> HIDE DEF mem
<1>9. Core(core) BY <1>1, <1>7, <1>8 DEF Core
<1>10. Slots(core)
  <2>1. DOMAIN core.grads = {} BY <1>7
  <2> QED BY <2>1 DEF Slots
<1>11. Before
  <2>1. \A t \in 1 .. L : -t \notin Scratch BY <1>1 DEF Scratch
  <2> QED BY <1>5, <1>7, <1>8, <2>1 DEF Before, Ok, Span
<1> QED BY <1>6, <1>9, <1>10, <1>11

\* Every step preserves the invariant, as long as backward is called once.
LEMMA InvariantStep ==
  ASSUME AutogradInv, MaxBackward <= 1, [Next]_vars PROVE AutogradInv'
<1> USE DEF AutogradInv
<1>1. ASSUME NEW op \in Ops, NEW x \in Given, NEW y \in Given, Forward(op, x, y)
      PROVE  AutogradInv'
  BY <1>1, ForwardStep
<1>2. ASSUME NEW enabled \in BOOLEAN, SetGradEnabled(enabled) PROVE AutogradInv'
  <2>1. /\ UNCHANGED <<tensors, tape>> /\ core' = core /\ phase' = "forward" /\ phase = "forward"
        /\ backwards' = backwards
    BY <1>2 DEF SetGradEnabled
  <2>2. Shape' BY <2>1, SameTape
  <2>3. Core(core)' /\ Slots(core)' BY <2>1 DEF Slots
  <2>4. Before' BY <2>1 DEF Before, Span, TensorId
  <2> QED BY <2>1, <2>2, <2>3, <2>4 DEF NothingLeft
<1>3. ASSUME NEW t \in Differentiable, NEW g \in GradOutput, NEW scale \in Scales,
             BackwardOne(t, g, scale)
      PROVE  AutogradInv'
  <2> DEFINE sd == [outputs |-> <<t>>, grads |-> <<g>>, scale |-> scale, recording |-> recording]
  <2>1. Start(sd) BY <1>3 DEF BackwardOne
  <2>2. t \in Nat BY DEF Differentiable, Given, TensorId
  <2>3. sd.outputs \in Seq(Nat) /\ Len(sd.outputs) = 1 /\ sd.grads[1] = g BY <2>2
  <2>4. g # 0 => g \in TensorId BY DEF GradOutput, Given
  <2> HIDE DEF sd
  <2>5. Len(sd.outputs) \in {1, 2} /\ Len(sd.outputs) # 2 BY <2>3
  <2>6. sd.grads[1] # 0 => sd.grads[1] \in TensorId BY <2>3, <2>4
  <2> HIDE DEF AutogradInv
  <2> QED BY <2>1, <2>3, <2>5, <2>6, StartStep
<1>4. ASSUME NEW t \in Differentiable, NEW u \in Differentiable, BackwardMany(t, u)
      PROVE  AutogradInv'
  <2> DEFINE sd == [outputs |-> <<t, u>>, grads |-> <<0, 1>>, scale |-> 1, recording |-> recording]
  <2>1. Start(sd) BY <1>4 DEF BackwardMany
  <2>2. t \in Nat /\ u \in Nat /\ t \in TensorId BY DEF Differentiable, Given, TensorId
  <2>3. /\ sd.outputs \in Seq(Nat) /\ Len(sd.outputs) = 2 /\ sd.grads[1] = 0 /\ sd.grads[2] = 1
    BY <2>2
  <2>4. Span(1) \in Params BY <2>2 DEF Shape, TensorId, Span
  <2> HIDE DEF sd
  <2>5. Len(sd.outputs) \in {1, 2} /\ (Len(sd.outputs) = 2 => Span(sd.grads[2]) \in Params)
    BY <2>3, <2>4
  <2>6. sd.grads[1] # 0 => sd.grads[1] \in TensorId BY <2>3
  <2> HIDE DEF AutogradInv
  <2> QED BY <2>1, <2>3, <2>5, <2>6, StartStep
<1>5. ASSUME BackwardVisit PROVE AutogradInv' BY <1>5, VisitStep
<1>6. ASSUME ZeroGrad PROVE AutogradInv'
  <2> DEFINE c == [core EXCEPT !.grads = <<>>]
             x == core.lost \cup Range(core.grads)
             d == [c EXCEPT !.lost = x]
  <2>1. /\ phase # "backward" /\ core.grads # <<>> /\ core' = d
        /\ tensors' = tensors /\ tape' = tape /\ seeds' = seeds
        /\ backwards' = backwards /\ phase' = phase
    BY <1>6 DEF ZeroGrad
  <2>2. phase # "forward" /\ phase # "backward" BY <2>1 DEF Before
  <2>3. /\ Whole(c) /\ c.held = core.held /\ c.top = core.top /\ c.mem = core.mem
        /\ c.grads = <<>> /\ c.lost = core.lost /\ c.full = core.full /\ c.status = core.status
    BY SetGrads DEF Core
  <2> HIDE DEF c, x
  <2>4. /\ Whole(d) /\ d.held = core.held /\ d.top = core.top /\ d.mem = core.mem
        /\ d.grads = <<>> /\ d.lost = x /\ d.full = core.full /\ d.status = core.status
    BY <2>3, SetLost
  <2> HIDE DEF d
  <2>5. DOMAIN d.grads = {} BY <2>4
  <2>6. Core(core)' BY <2>1, <2>4 DEF Core
  <2>7. Slots(core)' BY <2>1, <2>5 DEF Slots
  <2>8. Shape' BY <2>1, SameTape
  <2>9. {Span(t) : t \in ToSet(seeds.outputs)}' = {Span(t) : t \in ToSet(seeds.outputs)}
    BY <2>1 DEF Span
  <2>10. OffSpans' = OffSpans /\ \A n : Unreduced(n)' = Unreduced(n) BY <2>1, SameTape
  <2>11. (UNION {Unreduced(tape[i]) : i \in DOMAIN tape})'
           = UNION {Unreduced(tape[i]) : i \in DOMAIN tape}
    BY <2>1, <2>10
  <2>12. NothingLeft' BY <2>1, <2>4, <2>5, <2>9, <2>10, <2>11 DEF NothingLeft, OffSpans, x
  <2> QED BY <2>1, <2>2, <2>6, <2>7, <2>8, <2>12
<1>7. ASSUME NEW m \in {"TRAIN", "EVAL"}, NextStep(m) PROVE AutogradInv'
  <2>1. /\ tensors' = FreshTensors' /\ tape' = <<>> /\ core' = FreshCore' /\ phase' = "forward"
        /\ backwards' = 0
    BY <1>7 DEF NextStep, FreshTensors, FreshCore, Scratch, Params
  <2>2. (tensors = FreshTensors /\ tape = <<>> /\ core = FreshCore =>
           Shape /\ Core(core) /\ Slots(core) /\ Before)'
    BY FreshState, PTL
  <2> QED BY <2>1, <2>2 DEF NothingLeft
<1>8. ASSUME UNCHANGED vars PROVE AutogradInv'
  <2>1. /\ tensors' = tensors /\ tape' = tape /\ seeds' = seeds /\ walk' = walk /\ core' = core
        /\ backwards' = backwards /\ phase' = phase
    BY <1>8 DEF vars
  <2>2. /\ Shape' /\ OffSpans' = OffSpans /\ Occurrences' = Occurrences
        /\ \A x : SpanAt(x)' = SpanAt(x) /\ TensorAt(x)' = TensorAt(x)
        /\ \A c, k : Fulls(c, k)' <=> Fulls(c, k)
        /\ \A n : Unreduced(n)' = Unreduced(n)
    BY <2>1, SameTape
  <2>3. TensorId' = TensorId /\ \A t : Span(t)' = Span(t) BY <2>1 DEF TensorId, Span
  <2>4. {Span(t) : t \in ToSet(seeds.outputs)}' = {Span(t) : t \in ToSet(seeds.outputs)}
    BY <2>1 DEF Span
  <2>9. (UNION {Unreduced(tape[i]) : i \in DOMAIN tape})'
          = UNION {Unreduced(tape[i]) : i \in DOMAIN tape}
    BY <2>1, <2>2
  <2>5. NothingLeft' BY <2>1, <2>2, <2>4, <2>9 DEF NothingLeft, OffSpans
  <2>6. Core(core)' /\ Slots(core)' BY <2>1 DEF Slots
  <2>7. phase = "forward" => Before' BY <2>1, <2>3 DEF Before, Ok
  <2>8. phase = "backward" => During'
    <3> SUFFICES ASSUME phase = "backward" PROVE During' OBVIOUS
    <3>1. During OBVIOUS
    <3>2. Sound(core)' BY <2>1, <2>3, <3>1
         DEF During, Sound, Live, Slots, Core, LiveStorageActive
    <3>3. Accounted(core, {})' BY <2>1, <2>2, <3>1
         DEF During, Accounted, LiveStorageActive, GradStorageActive, Ok
    <3>4. \A s : Left(walk, 0, s)' = Left(walk, 0, s) BY <2>1, <2>2 DEF Left
    <3>5. {SpanAt(x) : x \in Occurrences}' = {SpanAt(x) : x \in Occurrences} BY <2>2
    <3>6. Counts(core, walk, 0)' BY <2>1, <3>1, <3>4, <3>5 DEF During, Counts
    <3>7. Consumed(core, walk)' BY <2>1, <3>1 DEF During, Consumed
    <3>8. Fulls(core, walk)' BY <2>1, <2>2, <3>1 DEF During
    <3> QED BY <2>1, <3>1, <3>2, <3>3, <3>6, <3>7, <3>8 DEF During, Ok
  <2> QED BY <2>1, <2>2, <2>5, <2>6, <2>7, <2>8
<1> QED BY <1>1, <1>2, <1>3, <1>4, <1>5, <1>6, <1>7, <1>8 DEF Next

\* A reference that waits for its turn still counts, so that its storage is
\* allocated and holds what was recorded.
LEMMA ReferenceHolds ==
  ASSUME Shape, During, NEW i \in 1 .. walk, NEW t \in ToSet(Refs(tape[i]))
  PROVE  /\ Span(t) \in Scratch => Span(t) \in core.held
         /\ core.mem[Span(t)] = tensors[t].val
<1>1. walk \in 1 .. Len(tape) /\ DOMAIN tape = 1 .. Len(tape) /\ Len(tape) \in Nat
  BY DEF During, Shape
<1>2. i \in DOMAIN tape BY <1>1
<1>3. PICK p \in DOMAIN Refs(tape[i]) : t = Refs(tape[i])[p] BY DEF ToSet
<1>4. t \in TensorId BY <1>2, <1>3, RefsOfNode
<1>5. Span(t) \in Scratch \cup Params
  <2>1. tensors[t] \in Tensor BY <1>4 DEF Shape, TensorId
  <2> QED BY <2>1 DEF Tensor, Span
<1>6. CASE Span(t) \in Params BY <1>4, <1>6, Sizes DEF During, Sound, Live, Scratch, Params
<1>7. CASE Span(t) \in Scratch
  <2> DEFINE x == <<i, p>>
  <2>1. x \in Occurrences /\ SpanAt(x) = Span(t) /\ x[1] = i /\ x[2] = p
    BY <1>2, <1>3, OccurrencesFinite DEF SpanAt
  <2>2. x[2] > 0
    <3>1. p \in 1 .. Len(Refs(tape[i])) /\ Len(Refs(tape[i])) \in 1 .. 5 BY <1>2, RefsOfNode
    <3> QED BY <2>1, <3>1
  <2>3. i < walk \/ i = walk BY <1>1
  <2> HIDE DEF x
  <2>4. x \in Left(walk, 0, Span(t)) BY <2>1, <2>2, <2>3 DEF Left
  <2>5. IsFiniteSet(Left(walk, 0, Span(t)))
    <3>1. Left(walk, 0, Span(t)) \subseteq Occurrences BY DEF Left
    <3> QED BY <3>1, OccurrencesFinite, FS_Subset
  <2>6. /\ Span(t) \in DOMAIN core.refs
        /\ core.refs[Span(t)] = Cardinality(Left(walk, 0, Span(t)))
    BY <1>7, <2>1 DEF During, Counts
  <2>7. LiveStorageActive(core, Span(t)) BY <2>4, <2>5, <2>6, FS_EmptySet DEF LiveStorageActive
  <2> QED BY <1>4, <2>7 DEF During, Sound, Live, LiveStorageActive
<1> QED BY <1>5, <1>6, <1>7

\* As long as gd_backward is called once in a step, the invariant holds
\* whatever the tape, the seeds and the room in the arena and the slots.
THEOREM AutogradInvariance == ASSUME MaxBackward <= 1 PROVE Spec => []AutogradInv
<1>1. Init => AutogradInv
  <2> SUFFICES ASSUME Init PROVE AutogradInv OBVIOUS
  <2>1. Shape /\ Core(core) /\ Slots(core) /\ Before BY FreshState DEF Init
  <2> QED BY <2>1 DEF Init, AutogradInv, NothingLeft
<1>2. AutogradInv /\ [Next]_vars => AutogradInv' BY InvariantStep
<1> QED BY <1>1, <1>2, PTL DEF Spec

\* As long as gd_backward is called once in a step, a gradient slot always has
\* allocated storage to itself, which the rest of the walk does not read.
THEOREM SlotsAlwaysOwn == ASSUME MaxBackward <= 1 PROVE Spec => []SlotsOwnStorage
<1>1. AutogradInv => SlotsOwnStorage
  <2> SUFFICES ASSUME AutogradInv PROVE SlotsOwnStorage OBVIOUS
  <2>1. core.status # "BAD_STATE" BY DEF AutogradInv, Core
  <2>2. \A t \in DOMAIN core.grads :
          /\ core.grads[t] \in core.held
          /\ \A u \in DOMAIN core.grads : core.grads[u] = core.grads[t] => u = t
    BY DEF AutogradInv, Slots
  <2>3. phase = "backward" => \A t \in DOMAIN core.grads : ~ LiveStorageActive(core, core.grads[t])
    BY DEF AutogradInv, During, Sound, Live
  <2> QED BY <2>1, <2>2, <2>3 DEF SlotsOwnStorage
<1> QED BY <1>1, AutogradInvariance, PTL

\* As long as gd_backward is called once in a step, whatever was given back and
\* given out again, a node not yet visited finds its tensors as recorded.
THEOREM ForwardAlwaysReadable == ASSUME MaxBackward <= 1 PROVE Spec => []ForwardReadable
<1>1. AutogradInv => ForwardReadable
  BY ReferenceHolds DEF AutogradInv, ForwardReadable
<1> QED BY <1>1, AutogradInvariance, PTL

\* As long as gd_backward is called once in a step, a backward pass that
\* succeeded has left only leaf gradients, its outputs, what is off the tape,
\* and the products of full size that gd_mul_backward keeps: one at most for
\* each operand of a mul that was repeated, of those it does not fuse.
THEOREM StepMemoryReturned == ASSUME MaxBackward <= 1 PROVE Spec => []NothingLeft
<1>1. AutogradInv => NothingLeft BY DEF AutogradInv
<1> QED BY <1>1, AutogradInvariance, PTL

----------------------------------------------------------------------------
(* What a backward pass leaves.                                            *)

\* A number up to the next is the next, or up to this.
LEMMA LastOrBefore == ASSUME NEW k \in Nat, NEW i \in 1 .. k + 1 PROVE i \in 1 .. k \/ i = k + 1
OBVIOUS

\* What is said of the node n of an operator and its new tensors N.
Fits(op, n, N) ==
  /\ n.op = op /\ \A i \in 1 .. Outputs(op) : N[i].rg = Records(n)
  /\ Saves(op) => N[2].val = Mask /\ n.saved[1] = Len(tensors) + 2
  /\ \A i \in 1 .. Outputs(op) : n.out[i] = Len(tensors) + i
  /\ ToSet(n.out) = {n.out[i] : i \in 1 .. Outputs(op)}

\* The outputs of an operator need a gradient if it is recorded; what dropout
\* saves is its mask.
LEMMA NewTensorsAre ==
  ASSUME NEW op \in {"add", "mul", "dropout", "dropout_add", "split", "reshape"},
         NEW c, NEW v, NEW x, NEW y,
         NEW n, n = NodeOf(op, x, y), NEW N, N = NewTensors(c, n, v)
  PROVE  Fits(op, n, N)
<1> DEFINE out == [i \in 1 .. Outputs(op) |-> Len(tensors) + i]
<1>1. /\ n.op = op /\ n.out = out
      /\ n.saved = IF Saves(op) THEN <<Len(tensors) + 2>> ELSE <<>>
  BY DEF NodeOf
<1>2. Outputs(op) \in {1, 2} BY DEF Outputs
<1>3. DOMAIN out = 1 .. Outputs(op) /\ \A i \in 1 .. Outputs(op) : out[i] = Len(tensors) + i OBVIOUS
<1> DEFINE dims == UNION {Dims(n.in[i]) : i \in DOMAIN n.in}
           Out(s) == [span |-> s, rg |-> Records(n), dims |-> dims, val |-> v, given |-> TRUE]
           mask(s) == [span |-> s, rg |-> FALSE, dims |-> dims, val |-> Mask, given |-> FALSE]
<1>4. \A s : Out(s).rg = Records(n) /\ mask(s).val = Mask OBVIOUS
<1>5. PICK a, b :
        N = IF op = "split" THEN <<Out(a), Out(b)>>
            ELSE IF Saves(op)
                 THEN <<Out(a), mask(b)>>
            ELSE <<Out(a)>>
  <2>1. n.saved # <<>> <=> Saves(op) BY <1>1
  <2> QED BY <1>1, <2>1 DEF NewTensors
<1> HIDE DEF out, Out, mask
<1>6. \A i \in 1 .. Outputs(op) : N[i].rg = Records(n)
  <2>1. CASE op = "split"
    <3>1. N[1] = Out(a) /\ N[2] = Out(b) BY <1>5, <2>1
    <3>2. \A i \in 1 .. Outputs(op) : i = 1 \/ i = 2 BY <2>1 DEF Outputs
    <3> QED BY <1>4, <3>1, <3>2
  <2>2. CASE op # "split"
    <3>1. N[1] = Out(a) BY <1>5, <2>2
    <3>2. \A i \in 1 .. Outputs(op) : i = 1 BY <2>2 DEF Outputs
    <3> QED BY <1>4, <3>1, <3>2
  <2> QED BY <2>1, <2>2
<1>7. Saves(op) => N[2].val = Mask
  <2>1. Saves(op) => op # "split" BY DEF Saves
  <2> QED BY <1>4, <1>5, <2>1
<1>8. Saves(op) => n.saved[1] = Len(tensors) + 2 BY <1>1
<1>9. ToSet(n.out) = {n.out[i] : i \in 1 .. Outputs(op)} BY <1>1, <1>3 DEF ToSet
<1> QED BY <1>1, <1>3, <1>6, <1>7, <1>8, <1>9 DEF Fits

\* The forward pass records what flows.
LEMMA FlowForward ==
  ASSUME Shape, Core(core), Before, Flow,
         NEW op \in Ops, NEW x \in Given, NEW y \in Given, Forward(op, x, y)
  PROVE  Flow'
<1> DEFINE n == NodeOf(op, x, y)
           v == Compute(op, core.mem[Span(x)], core.mem[Span(y)])
           c == Written(core, n, v)
           N == NewTensors(core, n, v)
           new == Len(tensors)
           out == Outputs(op)
<1>1. /\ Ok(c) /\ tensors' = tensors \o N
      /\ tape' = (IF Records(n) THEN Append(tape, n) ELSE tape)
  BY DEF Forward
<1>2. x \in TensorId /\ y \in TensorId BY DEF Given
<1>3. op \in {"add", "mul", "dropout", "dropout_add", "split", "reshape"} BY AutogradAssumption
<1>4. N \in Seq(Tensor) /\ Len(N) = out + (IF Saves(op) THEN 1 ELSE 0)
  <2>1. Stored(op, c, N) BY <1>1, <1>2, <1>3, ForwardStorage
  <2> HIDE DEF n, v, c, N
  <2> QED BY <2>1 DEF Stored
<1>5. tensors \in Seq(Tensor) /\ new \in Nat /\ DOMAIN tape = 1 .. Len(tape) /\ Len(tape) \in Nat
  BY DEF Shape
<1>6. n = NodeOf(op, x, y) /\ N = NewTensors(core, n, v) OBVIOUS
<1> HIDE DEF n, N, v, c, out
<1>7. /\ n.op = op
      /\ \A i \in 1 .. out : N[i].rg = Records(n)
      /\ Saves(op) => N[2].val = Mask /\ n.saved[1] = new + 2
      /\ \A i \in 1 .. out : n.out[i] = new + i
      /\ ToSet(n.out) = {n.out[i] : i \in 1 .. out}
  <2>1. Fits(op, n, N) BY <1>3, <1>6, NewTensorsAre
  <2> QED BY <2>1 DEF Fits, out
<1>8. out \in Nat /\ (Saves(op) => out = 1) /\ (op = "split" => out = 2)
  BY DEF Outputs, Saves, out
<1>9. Len(N) \in Nat /\ out <= Len(N) /\ (Saves(op) => 2 \in 1 .. Len(N)) BY <1>4, <1>8
<1>10. /\ Len(tensors') = new + Len(N)
       /\ \A t \in 1 .. new : tensors'[t] = tensors[t]
       /\ \A i \in 1 .. Len(N) : tensors'[new + i] = N[i]
  <2>1. tensors \in Seq(Tensor) /\ N \in Seq(Tensor) /\ tensors' = tensors \o N BY <1>1, <1>4, <1>5
  <2> QED BY <2>1
<1>11. Len(Leaves) \in Nat /\ Len(Leaves) <= new BY Sizes DEF Flow
<1> HIDE DEF new
<1>12. Len(Leaves) <= Len(tensors') BY <1>5, <1>9, <1>10, <1>11
<1> DEFINE Fine(ts, m) == /\ \A t \in ToSet(m.out) : ts[t].rg /\ t > Len(Leaves)
                          /\ Saves(m.op) => ts[m.saved[1]].val = Mask
                          /\ m.op = "split" => m.out[1] # m.out[2]
<1>13. \A i \in DOMAIN tape : Fine(tensors, tape[i]) BY DEF Flow, NeedsGrad
<1>14. ASSUME NEW i \in DOMAIN tape PROVE Fine(tensors', tape[i])
  <2>1. NodeOK(tape[i], new) BY DEF Shape, new
  <2>2. \A t \in ToSet(tape[i].out) : tensors'[t] = tensors[t] BY <1>10, <2>1 DEF NodeOK
  <2>3. Saves(tape[i].op) => tape[i].saved[1] \in 1 .. new
    <3>0. tape[i] \in Node BY DEF Shape
    <3>1. tape[i].saved \in Seq(Nat) BY <3>0 DEF Node
    <3>2. Saves(tape[i].op) => Len(tape[i].saved) = 1 BY <2>1 DEF NodeOK
    <3>3. Saves(tape[i].op) => tape[i].saved[1] \in ToSet(tape[i].saved)
      BY <3>1, <3>2 DEF ToSet
    <3> QED BY <2>1, <3>3 DEF NodeOK
  <2> QED BY <1>10, <1>13, <2>2, <2>3
<1>15. ASSUME Records(n) PROVE Fine(tensors', n)
  <2>1. ASSUME NEW i \in 1 .. out PROVE tensors'[new + i].rg /\ new + i > Len(Leaves)
    <3>1. i \in 1 .. Len(N) BY <1>8, <1>9
    <3>2. tensors'[new + i] = N[i] BY <1>10, <3>1
    <3>3. new + i > Len(Leaves) BY <1>5, <1>8, <1>11
    <3> QED BY <1>7, <1>15, <3>2, <3>3
  <2>2. \A t \in ToSet(n.out) : tensors'[t].rg /\ t > Len(Leaves) BY <1>7, <2>1
  <2>3. Saves(op) => tensors'[n.saved[1]].val = Mask BY <1>7, <1>9, <1>10
  <2>4. op = "split" => n.out[1] # n.out[2]
    <3>1. op = "split" => n.out[1] = new + 1 /\ n.out[2] = new + 2
      <4>1. out = 2 => 1 \in 1 .. out /\ 2 \in 1 .. out OBVIOUS
      <4> QED BY <1>7, <1>8, <4>1
    <3> QED BY <1>5, <3>1
  <2> QED BY <1>7, <2>2, <2>3, <2>4
<1>16. ASSUME NEW i \in DOMAIN tape' PROVE Fine(tensors', tape'[i])
  <2> HIDE DEF Fine
  <2>1. CASE ~ Records(n) BY <1>1, <1>14, <1>16, <2>1
  <2>2. CASE Records(n)
    <3>1. tape' = Append(tape, n) BY <1>1, <2>2
    <3>2. tape \in Seq(Node) BY DEF Shape
    <3>3. DOMAIN tape' = 1 .. Len(tape) + 1 /\ tape'[Len(tape) + 1] = n
          /\ \A j \in 1 .. Len(tape) : tape'[j] = tape[j]
      BY <1>5, <3>1, <3>2
    <3>4. i \in 1 .. Len(tape) \/ i = Len(tape) + 1
      <4>1. i \in 1 .. Len(tape) + 1 BY <1>16, <3>3
      <4> QED BY <1>5, <4>1, LastOrBefore
    <3> QED BY <1>5, <1>14, <1>15, <2>2, <3>3, <3>4
  <2> QED BY <2>1, <2>2
<1> QED BY <1>12, <1>16 DEF Flow, NeedsGrad

\* A reference that waits for its turn still counts.
LEMMA ReferenceLive ==
  ASSUME Shape, During, NEW t \in ToSet(Refs(tape[walk]))
  PROVE  t \in TensorId /\ (Span(t) \in Params \/ LiveStorageActive(core, Span(t)))
<1>1. walk \in DOMAIN tape /\ walk \in Nat BY DEF During, Shape
<1>2. PICK p \in DOMAIN Refs(tape[walk]) : t = Refs(tape[walk])[p] BY DEF ToSet
<1>3. t \in TensorId BY <1>1, <1>2, RefsOfNode
<1>4. Span(t) \in Scratch \cup Params
  <2>1. tensors[t] \in Tensor BY <1>3 DEF Shape, TensorId
  <2> QED BY <2>1 DEF Tensor, Span
<1>5. ASSUME Span(t) \in Scratch PROVE LiveStorageActive(core, Span(t))
  <2> DEFINE x == <<walk, p>>
  <2>1. x \in Occurrences /\ SpanAt(x) = Span(t) /\ x[1] = walk /\ x[2] = p
    BY <1>1, <1>2, OccurrencesFinite DEF SpanAt
  <2>2. x[2] > 0
    <3>1. p \in 1 .. Len(Refs(tape[walk])) /\ Len(Refs(tape[walk])) \in 1 .. 5 BY <1>1, RefsOfNode
    <3> QED BY <2>1, <3>1
  <2> HIDE DEF x
  <2>3. x \in Left(walk, 0, Span(t)) BY <2>1, <2>2 DEF Left
  <2>4. IsFiniteSet(Left(walk, 0, Span(t)))
    <3>1. Left(walk, 0, Span(t)) \subseteq Occurrences BY DEF Left
    <3> QED BY <3>1, OccurrencesFinite, FS_Subset
  <2>5. /\ Span(t) \in DOMAIN core.refs
        /\ core.refs[Span(t)] = Cardinality(Left(walk, 0, Span(t)))
    BY <1>5, <2>1 DEF During, Counts
  <2> QED BY <2>3, <2>4, <2>5, FS_EmptySet DEF LiveStorageActive
<1> QED BY <1>3, <1>4, <1>5

\* So the node whose turn it is finds its inputs and what it saved.
LEMMA TurnReadable == ASSUME Shape, During PROVE Readable(core, tape[walk])
<1> DEFINE n == tape[walk]
<1>1. walk \in DOMAIN tape BY DEF During
<1>2. n \in Node BY <1>1, RefsOfNode
<1>3. ToSet(n.in) \cup ToSet(n.saved) \subseteq ToSet(Refs(n))
  <2>1. n.in \in Seq(Nat) /\ n.out \in Seq(Nat) /\ n.saved \in Seq(Nat) BY <1>2 DEF Node
  <2> HIDE DEF n
  <2> DEFINE a == n.in \o n.out
  <2>2. a \in Seq(Nat) /\ ToSet(a) = ToSet(n.in) \cup ToSet(n.out) BY <2>1, Joined
  <2> HIDE DEF a
  <2>3. ToSet(a \o n.saved) = ToSet(a) \cup ToSet(n.saved) BY <2>1, <2>2, Joined
  <2>4. Refs(n) = a \o n.saved BY DEF Refs, a
  <2> QED BY <2>2, <2>3, <2>4
<1> QED BY <1>3, ReferenceLive DEF Readable

\* The seeds are right before the walk.
LEMMA StartRight ==
  ASSUME Shape, Core(core), Slots(core), Before, Flow, NEW sd, SeedsOK(sd),
         Ok(SeedAll([core EXCEPT !.refs = LiveSpans], sd))
  PROVE  LET c == SeedAll([core EXCEPT !.refs = LiveSpans], sd) IN
         /\ SeedsAre(sd) /\ Typed(c, {})
         /\ \A t \in TensorId : NeedsGrad(t) =>
              IF HasGrad(c, t) THEN Amount(c, t) = SoFar(tensors, tape, sd, t, Len(tape)) % Prime
              ELSE SoFar(tensors, tape, sd, t, Len(tape)) = 0
<1> DEFINE a == [core EXCEPT !.refs = LiveSpans]
           c == SeedAll(a, sd)
<1>1. Sound(a) /\ a.held = core.held BY StartSound
<1>2. a.mem = core.mem /\ a.grads = core.grads BY SetRefs DEF Core
<1>3. Ok(c) OBVIOUS
<1> HIDE DEF a
<1>4. DOMAIN a.grads = {} BY <1>2 DEF Before
<1>5. ASSUME NEW t \in TensorId
      PROVE  Span(t) \in a.held \cup Params /\ a.mem[Span(t)] = tensors[t].val
  <2>1. tensors[t] \in Tensor BY DEF Shape, TensorId
  <2>2. Span(t) \in Scratch \cup Params BY <2>1 DEF Tensor, Span
  <2> QED BY <1>1, <1>2, <2>2 DEF Before
<1>6. /\ Typed(c, {})
      /\ \A t \in TensorId : NeedsGrad(t) =>
           IF HasGrad(c, t) THEN Amount(c, t) = SeedSum(tensors, sd, t) % Prime
           ELSE SeedSum(tensors, sd, t) = 0
  BY <1>1, <1>3, <1>4, <1>5, SeedAllRight
<1> HIDE DEF c
<1>7. SeedsAre(sd) BY SeedSumIs
<1>8. Acyclic(tensors, tape) /\ Integral(tensors, tape, sd) BY <1>7, TapeFlows
<1>9. ASSUME NEW t \in TensorId PROVE SoFar(tensors, tape, sd, t, Len(tape)) = SeedSum(tensors, sd, t)
  BY <1>8, SoFarEnds DEF TensorId
<1>10. \A t \in TensorId : NeedsGrad(t) =>
         IF HasGrad(c, t) THEN Amount(c, t) = SoFar(tensors, tape, sd, t, Len(tape)) % Prime
         ELSE SoFar(tensors, tape, sd, t, Len(tape)) = 0
  BY <1>6, <1>9
<1> QED BY <1>6, <1>7, <1>10 DEF a, c

\* What the slots hold at each turn, and in the end.
GradInv ==
  /\ Flow
  /\ phase = "backward" => SeedsAre(seeds) /\ Right(core, walk)
  /\ phase = "done" /\ core.lost = {} => SeedsAre(seeds) /\ Right(core, 0)

\* All of it is about the tensors, the tape and the seeds.
LEMMA SameFlow ==
  ASSUME UNCHANGED <<tensors, tape>>
  PROVE  /\ Flow' <=> Flow
         /\ \A c, X : Typed(c, X)' <=> Typed(c, X)
         /\ \A t, w : ComputedBy(t, w)' <=> ComputedBy(t, w)
         /\ \A t : NeedsGrad(t)' <=> NeedsGrad(t)
         /\ TensorId' = TensorId
<1>1. TensorId' = TensorId BY DEF TensorId
<1>2. \A t : NeedsGrad(t)' <=> NeedsGrad(t) BY DEF NeedsGrad
<1>3. \A t, w : ComputedBy(t, w)' <=> ComputedBy(t, w) BY DEF ComputedBy
<1>4. Flow' <=> Flow BY <1>2 DEF Flow
<1>5. \A c, X : Typed(c, X)' <=> Typed(c, X) BY <1>1, <1>2 DEF Typed, Amount, HasGrad
<1> QED BY <1>1, <1>2, <1>3, <1>4, <1>5

\* And so is what is right.
LEMMA SameRight ==
  ASSUME UNCHANGED <<tensors, tape, seeds>>
  PROVE  /\ SeedsAre(seeds)' <=> SeedsAre(seeds)
         /\ \A c, w : Right(c, w)' <=> Right(c, w)
<1>1. SeedsAre(seeds)' <=> SeedsAre(seeds) BY DEF SeedsAre
<1>2. \A t, w : SoFar(tensors, tape, seeds, t, w)' = SoFar(tensors, tape, seeds, t, w) OBVIOUS
<1>3. \A c, w : Right(c, w)' <=> Right(c, w) BY <1>2, SameFlow DEF Right, Amount, HasGrad
<1> QED BY <1>1, <1>3

\* gd_backward up to its loop leaves the seeds in the slots.
LEMMA GradStart ==
  ASSUME AutogradInv, GradInv, MaxBackward <= 1, NEW sd, Start(sd), SeedsOK(sd) PROVE GradInv'
<1> DEFINE c == SeedAll([core EXCEPT !.refs = LiveSpans], sd)
<1>1. /\ backwards < MaxBackward /\ seeds' = sd /\ core' = c /\ walk' = Len(tape)
      /\ phase' = (IF ~ Ok(c) THEN "failed" ELSE IF tape = <<>> THEN "done" ELSE "backward")
      /\ tensors' = tensors /\ tape' = tape
  BY DEF Start
<1>2. phase = "forward"
  <2>1. backwards \in Nat /\ MaxBackward \in Nat BY AutogradAssumption DEF AutogradInv
  <2>2. ~ (backwards > 0) BY <1>1, <2>1
  <2> QED BY <2>1, <2>2 DEF AutogradInv
<1>3. Shape /\ Core(core) /\ Slots(core) /\ Before /\ Flow BY <1>2 DEF AutogradInv, GradInv
<1>4. Flow' BY <1>1, <1>3, SameFlow
<1>5. CASE ~ Ok(c)
  <2>1. phase' = "failed" BY <1>1, <1>5
  <2> QED BY <1>4, <2>1 DEF GradInv
<1>6. CASE Ok(c)
  <2>1. PICK e, k : e = c /\ k = Len(tape) OBVIOUS
  <2>2. /\ SeedsAre(sd) /\ Typed(e, {})
        /\ \A t \in TensorId : NeedsGrad(t) =>
             IF HasGrad(e, t) THEN Amount(e, t) = SoFar(tensors, tape, sd, t, k) % Prime
             ELSE SoFar(tensors, tape, sd, t, k) = 0
    BY <1>3, <1>6, <2>1, StartRight
  <2>3. core' = e /\ k = Len(tape') BY <1>1, <2>1
  <2> HIDE DEF c
  <2>4. SeedsAre(seeds)' BY <1>1, <2>2 DEF SeedsAre
  <2>5. Right(core, Len(tape))'
    BY <1>1, <2>2, <2>3, SameFlow DEF Right, Amount, HasGrad, Typed, ComputedBy
  <2>6. walk' = Len(tape') BY <1>1
  <2>7. tape = <<>> => Len(tape') = 0 BY <1>1
  <2>8. Right(core, walk)' BY <2>5, <2>6 DEF Right, ComputedBy
  <2>9. tape = <<>> => Right(core, 0)' BY <2>5, <2>7 DEF Right, ComputedBy
  <2>10. phase' = "done" => tape = <<>> BY <1>1
  <2> QED BY <1>4, <2>4, <2>8, <2>9, <2>10 DEF GradInv
<1> QED BY <1>5, <1>6

\* A turn of the loop takes the gradients on.
LEMMA GradVisit == ASSUME AutogradInv, GradInv, BackwardVisit PROVE GradInv'
<1> DEFINE c == Visit(core, tape[walk])
<1>1. /\ phase = "backward" /\ core' = c /\ walk' = walk - 1
      /\ IF ~ Ok(c) THEN phase' = "failed"
         ELSE IF walk = 1 THEN phase' = "done" ELSE phase' = phase
      /\ tensors' = tensors /\ tape' = tape /\ seeds' = seeds
  BY DEF BackwardVisit, Finish
<1>2. Shape /\ During /\ Flow /\ SeedsAre(seeds) /\ Right(core, walk)
  BY <1>1 DEF AutogradInv, GradInv
<1>3. Flow' BY <1>1, <1>2, SameFlow
<1>4. SeedsAre(seeds)' BY <1>1, <1>2, SameRight
<1>5. CASE ~ Ok(c)
  <2>1. phase' = "failed" BY <1>1, <1>5
  <2> QED BY <1>3, <2>1 DEF GradInv
<1>6. CASE Ok(c)
  <2>1. Readable(core, tape[walk]) BY <1>2, TurnReadable
  <2>2. Right(c, walk - 1) BY <1>2, <1>6, <2>1, VisitRight DEF During
  <2> HIDE DEF c
  <2> DEFINE w == walk - 1
  <2>3. Right(c, w) BY <2>2
  <2>4. core' = c /\ walk' = w BY <1>1
  <2>5. walk = 1 => w = 0 OBVIOUS
  <2> HIDE DEF w
  <2>6. Right(core, walk)' BY <1>1, <2>3, <2>4, SameFlow DEF Right, Amount, HasGrad, Typed, ComputedBy
  <2>7. walk = 1 => Right(core, 0)' BY <2>4, <2>5, <2>6 DEF Right, ComputedBy
  <2>8. phase' = "done" => walk = 1 BY <1>1, <1>6
  <2> QED BY <1>3, <1>4, <2>6, <2>7, <2>8 DEF GradInv
<1> QED BY <1>5, <1>6

\* Every step keeps the gradients right.
LEMMA GradStep == ASSUME AutogradInv, GradInv, MaxBackward <= 1, [Next]_vars PROVE GradInv'
<1>1. ASSUME NEW op \in Ops, NEW x \in Given, NEW y \in Given, Forward(op, x, y) PROVE GradInv'
  <2>1. phase = "forward" /\ phase' = phase BY <1>1 DEF Forward
  <2>2. Flow' BY <1>1, <2>1, FlowForward DEF AutogradInv, GradInv
  <2> QED BY <2>1, <2>2 DEF GradInv
<1>2. ASSUME NEW enabled \in BOOLEAN, SetGradEnabled(enabled) PROVE GradInv'
  <2>1. phase = "forward" /\ phase' = phase /\ UNCHANGED <<tensors, tape>> BY <1>2 DEF SetGradEnabled
  <2> QED BY <2>1, SameFlow DEF GradInv
<1>3. ASSUME NEW t \in Differentiable, NEW g \in GradOutput, NEW scale \in Scales,
             BackwardOne(t, g, scale)
      PROVE  GradInv'
  <2> DEFINE sd == [outputs |-> <<t>>, grads |-> <<g>>, scale |-> scale, recording |-> recording]
  <2>1. Start(sd) BY <1>3 DEF BackwardOne
  <2>2. t \in TensorId /\ t \in Nat /\ NeedsGrad(t) BY DEF Differentiable, Given, TensorId, NeedsGrad
  <2>3. g = 0 \/ g \in TensorId BY DEF GradOutput, Given
  <2>4. scale \in Nat BY AutogradAssumption
  <2>5. /\ sd.outputs = <<t>> /\ sd.grads[1] = g /\ sd.scale = scale OBVIOUS
  <2> HIDE DEF sd
  <2>6. /\ sd.outputs \in Seq(Nat) /\ Len(sd.outputs) = 1 /\ sd.outputs[1] = t BY <2>2, <2>5
  <2>7. \A i \in 1 .. 1 : i = 1 OBVIOUS
  <2>8. SeedsOK(sd) BY <2>2, <2>3, <2>4, <2>5, <2>6, <2>7 DEF SeedsOK
  <2> QED BY <2>1, <2>8, GradStart
<1>4. ASSUME NEW t \in Differentiable, NEW u \in Differentiable, BackwardMany(t, u)
      PROVE  GradInv'
  <2> DEFINE sd == [outputs |-> <<t, u>>, grads |-> <<0, 1>>, scale |-> 1, recording |-> recording]
  <2>1. Start(sd) BY <1>4 DEF BackwardMany
  <2>2. /\ t \in TensorId /\ t \in Nat /\ NeedsGrad(t)
        /\ u \in TensorId /\ u \in Nat /\ NeedsGrad(u)
    BY DEF Differentiable, Given, TensorId, NeedsGrad
  <2>3. 1 \in TensorId /\ Span(1) \in Params
    <3>1. Shape BY DEF AutogradInv
    <3>2. tensors \in Seq(Tensor) /\ 1 \in TensorId BY <2>2, <3>1 DEF Shape, TensorId
    <3>3. tensors # <<>> BY <2>2 DEF TensorId
    <3> QED BY <3>1, <3>2, <3>3 DEF Shape, Span
  <2>4. /\ sd.outputs = <<t, u>> /\ sd.grads[1] = 0 /\ sd.grads[2] = 1 /\ sd.scale = 1 OBVIOUS
  <2> HIDE DEF sd
  <2>5. /\ sd.outputs \in Seq(Nat) /\ Len(sd.outputs) = 2
        /\ sd.outputs[1] = t /\ sd.outputs[2] = u
    BY <2>2, <2>4
  <2>6. \A i \in 1 .. 2 : i = 1 \/ i = 2 OBVIOUS
  <2>7. SeedsOK(sd) BY <2>2, <2>3, <2>4, <2>5, <2>6 DEF SeedsOK
  <2> QED BY <2>1, <2>7, GradStart
<1>5. ASSUME BackwardVisit PROVE GradInv' BY <1>5, GradVisit
<1>6. ASSUME ZeroGrad PROVE GradInv'
  <2> DEFINE c == [core EXCEPT !.grads = <<>>]
             x == core.lost \cup Range(core.grads)
             d == [c EXCEPT !.lost = x]
  <2>1. /\ phase # "backward" /\ core' = d /\ phase' = phase
        /\ tensors' = tensors /\ tape' = tape /\ seeds' = seeds
    BY <1>6 DEF ZeroGrad
  <2>2. Flow' BY <2>1, SameFlow DEF GradInv
  <2>3. c.grads = <<>> /\ c.lost = core.lost /\ c.full = core.full /\ Whole(c)
    BY SetGrads DEF AutogradInv, Core
  <2> HIDE DEF c, x
  <2>4. d.grads = <<>> /\ d.lost = x BY <2>3, SetLost
  <2> HIDE DEF d
  <2>5. ASSUME phase' = "done", core'.lost = {} PROVE SeedsAre(seeds)' /\ Right(core, 0)'
    <3>1. core.lost = {} /\ Range(core.grads) = {} BY <2>1, <2>4, <2>5 DEF x
    <3>2. DOMAIN core.grads = {} BY <3>1 DEF Range
    <3>3. SeedsAre(seeds) /\ Right(core, 0) BY <2>1, <2>5, <3>1 DEF GradInv
    <3>4. SeedsAre(seeds)' /\ Right(core, 0) BY <2>1, <3>3, SameRight
    <3>5. DOMAIN core'.grads = {} BY <2>1, <2>4
    <3>6. Right(core', 0)
      BY <3>2, <3>3, <3>5 DEF Right, Typed, Amount, HasGrad
    <3>7. Right(core, 0)'
      BY <2>1, <3>6, SameFlow DEF Right, Typed, Amount, HasGrad, ComputedBy
    <3> QED BY <3>4, <3>7
  <2> QED BY <2>1, <2>2, <2>5 DEF GradInv
<1>7. ASSUME NEW m \in {"TRAIN", "EVAL"}, NextStep(m) PROVE GradInv'
  <2>1. tensors' = FreshTensors /\ tape' = <<>> /\ phase' = "forward"
    BY <1>7 DEF NextStep
  <2>2. Len(FreshTensors) = Len(Leaves) /\ Len(Leaves) \in Nat BY Sizes DEF FreshTensors
  <2>3. DOMAIN tape' = {} /\ Len(Leaves) <= Len(tensors') BY <2>1, <2>2
  <2> QED BY <2>1, <2>3 DEF GradInv, Flow
<1>8. ASSUME UNCHANGED vars PROVE GradInv'
  <2>1. /\ tensors' = tensors /\ tape' = tape /\ seeds' = seeds /\ walk' = walk /\ core' = core
        /\ phase' = phase
    BY <1>8 DEF vars
  <2>2. Flow' <=> Flow BY <2>1, SameFlow
  <2>3. SeedsAre(seeds)' <=> SeedsAre(seeds) BY <2>1, SameRight
  <2>4. (Right(core, walk)' <=> Right(core, walk)) /\ (Right(core, 0)' <=> Right(core, 0))
    BY <2>1, SameFlow DEF Right, Typed, Amount, HasGrad, ComputedBy
  <2> QED BY <2>1, <2>2, <2>3, <2>4 DEF GradInv
<1> QED BY <1>1, <1>2, <1>3, <1>4, <1>5, <1>6, <1>7, <1>8 DEF Next

\* As long as gd_backward is called once in a step, a backward pass that
\* succeeded leaves every parameter the gradient of the chain rule, modulo the
\* prime, and none only where it is zero: for every tape of the operators, all
\* seeds, and whatever was stolen, adopted, given back and written over.
THEOREM GradientsAlwaysRight == ASSUME MaxBackward <= 1 PROVE Spec => []GradientsRight
<1>1. Init => GradInv
  <2> SUFFICES ASSUME Init PROVE GradInv OBVIOUS
  <2>1. tensors = FreshTensors /\ tape = <<>> /\ phase = "forward" BY DEF Init
  <2>2. Len(FreshTensors) = Len(Leaves) /\ Len(Leaves) \in Nat BY Sizes DEF FreshTensors
  <2>3. DOMAIN tape = {} /\ Len(Leaves) <= Len(tensors) BY <2>1, <2>2
  <2> QED BY <2>1, <2>3 DEF GradInv, Flow
<1>2. AutogradInv /\ GradInv /\ [Next]_vars => GradInv' BY GradStep
<1>3. AutogradInv /\ GradInv => GradientsRight
  <2> SUFFICES ASSUME AutogradInv, GradInv, phase = "done", core.lost = {},
                      NEW t \in 1 .. Len(Leaves)
               PROVE  IF HasGrad(core, t) THEN core.mem[core.grads[t]] = Adjoint[t] % Prime
                      ELSE NeedsGrad(t) => Adjoint[t] = 0
    BY DEF GradientsRight
  <2>1. Shape /\ Flow /\ SeedsAre(seeds) /\ Right(core, 0) BY DEF AutogradInv, GradInv
  <2>2. t \in TensorId /\ t \in 1 .. Len(tensors)
    <3>1. Len(tensors) \in Nat BY <2>1 DEF Shape
    <3>2. Len(Leaves) \in Nat /\ Len(Leaves) <= Len(tensors) BY <2>1, Sizes DEF Flow
    <3> QED BY <3>1, <3>2 DEF TensorId
  <2>3. ComputedBy(t, 0)
    <3>1. ~ (t > Len(Leaves)) BY Sizes
    <3> QED BY <2>1, <3>1 DEF ComputedBy, Flow
  <2>4. Acyclic(tensors, tape) /\ Integral(tensors, tape, seeds) BY <2>1, TapeFlows
  <2>5. \A kp \in Uses(tape, t) : kp[1] > 0
    <3>1. \A kp \in Uses(tape, t) : kp[1] \in 1 .. Len(tape) BY <2>4, UseIs
    <3> QED BY <3>1
  <2>6. SoFar(tensors, tape, seeds, t, 0) = Adjoint[t] BY <2>2, <2>4, <2>5, SoFarEnds DEF Adjoint
  <2>7. HasGrad(core, t) => NeedsGrad(t) BY <2>1 DEF Right, Typed, HasGrad
  <2>8. HasGrad(core, t) => core.mem[core.grads[t]] = Amount(core, t) BY DEF Amount
  <2> QED BY <2>1, <2>2, <2>3, <2>6, <2>7, <2>8 DEF Right
<1> QED BY <1>1, <1>2, <1>3, AutogradInvariance, PTL DEF Spec
=============================================================================
