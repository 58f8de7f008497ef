------------------------------ MODULE Autograd ------------------------------
(***************************************************************************)
(* The autograd of one step (src/src/autograd/autograd.c, with the rules   *)
(* of src/src/ops/<op>/autograd_<op>.c): operators recorded on a tape, and *)
(* a backward pass that walks it in reverse, accumulates gradients, and    *)
(* gives scratch storage back as soon as nothing on the tape needs it.     *)
(*                                                                         *)
(* A tensor is a number, its id; storage is a span of the scratch arena,   *)
(* all of one size, or a parameter (a negative span), which is never given *)
(* back.  A tensor's elements are one integer, so that operators compute   *)
(* and the gradients can be compared with those of the chain rule; they    *)
(* are taken modulo a prime.  What is in a span stays there when it is     *)
(* freed and given out again.                                              *)
(* Its shape is the set of the dimensions along which it is longer than    *)
(* one, of the two that broadcast: add and mul repeat an operand along     *)
(* those it lacks, and sum its gradient over them.  Split cuts a later     *)
(* dimension, which all tensors have.                                      *)
(* The queue of the device runs kernels in order: they compute at once.    *)
(***************************************************************************)
EXTENDS Integers, Sequences, FiniteSets, FiniteSetsExt, SequencesExt

CONSTANTS
  Leaves,         \* requires_grad and shape of each parameter, a sequence
  Extent,         \* length of a dimension that broadcasts
  Spans,          \* size of the scratch arena of the step
  MaxNodes,       \* capacity of the tape, and bound on it
  MaxGrads,       \* GD_AUTOGRAD_MAX_GRADS
  MaxTensors,     \* bound: tensors of a step
  MaxBackward,    \* bound: backward passes of a step
  Ops,            \* the operators the model runs
  Scales          \* loss scales, 1 or not

ASSUME AutogradAssumption ==
  /\ Leaves \in Seq([rg : BOOLEAN, dims : SUBSET {1, 2}])
  /\ Extent \in Nat \ {0, 1}
  /\ {Spans, MaxNodes, MaxGrads, MaxTensors, MaxBackward} \subseteq Nat
  /\ Ops \subseteq {"add", "mul", "dropout", "dropout_add", "split", "reshape"}
  /\ Scales \subseteq Nat \ {0}

VARIABLES
  mode,           \* of the scope
  userEnabled,    \* state->user_enabled
  recording,      \* state->recording
  tensors,        \* descriptors: storage, requires_grad, shape, the value computed,
                  \* and whether the caller has it (not what an operator saves)
  tape,           \* state->nodes with their refs
  core,           \* the scratch arena, state->grads and state->live_spans
  phase,          \* where gd_backward is
  walk,           \* the node it goes on with
  seeds,          \* its outputs, grad_outputs and scale, and old_recording
  backwards       \* backward passes of this step

vars == <<mode, userEnabled, recording, tensors, tape, core, phase, walk, seeds, backwards>>

Scratch  == 1 .. Spans
Params   == {-i : i \in 1 .. Len(Leaves)}
TensorId == 1 .. Len(tensors)
Mask     == 5                    \* what dropout multiplies by
Prime    == 97
Node     == [op : Ops, in : Seq(Nat), out : Seq(Nat), saved : Seq(Nat)]

NoSeeds == [outputs |-> <<>>, grads |-> <<>>, scale |-> 1, recording |-> FALSE]

FreshCore ==
  [held  |-> {},                 \* spans given out
   top   |-> 0,                  \* the arena's offset
   mem   |-> [s \in Scratch \cup Params |-> IF s < 0 THEN (1 - s) % Prime ELSE 0],
   grads |-> <<>>,               \* tensor id -> storage of its slot
   refs  |-> <<>>,               \* span -> references the tape still has to it
   lost  |-> {},                 \* gradients dropped by gd_zero_grad
   full  |-> <<>>,               \* operand of a mul -> the product it keeps for it
   status |-> "OK"]

FreshTensors ==
  [i \in 1 .. Len(Leaves) |->
     [span |-> -i, rg |-> Leaves[i].rg, dims |-> Leaves[i].dims, val |-> (1 + i) % Prime,
      given |-> TRUE]]

Init ==
  /\ mode = "TRAIN" /\ userEnabled = TRUE /\ recording = TRUE
  /\ tensors = FreshTensors /\ tape = <<>> /\ core = FreshCore
  /\ phase = "forward" /\ walk = 0 /\ seeds = NoSeeds /\ backwards = 0

----------------------------------------------------------------------------
(* The scratch arena.  Module Arena has its details.                       *)

Ok(c) == c.status = "OK"
Fail(c, why) == [c EXCEPT !.status = why]

Hole(c, s) == s \in (1 .. c.top) \ c.held
HoleStarts(c) == {s \in 1 .. c.top : Hole(c, s) /\ ~Hole(c, s - 1)}
HoleSize(c, s) == Min({e \in s + 1 .. c.top + 1 : ~Hole(c, e)}) - s

\* The smallest free block, or the end of the arena.
Fresh(c) ==
  IF HoleStarts(c) = {} THEN c.top + 1
  ELSE CHOOSE s \in HoleStarts(c) : \A t \in HoleStarts(c) :
         \/ HoleSize(c, s) < HoleSize(c, t)
         \/ HoleSize(c, s) = HoleSize(c, t) /\ s <= t

\* A kernel writes v to storage s.
Write(c, s, v) == [c EXCEPT !.mem = [@ EXCEPT ![s] = v % Prime]]

\* gd_context_alloc_span
Allocate(c, s) == [c EXCEPT !.held = @ \cup {s}, !.top = Max({@, s})]

\* A new tensor for the result v of a kernel: its storage is Fresh(c).
Produce(c, v) ==
  IF ~Ok(c) THEN c
  ELSE IF Fresh(c) > Spans THEN Fail(c, "OUT_OF_MEMORY")
  ELSE Write(Allocate(c, Fresh(c)), Fresh(c), v)

\* gd_context_free_span
FreeSpan(c, s) ==
  IF ~Ok(c) THEN c
  ELSE IF s \notin c.held THEN Fail(c, "BAD_STATE")
  ELSE [c EXCEPT !.held = @ \ {s}]

----------------------------------------------------------------------------
(* Gradient slots and live spans.                                          *)

Without(f, x) == [y \in DOMAIN f \ {x} |-> f[y]]
With(f, x, v) == [y \in DOMAIN f \cup {x} |-> IF y = x THEN v ELSE f[y]]

HasGrad(c, t) == t \in DOMAIN c.grads
GradStorageActive(c, s) == \E t \in DOMAIN c.grads : c.grads[t] = s
LiveStorageActive(c, s) == s \in DOMAIN c.refs /\ c.refs[s] # 0

\* Mutants: a forward tensor, or storage of another slot, is adopted.
CanAdoptForward(c, s) == s \in Scratch /\ ~GradStorageActive(c, s)
CanAdoptGrad(c, s) == s \in Scratch /\ ~LiveStorageActive(c, s)

CanAdopt(c, s) ==
  /\ s \in Scratch
  /\ ~LiveStorageActive(c, s)
  /\ ~GradStorageActive(c, s)

\* Mutants: nothing is released, and a forward tensor is.
ReleaseNothing(c, s) == c
ReleaseForwardToo(c, s) ==
  IF s \in Scratch /\ ~GradStorageActive(c, s) THEN FreeSpan(c, s) ELSE c

ReleaseTemporary(c, s) == IF CanAdopt(c, s) THEN FreeSpan(c, s) ELSE c

AddSlot(c, t, s) ==
  IF ~Ok(c) THEN c
  ELSE IF Cardinality(DOMAIN c.grads) >= MaxGrads THEN Fail(c, "OUT_OF_MEMORY")
  ELSE [c EXCEPT !.grads = With(@, t, s)]

\* gd_create_grad_slot_copy claims a slot before it allocates.
CopySlot(c, t, s) ==
  IF Ok(c) /\ Cardinality(DOMAIN c.grads) >= MaxGrads THEN Fail(c, "OUT_OF_MEMORY")
  ELSE AddSlot(Produce(c, c.mem[s]), t, Fresh(c))

\* gd_autograd_accumulate
Accumulate(c, t, s) ==
  IF ~Ok(c) THEN c
  ELSE IF HasGrad(c, t)
       THEN ReleaseTemporary(Write(c, c.grads[t], c.mem[c.grads[t]] + c.mem[s]), s)
  ELSE IF CanAdopt(c, s) THEN AddSlot(c, t, s)
  ELSE ReleaseTemporary(CopySlot(c, t, s), s)

CanSteal(c, from, to) == from # to /\ ~HasGrad(c, to) /\ HasGrad(c, from)

\* Mutant: a gradient the input has already is replaced.
PassAlwaysSteals(c, from, to) ==
  IF ~Ok(c) \/ from = to THEN c
  ELSE [c EXCEPT !.grads = Without(With(@, to, @[from]), from)]

\* gd_autograd_steal_grad_if_absent, or else accumulate: how add and the
\* residual of dropout pass a gradient on.
Pass(c, from, to) ==
  IF ~Ok(c) THEN c
  ELSE IF CanSteal(c, from, to)
       THEN [c EXCEPT !.grads = Without(With(@, to, @[from]), from)]
  ELSE Accumulate(c, to, c.grads[from])

\* gd_release_grad_slot
ReleaseSlot(c, t) ==
  IF ~Ok(c) \/ ~HasGrad(c, t) THEN c
  ELSE IF Ok(FreeSpan(c, c.grads[t]))
       THEN [FreeSpan(c, c.grads[t]) EXCEPT !.grads = Without(@, t)]
  ELSE FreeSpan(c, c.grads[t])

DropRef(c, s) == [c EXCEPT !.refs = [@ EXCEPT ![s] = c.refs[s] - 1]]

\* gd_live_span_release_ref
ReleaseRef(c, t) ==
  LET s == tensors[t].span IN
  IF ~Ok(c) \/ s \notin DOMAIN c.refs \/ Contains(seeds.outputs, t) THEN c
  ELSE IF c.refs[s] = 0 THEN Fail(c, "BAD_STATE")
  ELSE IF c.refs[s] = 1 THEN FreeSpan(DropRef(c, s), s)
  ELSE DropRef(c, s)

----------------------------------------------------------------------------
(* Backward rules.  A rule is skipped unless an output has a gradient.     *)

NeedsGrad(t) == tensors[t].rg
Span(t) == tensors[t].span
Dims(t) == tensors[t].dims

\* A fresh contribution v to the gradient of t.
Contribute(c, t, v) ==
  IF NeedsGrad(t) THEN Accumulate(Produce(c, v), t, Fresh(c)) ELSE c

\* How many elements of a tensor of shape from are summed into one of shape to.
Repeats(from, to) ==
  (IF 1 \in from \ to THEN Extent ELSE 1) * (IF 2 \in from \ to THEN Extent ELSE 1)

Times(ts, n, p) == Repeats(ts[n.out[1]].dims, ts[n.in[p]].dims)

\* Mutant: the gradient is passed on as if the shapes were the same.
ReducesNothing(n, p) == FALSE

\* Whether operand p of n was repeated, so that its gradient is a sum.
Reduces(n, p) == Dims(n.in[p]) # Dims(n.out[1])

\* gd_binary_sum_to_shape of the output's gradient
AddReduced(c, n, p) ==
  IF NeedsGrad(n.in[p]) /\ Reduces(n, p)
  THEN Produce(c, c.mem[c.grads[n.out[1]]] * Times(tensors, n, p)) ELSE c

\* gd_add_autograd_backward makes the sums, and then hands on.
RuleAdd(c, n) ==
  LET dx == AddReduced(c, n, 1)
      dy == AddReduced(dx, n, 2)
      x  == IF ~NeedsGrad(n.in[1]) THEN dy
            ELSE IF Reduces(n, 1) THEN Accumulate(dy, n.in[1], Fresh(c))
            ELSE Pass(dy, n.out[1], n.in[1])
  IN  IF ~NeedsGrad(n.in[2]) THEN x
      ELSE Accumulate(x, n.in[2], IF Reduces(n, 2) THEN Fresh(dx) ELSE c.grads[n.out[1]])

FuseLimit == 32

\* gd_mul_suffix_reduce_should_fuse: operand p lacks leading dimensions only, few
\* elements are summed into one, and the other operand has the shape of the output.
Fused(n, p) ==
  /\ Dims(n.in[3 - p]) = Dims(n.out[1])
  /\ Dims(n.out[1]) \ Dims(n.in[p]) \in {{1}, {1, 2}}
  /\ Times(tensors, n, p) <= FuseLimit

\* Whether the gradient of operand p is summed from a product of full size.
Unfused(n, p) == Reduces(n, p) /\ ~Fused(n, p)

Unreduced(n) ==
  {<<n.out[1], p>> : p \in {q \in DOMAIN n.in : /\ n.op = "mul" /\ NeedsGrad(n.in[q])
                                                /\ Unfused(n, q)}}

\* full_dx and full_dy of gd_mul_backward: nobody gives them back.
FullProduct(c, n, p) ==
  LET d == Produce(c, c.mem[c.grads[n.out[1]]] * c.mem[Span(n.in[3 - p])]) IN
  IF ~Unfused(n, p) THEN c
  ELSE IF Ok(d) THEN [d EXCEPT !.full = With(@, <<n.out[1], p>>, Fresh(c))]
  ELSE d

\* The gradient of operand p: the product, summed over what was repeated.
MulGrad(c, n, p) ==
  IF ~NeedsGrad(n.in[p]) THEN c
  ELSE Produce(FullProduct(c, n, p),
               c.mem[c.grads[n.out[1]]] * c.mem[Span(n.in[3 - p])] * Times(tensors, n, p))

MulSpan(c, n, p) == Fresh(FullProduct(c, n, p))

\* gd_mul_backward fills both contributions before either is accumulated.
RuleMul(c, n) ==
  LET dx == MulGrad(c, n, 1)
      dy == MulGrad(dx, n, 2)
      x  == IF NeedsGrad(n.in[1]) THEN Accumulate(dy, n.in[1], MulSpan(c, n, 1)) ELSE dy
  IN  IF NeedsGrad(n.in[2]) THEN Accumulate(x, n.in[2], MulSpan(dx, n, 2)) ELSE x

RuleDropout(c, n) ==
  Contribute(c, n.in[1], c.mem[c.grads[n.out[1]]] * c.mem[Span(n.saved[1])])

\* The residual takes the gradient before the other input is computed from it.
RuleDropoutAdd(c, n) ==
  LET g == c.grads[n.out[1]]
      residual == IF NeedsGrad(n.in[1]) THEN Pass(c, n.out[1], n.in[1]) ELSE c
  IN  Contribute(residual, n.in[2], residual.mem[g] * residual.mem[Span(n.saved[1])])

\* Mutant: what the missing outputs would write is left as it is.
SplitGradEmpty(c, n) ==
  LET Part(o) == IF HasGrad(c, o) THEN c.mem[c.grads[o]]
                 ELSE IF Fresh(c) > Spans THEN 0 ELSE c.mem[Fresh(c)]
  IN  Part(n.out[1]) + Part(n.out[2])

\* Each output writes its part; missing ones leave the zeros of gd_tensor_zeros.
SplitGrad(c, n) ==
  LET Part(o) == IF HasGrad(c, o) THEN c.mem[c.grads[o]] ELSE 0
  IN  Part(n.out[1]) + Part(n.out[2])

RuleSplit(c, n) == Contribute(c, n.in[1], SplitGrad(c, n))

\* The contribution is a view of the output's gradient.
RuleReshape(c, n) ==
  IF NeedsGrad(n.in[1]) THEN Accumulate(c, n.in[1], c.grads[n.out[1]]) ELSE c

Rule(c, n) ==
  CASE n.op = "add"         -> RuleAdd(c, n)
    [] n.op = "mul"         -> RuleMul(c, n)
    [] n.op = "dropout"     -> RuleDropout(c, n)
    [] n.op = "dropout_add" -> RuleDropoutAdd(c, n)
    [] n.op = "split"       -> RuleSplit(c, n)
    [] n.op = "reshape"     -> RuleReshape(c, n)

Refs(n) == n.in \o n.out \o n.saved

ReleaseOutputGrads(c, n) ==
  LET after[i \in 0 .. Len(n.out)] ==
        IF i = 0 THEN c ELSE ReleaseSlot(after[i - 1], n.out[i])
  IN  after[Len(n.out)]

ReleaseForwardRefs(c, n) ==
  LET after[i \in 0 .. Len(Refs(n))] ==
        IF i = 0 THEN c ELSE ReleaseRef(after[i - 1], Refs(n)[i])
  IN  after[Len(Refs(n))]

\* One turn of the loop over the nodes.
Visit(c, n) ==
  IF \A i \in DOMAIN n.out : ~HasGrad(c, n.out[i])
  THEN ReleaseForwardRefs(c, n)
  ELSE ReleaseForwardRefs(ReleaseOutputGrads(Rule(c, n), n), n)

----------------------------------------------------------------------------
(* Forward.                                                                *)

Outputs(op) == IF op = "split" THEN 2 ELSE 1
Binary(op) == op \in {"add", "mul", "dropout_add"}
Saves(op) == op \in {"dropout", "dropout_add"}

Compute(op, x, y) ==
  CASE op = "add"         -> (x + y) % Prime
    [] op = "mul"         -> (x * y) % Prime
    [] op = "dropout"     -> (Mask * x) % Prime
    [] op = "dropout_add" -> (x + Mask * y) % Prime
    [] OTHER              -> x

\* The node gd_autograd_record is asked for.  Its outputs and what it saves
\* are new tensors.
NodeOf(op, x, y) ==
  LET new == Len(tensors) IN
  [op    |-> op,
   in    |-> IF Binary(op) THEN <<x, y>> ELSE <<x>>,
   out   |-> [i \in 1 .. Outputs(op) |-> new + i],
   saved |-> IF Saves(op) THEN <<new + 2>> ELSE <<>>]

\* gd_autograd_record: whether it records, and may.
Records(n) == recording /\ mode = "TRAIN" /\ \E i \in DOMAIN n.in : NeedsGrad(n.in[i])

\* Storage and value of every new tensor: a reshape is a view of its input.
Written(c, n, v) ==
  LET first == IF n.op = "reshape" THEN c ELSE Produce(c, v)
  IN  IF n.op = "split" THEN Produce(first, v)
      ELSE IF n.saved # <<>> THEN Produce(first, Mask) ELSE first

NewTensors(c, n, v) ==
  LET first  == IF n.op = "reshape" THEN Span(n.in[1]) ELSE Fresh(c)
      second == Fresh(Produce(c, v))
      dims   == UNION {Dims(n.in[i]) : i \in DOMAIN n.in}
      Out(s) == [span |-> s, rg |-> Records(n), dims |-> dims, val |-> v, given |-> TRUE]
      saved  == [span |-> second, rg |-> FALSE, dims |-> dims, val |-> Mask, given |-> FALSE]
  IN  IF n.op = "split" THEN <<Out(first), Out(second)>>
      ELSE IF n.saved # <<>> THEN <<Out(first), saved>>
      ELSE <<Out(first)>>

\* Bound: the forward pass of the model has room in the tape and the arena.
Room(n) == Len(tape) < MaxNodes /\ Len(tensors) + Len(n.out) + Len(n.saved) <= MaxTensors

Forward(op, x, y) ==
  LET n == NodeOf(op, x, y)
      v == Compute(op, core.mem[Span(x)], core.mem[Span(y)])
      c == Written(core, n, v)
  IN  /\ phase = "forward" /\ Room(n)
      /\ ~Binary(op) => x = y
      /\ op = "dropout_add" => Dims(x) = Dims(y)
      /\ Ok(c)
      /\ core' = c
      /\ tensors' = tensors \o NewTensors(core, n, v)
      /\ tape' = IF Records(n) THEN Append(tape, n) ELSE tape
      /\ UNCHANGED <<mode, userEnabled, recording, phase, walk, seeds, backwards>>

\* gd_set_grad_enabled.  Bound: called before the first node is recorded.
SetGradEnabled(enabled) ==
  /\ phase = "forward" /\ tape = <<>>
  /\ userEnabled' = enabled
  /\ recording' = (enabled /\ mode = "TRAIN")
  /\ UNCHANGED <<mode, tensors, tape, core, phase, walk, seeds, backwards>>

----------------------------------------------------------------------------
(* gd_backward, gd_backward_many, gd_backward_scaled, gd_backward_amp.     *)

\* gd_autograd_build_live_spans: what the tape refers to, and how often.
Occurrences == UNION {{<<i, p>> : p \in DOMAIN Refs(tape[i])} : i \in DOMAIN tape}
SpanAt(x) == Span(Refs(tape[x[1]])[x[2]])

LiveSpans ==
  [s \in {SpanAt(x) : x \in Occurrences} \cap Scratch |->
     Cardinality({x \in Occurrences : SpanAt(x) = s})]

\* gd_seed_output_grad: a given gradient is used as it is unless it is scaled.
Seed(c, t, g, scale) ==
  IF g # 0 /\ scale = 1 THEN Accumulate(c, t, Span(g))
  ELSE Accumulate(Produce(c, IF g = 0 THEN scale ELSE c.mem[Span(g)] * scale), t, Fresh(c))

SeedAll(c, sd) ==
  LET after[i \in 0 .. Len(sd.outputs)] ==
        IF i = 0 THEN c ELSE Seed(after[i - 1], sd.outputs[i], sd.grads[i], sd.scale)
  IN  after[Len(sd.outputs)]

\* gd_backward_many on sd: what it does before the loop.
Start(sd) ==
  LET c == SeedAll([core EXCEPT !.refs = LiveSpans], sd) IN
  /\ phase \in {"forward", "done"} /\ backwards < MaxBackward
  /\ backwards' = backwards + 1
  /\ seeds' = sd
  /\ core' = c
  /\ phase' = IF ~Ok(c) THEN "failed" ELSE IF tape = <<>> THEN "done" ELSE "backward"
  /\ walk' = Len(tape)
  /\ recording' = (recording /\ phase' # "backward")
  /\ UNCHANGED <<mode, userEnabled, tensors, tape>>

\* A given gradient has the shape of its output.
BackwardOne(t, g, scale) ==
  /\ g # 0 => Dims(g) = Dims(t)
  /\ Start([outputs |-> <<t>>, grads |-> <<g>>, scale |-> scale, recording |-> recording])

BackwardMany(t, u) ==
  /\ Dims(u) = Dims(1)
  /\ Start([outputs |-> <<t, u>>, grads |-> <<0, 1>>, scale |-> 1, recording |-> recording])

Finish(how) == phase' = how /\ recording' = seeds.recording

\* One node of the loop; after the first of the tape, backward returns.
BackwardVisit ==
  LET c == Visit(core, tape[walk]) IN
  /\ phase = "backward"
  /\ core' = c
  /\ walk' = walk - 1
  /\ IF ~Ok(c) THEN Finish("failed")
     ELSE IF walk = 1 THEN Finish("done")
     ELSE UNCHANGED <<phase, recording>>
  /\ UNCHANGED <<mode, userEnabled, tensors, tape, seeds, backwards>>

\* gd_zero_grad: the slots are forgotten, their storage is not given back.
ZeroGrad ==
  /\ phase # "backward" /\ core.grads # <<>>
  /\ core' = [core EXCEPT !.grads = <<>>, !.lost = @ \cup Range(core.grads)]
  /\ UNCHANGED <<mode, userEnabled, recording, tensors, tape, phase, walk, seeds, backwards>>

\* gd_end_step, and gd_begin_step with gd_autograd_on_begin on a scratch slot
\* that is reset.  What a slot holds after the reset is not read.
NextStep(m) ==
  /\ phase # "backward"
  /\ mode' = m
  /\ recording' = (userEnabled /\ m = "TRAIN")
  /\ tensors' = FreshTensors /\ tape' = <<>> /\ core' = FreshCore
  /\ phase' = "forward" /\ walk' = 0 /\ seeds' = NoSeeds /\ backwards' = 0
  /\ UNCHANGED userEnabled

\* The caller's choices: backward is called on tensors that have a gradient,
\* with no gradient or a tensor that has none itself; the second of two
\* outputs is given the first parameter.
Given == {t \in TensorId : tensors[t].given}
Differentiable == {t \in Given : NeedsGrad(t)}
GradOutput == {0} \cup (Given \ Differentiable)

Next ==
  \/ \E op \in Ops, x, y \in Given : Forward(op, x, y)
  \/ \E enabled \in BOOLEAN : SetGradEnabled(enabled)
  \/ \E t \in Differentiable, g \in GradOutput, scale \in Scales : BackwardOne(t, g, scale)
  \/ \E t, u \in Differentiable : t <= u /\ BackwardMany(t, u)
  \/ BackwardVisit
  \/ ZeroGrad
  \/ \E m \in {"TRAIN", "EVAL"} : NextStep(m)

Spec == Init /\ [][Next]_vars

----------------------------------------------------------------------------
(* Properties.                                                             *)

\* Derivative of the outputs of node n by its input at position p.
Derivative(ts, n, p) ==
  CASE n.op = "mul"                      -> ts[n.in[3 - p]].val * Times(ts, n, p)
    [] n.op = "add"                      -> Times(ts, n, p)
    [] n.op = "dropout"                  -> Mask
    [] n.op = "dropout_add" /\ p = 2     -> Mask
    [] OTHER                             -> 1

\* Where nodes have t as an input: a node and a position.
Uses(nodes, t) ==
  {kp \in (1 .. Len(nodes)) \X {1, 2} :
     kp[2] <= Len(nodes[kp[1]].in) /\ nodes[kp[1]].in[kp[2]] = t}

SeedOf(ts, sd, i) == sd.scale * (IF sd.grads[i] = 0 THEN 1 ELSE ts[sd.grads[i]].val)

\* The chain rule, over the values and nodes of the forward pass: what a
\* tensor was called with, and what comes back through each use of it.
ChainRule(ts, nodes, sd) ==
  LET a[t \in 1 .. Len(ts)] ==
        SumFunction([i \in {j \in DOMAIN sd.outputs : sd.outputs[j] = t} |-> SeedOf(ts, sd, i)])
        + SumFunction([kp \in Uses(nodes, t) |->
                         Derivative(ts, nodes[kp[1]], kp[2])
                           * SumFunctionOnSet(a, ToSet(nodes[kp[1]].out))])
  IN  a

Adjoint == ChainRule(tensors, tape, seeds)

\* After a backward pass that succeeded, the gradient of every parameter is
\* the one of the chain rule, whatever was stolen, adopted, copied or given
\* back and overwritten on the way, and a parameter without one has none.
GradientsRight ==
  phase = "done" /\ core.lost = {} =>
    \A t \in 1 .. Len(Leaves) :
      IF HasGrad(core, t) THEN core.mem[core.grads[t]] = Adjoint[t] % Prime
      ELSE NeedsGrad(t) => Adjoint[t] = 0

\* Every gradient slot has storage to itself: allocated, of no other slot,
\* and of no forward tensor the rest of the walk reads.  So nothing is given
\* back twice, and backward fails only for room.
SlotsOwnStorage ==
  /\ core.status # "BAD_STATE"
  /\ \A t \in DOMAIN core.grads :
       /\ core.grads[t] \in core.held
       /\ \A u \in DOMAIN core.grads : core.grads[u] = core.grads[t] => u = t
       /\ phase = "backward" => ~LiveStorageActive(core, core.grads[t])

\* The nodes that wait for their turn find the forward tensors they recorded
\* as they were recorded.
ForwardReadable ==
  phase = "backward" =>
    \A i \in 1 .. walk : \A t \in ToSet(Refs(tape[i])) :
      /\ Span(t) \in Scratch => Span(t) \in core.held
      /\ core.mem[Span(t)] = tensors[t].val

OffTape(t) == \A i \in DOMAIN tape : t \notin ToSet(Refs(tape[i]))

\* After a backward pass that succeeded, all that is left of it are the
\* gradients of tensors no node computed, the outputs it was called with, and
\* one product of full size at most for each operand of a mul that was repeated
\* and whose sum was not fused: those gd_mul_backward keeps until the step ends.
NothingLeft ==
  phase = "done" =>
    /\ \A t \in DOMAIN core.grads : \A i \in DOMAIN tape : t \notin ToSet(tape[i].out)
    /\ core.held \subseteq core.lost \cup Range(core.grads)
                     \cup {Span(t) : t \in ToSet(seeds.outputs)}
                     \cup {Span(t) : t \in {u \in TensorId : OffTape(u)}}
                     \cup Range(core.full)
    /\ DOMAIN core.full \subseteq UNION {Unreduced(tape[i]) : i \in DOMAIN tape}

\* autograd.h: "Parameter/leaf grads are retained until the next
\* gd_begin_step()".
LeafGradsRetained ==
  phase = "done" =>
    \A t \in (1 .. Len(Leaves)) \cap DOMAIN core.grads : core.grads[t] \in core.held
=============================================================================
