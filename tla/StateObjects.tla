---------------------------- MODULE StateObjects ----------------------------
(***************************************************************************)
(* State objects of a gd_context (src/src/core/memory.c): persistent       *)
(* storage that a step acquires by handle and the device goes on using     *)
(* after the step has ended.  Destroying or resetting an object waits for  *)
(* the fence of its last use, and is refused to one the open step touches. *)
(*                                                                         *)
(* All calls are the main thread's; the device is the other actor.  An     *)
(* object is known by its address, which malloc may give out again after   *)
(* free.  Spans of the state arena are numbered in the order it gives them *)
(* out and never come back.  Fences are those of module StepContext: here  *)
(* a fence is complete once the device is past it.                         *)
(***************************************************************************)
EXTENDS Integers, FiniteSets

CONSTANTS
  Addresses,      \* addresses of gd_state_object
  MaxTouched,     \* GD_MAX_TOUCHED_STATE
  MaxEpoch,       \* the last epoch before the counter wraps to 1
  Capacity,       \* spans the state arena has room for
  Sizes,          \* nbytes of an object
  MaxFence        \* bound: steps the model ends

ASSUME StateObjectsAssumption ==
  /\ {MaxTouched, Capacity, MaxFence} \subseteq Nat
  /\ MaxEpoch \in Nat \ {0}
  /\ Sizes \subseteq Nat \ {0}

VARIABLES
  inScope,        \* ctx->in_scope
  objects,        \* ctx->state_objects: address -> what is there
  touched,        \* ctx->touched_state: address -> what was acquired
  offset,         \* spans the state arena has given out
  fence,          \* the last fence recorded
  done,           \* the last command buffer the device has finished
  jobs            \* command buffer -> spans its kernels use

vars == <<inScope, objects, touched, offset, fence, done, jobs>>

Span   == 1 .. Capacity
Epoch  == 1 .. MaxEpoch
Object == [span : Span, nbytes : Sizes, epoch : Epoch, lastUse : 0 .. MaxFence]
Entry  == [span : Span, epoch : Epoch]

Live    == DOMAIN objects
Touched == DOMAIN touched

With(f, x, v) == [y \in DOMAIN f \cup {x} |-> IF y = x THEN v ELSE f[y]]
Without(f, x) == [y \in DOMAIN f \ {x} |-> f[y]]
Nothing == [a \in {} |-> a]

Init ==
  /\ inScope = FALSE /\ objects = Nothing /\ touched = Nothing
  /\ offset = 0 /\ fence = 0 /\ done = 0
  /\ jobs = [q \in 1 .. MaxFence |-> {}]

----------------------------------------------------------------------------
NextEpoch(e) == IF e = MaxEpoch THEN 1 ELSE e + 1

\* Mutant: a wait for the fence of the step before.
NearlyComplete(q) == q <= done + 1

\* No use yet, or gd_backend_wait_until has returned.  When the wait fails the
\* call changes nothing.
Complete(q) == q <= done

\* gd_state_object_create
Create(a, nbytes) ==
  /\ a \notin Live
  /\ offset < Capacity
  /\ offset' = offset + 1
  /\ objects' = With(objects, a, [span |-> offset + 1, nbytes |-> nbytes,
                                  epoch |-> 1, lastUse |-> 0])
  /\ UNCHANGED <<inScope, touched, fence, done, jobs>>

\* Mutant: an object of the open step passes.
FreeToChangeInScope(a) == a \in Live /\ Complete(objects[a].lastUse)

\* What destroy and reset ask before they change anything.
FreeToChange(a) ==
  /\ a \in Live
  /\ ~(inScope /\ a \in Touched)
  /\ Complete(objects[a].lastUse)

\* gd_state_object_destroy: the span is not given back.
Destroy(a) ==
  /\ FreeToChange(a)
  /\ objects' = Without(objects, a)
  /\ UNCHANGED <<inScope, touched, offset, fence, done, jobs>>

\* gd_state_object_reset: a larger object moves to a fresh span.  When the
\* arena is full it changes nothing.
Reset(a, nbytes) ==
  LET fresh == nbytes > objects[a].nbytes
  IN  /\ FreeToChange(a)
      /\ fresh => offset < Capacity
      /\ offset' = IF fresh THEN offset + 1 ELSE offset
      /\ objects' = [objects EXCEPT ![a] =
                       [span    |-> IF fresh THEN offset + 1 ELSE objects[a].span,
                        nbytes  |-> IF fresh THEN nbytes ELSE objects[a].nbytes,
                        epoch   |-> NextEpoch(objects[a].epoch),
                        lastUse |-> 0]]
      /\ UNCHANGED <<inScope, touched, fence, done, jobs>>

\* gd_begin_step
BeginStep ==
  /\ ~inScope /\ fence < MaxFence
  /\ inScope' = TRUE
  /\ touched' = Nothing
  /\ UNCHANGED <<objects, offset, fence, done, jobs>>

\* gd_state_object_acquire_span, and kernels on the span: an object acquired
\* again is found in the table.
Acquire(a) ==
  /\ inScope /\ a \in Live
  /\ a \notin Touched => Cardinality(Touched) < MaxTouched
  /\ touched' = IF a \in Touched THEN touched
                ELSE With(touched, a, [span |-> objects[a].span, epoch |-> objects[a].epoch])
  /\ jobs' = [jobs EXCEPT ![fence + 1] = @ \cup {touched'[a].span}]
  /\ UNCHANGED <<inScope, objects, offset, fence, done>>

\* What gd_end_step asks of the objects the step touched.
Unchanged == \A a \in Touched : a \in Live /\ objects[a].epoch = touched[a].epoch

\* Mutant: the last use is that of the step before.
UsedLate(a, q) == [objects[a] EXCEPT !.lastUse = q - 1]
Used(a, q) == [objects[a] EXCEPT !.lastUse = q]

\* gd_end_step.  When the backend does not record the fence it changes nothing.
EndStep ==
  /\ inScope /\ Unchanged
  /\ fence' = fence + 1
  /\ objects' = [a \in Live |-> IF a \in Touched THEN Used(a, fence + 1) ELSE objects[a]]
  /\ touched' = Nothing
  /\ inScope' = FALSE
  /\ UNCHANGED <<offset, done, jobs>>

\* The device finishes the next command buffer.
DeviceFinish ==
  /\ done < fence
  /\ done' = done + 1
  /\ UNCHANGED <<inScope, objects, touched, offset, fence, jobs>>

Next ==
  \/ \E a \in Addresses, n \in Sizes : Create(a, n) \/ Reset(a, n)
  \/ \E a \in Addresses : Destroy(a) \/ Acquire(a)
  \/ BeginStep
  \/ EndStep
  \/ DeviceFinish

Spec == Init /\ [][Next]_vars

----------------------------------------------------------------------------
(* Properties.                                                             *)

\* Types; the table of touched objects within its size.
TypeOK ==
  /\ inScope \in BOOLEAN
  /\ Live \subseteq Addresses /\ \A a \in Live : objects[a] \in Object
  /\ Touched \subseteq Addresses /\ \A a \in Touched : touched[a] \in Entry
  /\ Cardinality(Touched) <= MaxTouched
  /\ offset \in 0 .. Capacity /\ fence \in 0 .. MaxFence /\ done \in 0 .. fence
  /\ jobs \in [1 .. MaxFence -> SUBSET Span]

\* While the device uses a span, or the open step will have it use it, the
\* span belongs to an object, and to one only, that knows of that use: destroy
\* and reset cannot have taken it away.
DeviceOwnsSpans ==
  \A q \in 1 .. MaxFence : \A s \in jobs[q] :
    q > done => \E a \in Live :
      /\ objects[a].span = s
      /\ \A b \in Live : objects[b].span = s => b = a
      /\ IF q <= fence THEN objects[a].lastUse >= q
         ELSE inScope /\ a \in Touched /\ touched[a].span = s

\* gd_end_step never finds a touched object changed: what would change one is
\* refused while the step is open, whatever address malloc gives out again.
EndStepAccepted == Unchanged
=============================================================================
