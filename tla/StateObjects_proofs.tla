------------------------ MODULE StateObjects_proofs -------------------------
(***************************************************************************)
(* Theorems about StateObjects, for every number of objects, every size of *)
(* the table of touched objects and of the arena, and every wrap of the    *)
(* epoch.                                                                  *)
(***************************************************************************)
EXTENDS StateObjects, FiniteSetTheorems, TLAPS

Typed ==
  /\ inScope \in BOOLEAN
  /\ Live \subseteq Addresses /\ objects \in [Live -> Object]
  /\ Touched \subseteq Addresses /\ touched \in [Touched -> Entry]
  /\ IsFiniteSet(Touched) /\ Cardinality(Touched) <= MaxTouched
  /\ offset \in 0 .. Capacity /\ fence \in 0 .. MaxFence /\ done \in 0 .. fence
  /\ inScope => fence < MaxFence
  /\ jobs \in [1 .. MaxFence -> SUBSET Span]

\* What was acquired belongs to the open step and has not changed since.
TouchedCurrent ==
  \A a \in Touched :
    inScope /\ a \in Live /\ objects[a].span = touched[a].span /\ objects[a].epoch = touched[a].epoch

\* The arena has given out every span once.
SpansDistinct ==
  /\ \A a \in Live : objects[a].span <= offset
  /\ \A a, b \in Live : objects[a].span = objects[b].span => a = b

\* The open step uses what it touched, and no later one has begun.
OpenJobs ==
  \A q \in 1 .. MaxFence, s \in Span : q > fence /\ s \in jobs[q] =>
    q = fence + 1 /\ inScope /\ \E a \in Touched : touched[a].span = s

\* A span in use by the device belongs to an object that knows its last fence.
JobsOwned ==
  \A q \in 1 .. MaxFence, s \in Span : q > done /\ q <= fence /\ s \in jobs[q] =>
    \E a \in Live : objects[a].span = s /\ objects[a].lastUse >= q

IInv == Typed /\ TouchedCurrent /\ SpansDistinct /\ OpenJobs /\ JobsOwned

\* A new context has no objects.
LEMMA InitInv == Init => IInv
<1> SUFFICES ASSUME Init PROVE IInv
  OBVIOUS
<1>1. Live = {} /\ Touched = {} BY DEF Init, Live, Touched, Nothing
<1>2. IsFiniteSet({}) /\ Cardinality({}) = 0 BY FS_EmptySet
<1>3. Typed
  <2>1. objects = [a \in {} |-> a] /\ touched = [a \in {} |-> a] BY DEF Init, Nothing
  <2>2. MaxTouched \in Nat /\ Capacity \in Nat /\ MaxFence \in Nat BY StateObjectsAssumption
  <2>3. objects \in [Live -> Object] /\ touched \in [Touched -> Entry] BY <1>1, <2>1
  <2>4. IsFiniteSet(Touched) /\ Cardinality(Touched) <= MaxTouched BY <1>1, <1>2, <2>2
  <2>5. jobs \in [1 .. MaxFence -> SUBSET Span] BY DEF Init
  <2>6. Live \subseteq Addresses /\ Touched \subseteq Addresses BY <1>1
  <2>7. /\ inScope = FALSE /\ offset \in 0 .. Capacity /\ fence \in 0 .. MaxFence /\ done \in 0 .. fence
    BY <2>2 DEF Init
  <2> QED BY <2>3, <2>4, <2>5, <2>6, <2>7 DEF Typed
<1>4. TouchedCurrent /\ SpansDistinct BY <1>1 DEF TouchedCurrent, SpansDistinct
<1>5. OpenJobs /\ JobsOwned BY DEF Init, OpenJobs, JobsOwned
<1> QED BY <1>3, <1>4, <1>5 DEF IInv

\* A new object has a span behind all others.
LEMMA CreateInv ==
  ASSUME IInv, NEW a \in Addresses, NEW n \in Sizes, Create(a, n)
  PROVE  IInv'
<1> USE DEF IInv
<1> DEFINE new == [span |-> offset + 1, nbytes |-> n, epoch |-> 1, lastUse |-> 0]
<1>1. /\ a \notin Live /\ offset < Capacity /\ offset' = offset + 1
      /\ objects' = [b \in Live \cup {a} |-> IF b = a THEN new ELSE objects[b]]
      /\ UNCHANGED <<inScope, touched, fence, done, jobs>>
  BY DEF Create, With, Live
<1>2. Live' = Live \cup {a} /\ Touched' = Touched BY <1>1 DEF Live, Touched
<1>3. new \in Object
  BY <1>1, StateObjectsAssumption DEF Typed, Object, Span, Epoch
<1>4. objects'[a] = new /\ \A b \in Live : objects'[b] = objects[b] BY <1>1
<1>5. new.span = offset + 1 OBVIOUS
<1> HIDE DEF new
<1>6. Typed' BY <1>1, <1>2, <1>3, StateObjectsAssumption DEF Typed
<1>7. TouchedCurrent' BY <1>1, <1>2, <1>4 DEF TouchedCurrent
<1>8. SpansDistinct' BY <1>1, <1>2, <1>4, <1>5 DEF SpansDistinct, Typed, Object, Span
<1>9. OpenJobs' BY <1>1, <1>2 DEF OpenJobs
<1>10. JobsOwned' BY <1>1, <1>2, <1>4 DEF JobsOwned
<1> QED BY <1>6, <1>7, <1>8, <1>9, <1>10

\* Destroy takes the span of no unfinished job: the device is past its last use.
LEMMA DestroyInv ==
  ASSUME IInv, NEW a \in Addresses, Destroy(a)
  PROVE  IInv'
<1> USE DEF IInv
<1>1. /\ a \in Live /\ ~(inScope /\ a \in Touched) /\ objects[a].lastUse <= done
      /\ objects' = [b \in Live \ {a} |-> objects[b]]
      /\ UNCHANGED <<inScope, touched, offset, fence, done, jobs>>
  BY DEF Destroy, FreeToChange, Complete, Without, Live
<1>u. UNCHANGED <<fence, done, jobs>> BY <1>1
<1>2. Live' = Live \ {a} /\ Touched' = Touched BY <1>1 DEF Live, Touched
<1>3. \A b \in Live' : objects'[b] = objects[b] BY <1>1, <1>2
<1>4. Typed' BY <1>1, <1>2 DEF Typed
<1>5. TouchedCurrent' BY <1>1, <1>2, <1>3 DEF TouchedCurrent
<1>6. SpansDistinct' BY <1>1, <1>2, <1>3 DEF SpansDistinct
<1>7. OpenJobs' BY <1>1, <1>2 DEF OpenJobs
<1>8. JobsOwned'
  <2> SUFFICES ASSUME NEW q \in 1 .. MaxFence, NEW s \in Span, q > done, q <= fence, s \in jobs[q]
               PROVE  \E b \in Live' : objects'[b].span = s /\ objects'[b].lastUse >= q
    BY <1>u DEF JobsOwned
  <2>1. PICK b \in Live : objects[b].span = s /\ objects[b].lastUse >= q BY DEF JobsOwned
  <2>2. b # a BY <1>1, <2>1 DEF Typed, Object
  <2> QED BY <1>2, <1>3, <2>1, <2>2
<1> QED BY <1>4, <1>5, <1>6, <1>7, <1>8

\* Reset keeps the span or takes one behind all others, and either way the
\* device is past the last use.
LEMMA ResetInv ==
  ASSUME IInv, NEW a \in Addresses, NEW n \in Sizes, Reset(a, n)
  PROVE  IInv'
<1> USE DEF IInv
<1> DEFINE fresh == n > objects[a].nbytes
           new == [span |-> IF fresh THEN offset + 1 ELSE objects[a].span,
                   nbytes |-> IF fresh THEN n ELSE objects[a].nbytes,
                   epoch |-> NextEpoch(objects[a].epoch), lastUse |-> 0]
<1>0. a \in Live /\ ~(inScope /\ a \in Touched) /\ objects[a].lastUse <= done
  BY DEF Reset, FreeToChange, Complete
<1>a. objects[a] \in Object /\ DOMAIN objects = Live BY <1>0 DEF Typed
<1>1. /\ fresh => offset < Capacity
      /\ offset' = IF fresh THEN offset + 1 ELSE offset
      /\ UNCHANGED <<inScope, touched, fence, done, jobs>>
  BY DEF Reset
<1>2. objects' = [objects EXCEPT ![a] = new] BY DEF Reset
<1>3. Live' = Live /\ Touched' = Touched BY <1>1, <1>2, <1>a DEF Live, Touched
<1>4. new \in Object
  BY <1>1, <1>a, StateObjectsAssumption DEF Typed, Object, Span, Epoch, NextEpoch
<1>5. new.span = IF fresh THEN offset + 1 ELSE objects[a].span OBVIOUS
<1>6. objects'[a] = new /\ \A b \in Live \ {a} : objects'[b] = objects[b] BY <1>0, <1>2, <1>a
<1>7. offset' \in 0 .. Capacity BY <1>1, StateObjectsAssumption DEF Typed
<1>f. fresh \in BOOLEAN OBVIOUS
<1> HIDE DEF new, fresh
<1>8. Typed' BY <1>0, <1>1, <1>2, <1>3, <1>4, <1>7, <1>a DEF Typed
<1>9. TouchedCurrent' BY <1>0, <1>1, <1>3, <1>6 DEF TouchedCurrent
<1>10. SpansDistinct'
  <2>1. \A b \in Live : objects[b].span \in Nat /\ objects[b].span <= offset
    BY StateObjectsAssumption DEF SpansDistinct, Typed, Object, Span
  <2>2. CASE fresh
    BY <1>0, <1>1, <1>3, <1>5, <1>6, <2>1, <2>2 DEF SpansDistinct, Typed
  <2>3. CASE ~fresh
    BY <1>0, <1>1, <1>3, <1>5, <1>6, <2>1, <2>3 DEF SpansDistinct, Typed
  <2> QED BY <1>f, <2>2, <2>3
<1>11. OpenJobs' BY <1>1, <1>3 DEF OpenJobs
<1>12. JobsOwned'
  <2> SUFFICES ASSUME NEW q \in 1 .. MaxFence, NEW s \in Span, q > done, q <= fence, s \in jobs[q]
               PROVE  \E b \in Live' : objects'[b].span = s /\ objects'[b].lastUse >= q
    BY <1>1 DEF JobsOwned
  <2>1. PICK b \in Live : objects[b].span = s /\ objects[b].lastUse >= q BY DEF JobsOwned
  <2>2. b # a BY <1>0, <2>1 DEF Typed, Object
  <2> QED BY <1>3, <1>6, <2>1, <2>2
<1> QED BY <1>8, <1>9, <1>10, <1>11, <1>12

\* A step begins with nothing touched.
LEMMA BeginStepInv ==
  ASSUME IInv, BeginStep
  PROVE  IInv'
<1> USE DEF IInv
<1>1. /\ ~inScope /\ fence < MaxFence /\ inScope' = TRUE /\ touched' = [a \in {} |-> a]
      /\ UNCHANGED <<objects, offset, fence, done, jobs>>
  BY DEF BeginStep, Nothing
<1>2. Live' = Live /\ Touched' = {} BY <1>1 DEF Live, Touched
<1>3. IsFiniteSet({}) /\ Cardinality({}) = 0 BY FS_EmptySet
<1>4. Typed'
  <2>1. touched' \in [{} -> Entry] BY <1>1
  <2>2. MaxTouched \in Nat BY StateObjectsAssumption
  <2> QED BY <1>1, <1>2, <1>3, <2>1, <2>2 DEF Typed
<1>5. TouchedCurrent' /\ SpansDistinct' BY <1>1, <1>2 DEF TouchedCurrent, SpansDistinct
<1>6. OpenJobs' BY <1>1 DEF OpenJobs
<1>7. JobsOwned' BY <1>1, <1>2 DEF JobsOwned
<1> QED BY <1>4, <1>5, <1>6, <1>7

\* What is acquired is entered with the span and the epoch it has.
LEMMA AcquireInv ==
  ASSUME IInv, NEW a \in Addresses, Acquire(a)
  PROVE  IInv'
<1> USE DEF IInv
<1> DEFINE entry == [span |-> objects[a].span, epoch |-> objects[a].epoch]
<1>1. /\ inScope /\ a \in Live /\ (a \notin Touched => Cardinality(Touched) < MaxTouched)
      /\ touched' = IF a \in Touched THEN touched
                    ELSE [b \in Touched \cup {a} |-> IF b = a THEN entry ELSE touched[b]]
      /\ jobs' = [jobs EXCEPT ![fence + 1] = @ \cup {touched'[a].span}]
      /\ UNCHANGED <<inScope, objects, offset, fence, done>>
  BY DEF Acquire, With, Touched
<1>2. Live' = Live BY <1>1 DEF Live
<1>3. entry \in Entry /\ entry.span = objects[a].span /\ entry.epoch = objects[a].epoch
  BY <1>1 DEF Typed, Entry, Object
<1> HIDE DEF entry
<1>4. Touched' = Touched \cup {a}
  <2>1. CASE a \in Touched BY <1>1, <2>1 DEF Touched
  <2>2. CASE a \notin Touched BY <1>1, <2>2 DEF Touched
  <2> QED BY <2>1, <2>2
<1>5. \A b \in Touched : touched'[b] = touched[b]
  BY <1>1
<1>6. touched'[a].span = objects[a].span /\ touched'[a].epoch = objects[a].epoch
  <2>1. CASE a \in Touched BY <1>1, <2>1 DEF TouchedCurrent
  <2>2. CASE a \notin Touched BY <1>1, <1>3, <2>2
  <2> QED BY <2>1, <2>2
<1>7. touched' \in [Touched' -> Entry]
  <2>1. CASE a \in Touched
    <3>1. Touched' = Touched BY <1>4, <2>1
    <3> QED BY <1>1, <2>1, <3>1 DEF Typed
  <2>2. CASE a \notin Touched BY <1>1, <1>3, <1>4, <2>2 DEF Typed
  <2> QED BY <2>1, <2>2
<1>8. IsFiniteSet(Touched') /\ Cardinality(Touched') <= MaxTouched
  <2>1. /\ IsFiniteSet(Touched \cup {a})
        /\ Cardinality(Touched \cup {a}) = IF a \in Touched THEN Cardinality(Touched) ELSE Cardinality(Touched) + 1
    BY FS_AddElement DEF Typed
  <2>2. Cardinality(Touched) \in Nat /\ MaxTouched \in Nat
    BY FS_CardinalityType, StateObjectsAssumption DEF Typed
  <2> QED BY <1>1, <1>4, <2>1, <2>2 DEF Typed
<1>9. objects[a].span \in Span /\ fence + 1 \in 1 .. MaxFence
  BY <1>1, StateObjectsAssumption DEF Typed, Object
<1>10. jobs' = [jobs EXCEPT ![fence + 1] = @ \cup {objects[a].span}] BY <1>1, <1>6
<1>11. Typed' BY <1>1, <1>2, <1>4, <1>7, <1>8, <1>9, <1>10 DEF Typed
<1>12. TouchedCurrent' BY <1>1, <1>2, <1>4, <1>5, <1>6 DEF TouchedCurrent
<1>13. SpansDistinct' BY <1>1, <1>2 DEF SpansDistinct
<1>14. \A q \in 1 .. MaxFence : q # fence + 1 => jobs'[q] = jobs[q] BY <1>10 DEF Typed
<1>15. jobs'[fence + 1] = jobs[fence + 1] \cup {objects[a].span} BY <1>9, <1>10 DEF Typed
<1>16. OpenJobs'
  <2> SUFFICES ASSUME NEW q \in 1 .. MaxFence, NEW s \in Span, q > fence, s \in jobs'[q]
               PROVE  q = fence + 1 /\ inScope /\ \E b \in Touched' : touched'[b].span = s
    BY <1>1 DEF OpenJobs
  <2>1. CASE s \in jobs[q] BY <1>4, <1>5, <2>1 DEF OpenJobs
  <2>2. CASE s \notin jobs[q] BY <1>1, <1>4, <1>6, <1>14, <1>15, <2>2
  <2> QED BY <2>1, <2>2
<1>17. JobsOwned' BY <1>1, <1>2, <1>14 DEF JobsOwned, Typed
<1> QED BY <1>11, <1>12, <1>13, <1>16, <1>17

\* What the step used now belongs to objects that know its fence.
LEMMA EndStepInv ==
  ASSUME IInv, EndStep
  PROVE  IInv'
<1> USE DEF IInv
<1>1. /\ inScope /\ fence' = fence + 1 /\ inScope' = FALSE /\ touched' = [a \in {} |-> a]
      /\ objects' = [a \in Live |-> IF a \in Touched THEN [objects[a] EXCEPT !.lastUse = fence + 1] ELSE objects[a]]
      /\ UNCHANGED <<offset, done, jobs>>
  BY DEF EndStep, Used, Nothing
<1>2. Live' = Live /\ Touched' = {} BY <1>1 DEF Live, Touched
<1>3. \A a \in Live : objects[a] \in Object BY DEF Typed
<1>4. fence + 1 \in 0 .. MaxFence BY <1>1, StateObjectsAssumption DEF Typed
<1>5. \A a \in Live : /\ objects'[a] \in Object
                       /\ objects'[a].span = objects[a].span /\ objects'[a].epoch = objects[a].epoch
                       /\ objects'[a].lastUse = IF a \in Touched THEN fence + 1 ELSE objects[a].lastUse
  BY <1>1, <1>3, <1>4 DEF Object
<1>6. IsFiniteSet({}) /\ Cardinality({}) = 0 BY FS_EmptySet
<1>7. Typed'
  <2>1. touched' \in [{} -> Entry] BY <1>1
  <2>2. MaxTouched \in Nat BY StateObjectsAssumption
  <2>3. objects' \in [Live -> Object] BY <1>1, <1>5
  <2>4. done' \in 0 .. fence' BY <1>1, StateObjectsAssumption DEF Typed
  <2>5. IsFiniteSet(Touched') /\ Cardinality(Touched') <= MaxTouched BY <1>2, <1>6, <2>2
  <2>6. Live' \subseteq Addresses /\ Touched' \subseteq Addresses BY <1>2 DEF Typed
  <2>7. objects' \in [Live' -> Object] /\ touched' \in [Touched' -> Entry] BY <1>2, <2>1, <2>3
  <2>8. /\ inScope' = FALSE /\ offset' \in 0 .. Capacity /\ fence' \in 0 .. MaxFence
        /\ jobs' \in [1 .. MaxFence -> SUBSET Span]
    BY <1>1, <1>4 DEF Typed
  <2> QED BY <2>4, <2>5, <2>6, <2>7, <2>8 DEF Typed
<1>8. TouchedCurrent' BY <1>2 DEF TouchedCurrent
<1>9. SpansDistinct' BY <1>1, <1>2, <1>5 DEF SpansDistinct
<1>10. OpenJobs'
  <2> SUFFICES ASSUME NEW q \in 1 .. MaxFence, NEW s \in Span, q > fence + 1, s \in jobs[q] PROVE FALSE
    BY <1>1 DEF OpenJobs
  <2> QED BY StateObjectsAssumption DEF OpenJobs, Typed
<1>11. JobsOwned'
  <2> SUFFICES ASSUME NEW q \in 1 .. MaxFence, NEW s \in Span, q > done, q <= fence + 1, s \in jobs[q]
               PROVE  \E a \in Live' : objects'[a].span = s /\ objects'[a].lastUse >= q
    BY <1>1 DEF JobsOwned
  <2>1. CASE q <= fence
    <3>1. PICK a \in Live : objects[a].span = s /\ objects[a].lastUse >= q BY <2>1 DEF JobsOwned
    <3>2. objects'[a].lastUse >= q BY <1>3, <1>5, <2>1, <3>1, StateObjectsAssumption DEF Typed, Object
    <3> QED BY <1>2, <1>5, <3>1, <3>2
  <2>2. CASE q > fence
    <3>1. PICK a \in Touched : touched[a].span = s BY <2>2 DEF OpenJobs
    <3>2. a \in Live /\ objects[a].span = s BY <3>1 DEF TouchedCurrent
    <3> QED BY <1>2, <1>5, <3>1, <3>2, StateObjectsAssumption DEF Typed
  <2> QED BY <2>1, <2>2, StateObjectsAssumption DEF Typed
<1> QED BY <1>7, <1>8, <1>9, <1>10, <1>11

LEMMA DeviceFinishInv ==
  ASSUME IInv, DeviceFinish
  PROVE  IInv'
<1> USE DEF IInv
<1>1. done < fence /\ done' = done + 1 /\ UNCHANGED <<inScope, objects, touched, offset, fence, jobs>>
  BY DEF DeviceFinish
<1>2. Live' = Live /\ Touched' = Touched BY <1>1 DEF Live, Touched
<1>3. Typed' BY <1>1, <1>2, StateObjectsAssumption DEF Typed
<1>4. TouchedCurrent' /\ SpansDistinct' BY <1>1, <1>2 DEF TouchedCurrent, SpansDistinct
<1>5. OpenJobs' BY <1>1, <1>2 DEF OpenJobs
<1>6. JobsOwned' BY <1>1, <1>2, StateObjectsAssumption DEF JobsOwned, Typed
<1> QED BY <1>3, <1>4, <1>5, <1>6

\* The invariant is inductive.
THEOREM SpansInvariance == Spec => []IInv
<1>1. Init => IInv BY InitInv
<1>2. IInv /\ [Next]_vars => IInv'
  <2> SUFFICES ASSUME IInv, [Next]_vars PROVE IInv'
    OBVIOUS
  <2>1. CASE \E a \in Addresses, n \in Sizes : Create(a, n) \/ Reset(a, n)
    BY <2>1, CreateInv, ResetInv
  <2>2. CASE \E a \in Addresses : Destroy(a) \/ Acquire(a)
    BY <2>2, DestroyInv, AcquireInv
  <2>3. CASE BeginStep BY <2>3, BeginStepInv
  <2>4. CASE EndStep BY <2>4, EndStepInv
  <2>5. CASE DeviceFinish BY <2>5, DeviceFinishInv
  <2>6. CASE UNCHANGED vars
    <3>1. Live' = Live /\ Touched' = Touched BY <2>6 DEF vars, Live, Touched
    <3>2. Typed' BY <2>6, <3>1 DEF IInv, Typed, vars
    <3>3. TouchedCurrent' /\ SpansDistinct' BY <2>6, <3>1 DEF IInv, TouchedCurrent, SpansDistinct, vars
    <3>4. OpenJobs' BY <2>6, <3>1 DEF IInv, OpenJobs, vars
    <3>5. JobsOwned' BY <2>6, <3>1 DEF IInv, JobsOwned, vars
    <3> QED BY <3>2, <3>3, <3>4, <3>5 DEF IInv
  <2> QED BY <2>1, <2>2, <2>3, <2>4, <2>5, <2>6 DEF Next
<1> QED BY <1>1, <1>2, PTL DEF Spec

\* Types, and the table of touched objects within its size.
THEOREM StateTypes == Spec => []TypeOK
<1>1. IInv => TypeOK BY DEF IInv, Typed, TypeOK
<1> QED BY <1>1, SpansInvariance, PTL

\* A span the device uses, or will use for the open step, belongs to one
\* object, which knows of the use.
THEOREM DeviceOwns == Spec => []DeviceOwnsSpans
<1>1. IInv => DeviceOwnsSpans
  <2> SUFFICES ASSUME IInv, NEW q \in 1 .. MaxFence, NEW s \in jobs[q], q > done
               PROVE  \E a \in Live :
                        /\ objects[a].span = s
                        /\ \A b \in Live : objects[b].span = s => b = a
                        /\ IF q <= fence THEN objects[a].lastUse >= q
                           ELSE inScope /\ a \in Touched /\ touched[a].span = s
    BY DEF DeviceOwnsSpans
  <2>0. s \in Span BY DEF IInv, Typed
  <2>1. CASE q <= fence
    <3>1. PICK a \in Live : objects[a].span = s /\ objects[a].lastUse >= q
      BY <2>0, <2>1 DEF IInv, JobsOwned
    <3> QED BY <2>1, <3>1 DEF IInv, SpansDistinct
  <2>2. CASE ~(q <= fence)
    <3>1. q > fence BY <2>2, StateObjectsAssumption DEF IInv, Typed
    <3>2. inScope /\ \E a \in Touched : touched[a].span = s BY <2>0, <3>1 DEF IInv, OpenJobs
    <3>3. PICK a \in Touched : touched[a].span = s BY <3>2
    <3>4. a \in Live /\ objects[a].span = s BY <3>3 DEF IInv, TouchedCurrent
    <3> QED BY <2>2, <3>2, <3>3, <3>4 DEF IInv, SpansDistinct
  <2> QED BY <2>1, <2>2
<1> QED BY <1>1, SpansInvariance, PTL

\* gd_end_step never refuses a step for an object that has changed.
THEOREM StepsAccepted == Spec => []EndStepAccepted
<1>1. IInv => EndStepAccepted BY DEF IInv, TouchedCurrent, EndStepAccepted, Unchanged
<1> QED BY <1>1, SpansInvariance, PTL
=============================================================================
