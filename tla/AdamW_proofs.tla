---------------------------- MODULE AdamW_proofs ----------------------------
(***************************************************************************)
(* Theorems about AdamW, for every set of parameters, every range of the   *)
(* scale and growth interval, and every place a step may fail, as long as  *)
(* the caller does not switch loss scaling on or off: Toggle is FALSE.     *)
(***************************************************************************)
EXTENDS AdamW, TLAPS

ScalerState == [scale : Scale, tracker : Tracker, found : BOOLEAN, last : BOOLEAN]
KnownState  == [scale : Scale, tracker : Tracker, last : BOOLEAN, dirty : BOOLEAN]

\* In an open step the gradients not yet given to the optimizer carry the
\* scale of the step the scaler has begun.
GradsScaled ==
  inScope /\ phase = "compute" =>
    \A p \in Params : grads[p] # NoGrad =>
      IF enabled THEN begun /\ grads[p].scale = scaler.scale
      ELSE grads[p].scale = 0

\* No parameter has more updates than the optimizer made.
Bounded(c) == \A p \in Params : c.step[p] <= c.total

\* The side that the next update will start from is right.
CountsHeld ==
  /\ Bounded(made)
  /\ IF enabled THEN device = made ELSE host = made /\ ~ dirty
  /\ file # NoFile => Bounded(file.moments)

\* What the device has found is what there was to find.
BlameHeld == IF begun THEN scaler.found <=> blame ELSE ~ blame

\* The three parts of the invariant: the open step, the scaler, the counts.
GradInv ==
  /\ inScope \in BOOLEAN /\ phase \in {"compute", "stepped", "failed"}
  /\ grads \in [Params -> Grad \cup {NoGrad}]
  /\ GradsScaled

KnownCurrent ==
  known.dirty \/ (known.scale = scaler.scale /\ known.tracker = scaler.tracker /\ known.last = scaler.last)

ScalerInv ==
  /\ enabled \in BOOLEAN /\ begun \in BOOLEAN
  /\ scaler \in ScalerState /\ known \in KnownState
  /\ blame \in BOOLEAN /\ finished \in [skipped : BOOLEAN, blame : BOOLEAN]
  /\ BlameHeld /\ KnownCurrent /\ SkipJustified

CountInv ==
  /\ device \in Counts /\ host \in Counts /\ made \in Counts /\ dirty \in BOOLEAN
  /\ file \in [counts : Counts, moments : Counts] \cup {NoFile}
  /\ latest \in [Params -> Update \cup {NoUpdate}]
  /\ CountsHeld /\ UpdatesSound
  /\ Synced = made
  /\ file # NoFile => file.counts = file.moments

IInv == GradInv /\ ScalerInv /\ CountInv

----------------------------------------------------------------------------
(* The null records are no gradient, update or checkpoint.                 *)

LEMMA NoGradNotGrad == NoGrad \notin Grad
BY DEF NoGrad, Grad

LEMMA NoUpdateNotUpdate == NoUpdate \notin Update
BY DEF NoUpdate, Update

LEMMA NoFileNotFile == NoFile \notin [counts : Counts, moments : Counts]
BY DEF NoFile

\* One more update, if there is room for it.
LEMMA CountedType ==
  ASSUME NEW c \in Counts, Bounded(c), NEW S \in SUBSET Params, c.total < MaxUpdates
  PROVE  /\ Counted(c, S) \in Counts /\ Bounded(Counted(c, S))
         /\ \A p \in Params : Counted(c, S).step[p] = IF p \in S THEN c.step[p] + 1 ELSE c.step[p]
<1> DEFINE step == [p \in Params |-> IF p \in S THEN c.step[p] + 1 ELSE c.step[p]]
           total == IF S = {} THEN c.total ELSE c.total + 1
<1>0. MaxUpdates \in Nat BY AdamWAssumption
<1>1. c.step \in [Params -> 0 .. MaxUpdates] /\ c.total \in 0 .. MaxUpdates BY DEF Counts
<1>2. \A p \in Params : c.step[p] \in 0 .. c.total
  <2> TAKE p \in Params
  <2>1. c.step[p] \in 0 .. MaxUpdates BY <1>1
  <2>2. c.step[p] <= c.total BY DEF Bounded
  <2> QED BY <1>0, <1>1, <2>1, <2>2
<1>3. total \in 0 .. MaxUpdates BY <1>0, <1>1
<1>4. \A p \in Params : step[p] \in 0 .. total
  <2> TAKE p \in Params
  <2>1. c.step[p] \in 0 .. c.total BY <1>2
  <2>2. step[p] = IF p \in S THEN c.step[p] + 1 ELSE c.step[p] OBVIOUS
  <2>3. S # {} => total = c.total + 1 OBVIOUS
  <2>4. S = {} => total = c.total OBVIOUS
  <2> QED BY <1>1, <2>1, <2>2, <2>3, <2>4
<1>5. step \in [Params -> 0 .. MaxUpdates] BY <1>0, <1>3, <1>4
<1>6. Counted(c, S) = [step |-> step, total |-> total] BY DEF Counted
<1> HIDE DEF step, total
<1>7. Counted(c, S) \in Counts BY <1>3, <1>5, <1>6 DEF Counts
<1>9. Counted(c, S).step = step /\ Counted(c, S).total = total BY <1>6
<1>8. Bounded(Counted(c, S))
  <2> SUFFICES ASSUME NEW p \in Params PROVE step[p] <= total
    BY <1>9 DEF Bounded
  <2>1. step[p] \in 0 .. total BY <1>4
  <2>2. total \in Int BY <1>0, <1>3
  <2> QED BY <2>1, <2>2
<1> QED BY <1>7, <1>8, <1>9 DEF step

\* A step of the scaler that has begun: what was found is to blame.
LEMMA BegunFacts ==
  ASSUME ScalerInv
  PROVE  /\ Begun \in ScalerState /\ Begun.scale = scaler.scale
         /\ Begun.tracker = scaler.tracker /\ Begun.last = scaler.last
         /\ Begun.found <=> blame
         /\ KnownBegun \in KnownState /\ (begun => KnownBegun = known) /\ (~ begun => KnownBegun.dirty)
<1>1. scaler \in ScalerState /\ known \in KnownState BY DEF ScalerInv
<1>2. CASE begun BY <1>1, <1>2 DEF Begun, KnownBegun, ScalerInv, BlameHeld
<1>3. CASE ~ begun
  <2>1. Begun = [scale |-> scaler.scale, tracker |-> scaler.tracker, found |-> FALSE, last |-> scaler.last]
    BY <1>1, <1>3 DEF Begun, BeginKernel, ScalerState
  <2>2. KnownBegun = [scale |-> known.scale, tracker |-> known.tracker, last |-> known.last, dirty |-> TRUE]
    BY <1>1, <1>3 DEF KnownBegun, KnownState
  <2>3. ~ blame BY <1>3 DEF ScalerInv, BlameHeld
  <2> QED BY <1>1, <1>3, <2>1, <2>2, <2>3 DEF ScalerState, KnownState
<1> QED BY <1>2, <1>3

\* The end of the scaler's step stays in range and notes what was found.
LEMMA FinishType ==
  ASSUME NEW s \in ScalerState
  PROVE  FinishKernel(s) \in ScalerState
<1>0. MaxScale \in Nat /\ GrowthInterval \in Nat \ {0} BY AdamWAssumption
<1>1. /\ s.scale \in 0 .. MaxScale /\ s.tracker \in 0 .. GrowthInterval - 1
      /\ s.found \in BOOLEAN BY DEF ScalerState, Scale, Tracker
<1>2. CASE s.found
  <2>1. (IF s.scale > 0 THEN s.scale - 1 ELSE 0) \in Scale BY <1>0, <1>1 DEF Scale
  <2>2. 0 \in Tracker BY <1>0 DEF Tracker
  <2> QED BY <1>2, <2>1, <2>2 DEF FinishKernel, ScalerState
<1>3. CASE ~ s.found
  <2> DEFINE grows == s.tracker + 1 >= GrowthInterval
             scale == IF grows /\ s.scale < MaxScale THEN s.scale + 1 ELSE s.scale
             tracker == IF grows THEN 0 ELSE s.tracker + 1
  <2>1. scale \in Scale BY <1>0, <1>1 DEF Scale
  <2>2. tracker \in Tracker BY <1>0, <1>1 DEF Tracker
  <2>3. FinishKernel(s) = [scale |-> scale, tracker |-> tracker, found |-> FALSE, last |-> FALSE]
    BY <1>3 DEF FinishKernel
  <2> QED BY <2>1, <2>2, <2>3 DEF ScalerState
<1> QED BY <1>1, <1>2, <1>3
----------------------------------------------------------------------------
(* A part whose variables a step leaves alone.                             *)

LEMMA ScalerFrame ==
  ASSUME ScalerInv, UNCHANGED <<scalerVars, endVars>>
  PROVE  ScalerInv'
BY DEF ScalerInv, BlameHeld, KnownCurrent, SkipJustified, scalerVars, endVars

LEMMA CountFrame ==
  ASSUME CountInv, UNCHANGED <<enabled, countVars, file>>
  PROVE  CountInv'
BY DEF CountInv, CountsHeld, Bounded, UpdatesSound, Synced, countVars

LEMMA GradFrame ==
  ASSUME GradInv, UNCHANGED <<inScope, phase, grads, scalerVars>>
  PROVE  GradInv'
BY DEF GradInv, GradsScaled, scalerVars

\* The gradients do not matter when the step is closed, or has been given to
\* the optimizer.
LEMMA GradClosed ==
  ASSUME GradInv, inScope' \in BOOLEAN, phase' \in {"compute", "stepped", "failed"},
         grads' \in [Params -> Grad \cup {NoGrad}], ~ inScope' \/ phase' # "compute"
  PROVE  GradInv'
BY DEF GradInv, GradsScaled

LEMMA GradNone ==
  ASSUME inScope' \in BOOLEAN, phase' \in {"compute", "stepped", "failed"},
         grads' = [p \in Params |-> NoGrad]
  PROVE  GradInv'
BY DEF GradInv, GradsScaled

LEMMA InitInv == Init => IInv
<1> SUFFICES ASSUME Init PROVE IInv
  OBVIOUS
<1>0. /\ MaxScale \in Nat /\ InitScale \in 0 .. MaxScale /\ GrowthInterval \in Nat \ {0}
      /\ MaxUpdates \in Nat
  BY AdamWAssumption
<1>1. GradInv BY DEF Init, GradInv, GradsScaled
<1>2. ScalerInv
  <2>1. InitScale \in Scale /\ 0 \in Tracker BY <1>0 DEF Scale, Tracker
  <2>2. scaler = [scale |-> InitScale, tracker |-> 0, found |-> FALSE, last |-> FALSE]
    BY DEF Init, Written
  <2>3. known = [scale |-> InitScale, tracker |-> 0, last |-> FALSE, dirty |-> FALSE] BY DEF Init
  <2>4. finished = [skipped |-> FALSE, blame |-> FALSE] /\ blame = FALSE /\ begun = FALSE /\ enabled \in BOOLEAN
    BY DEF Init
  <2> QED BY <2>1, <2>2, <2>3, <2>4 DEF ScalerInv, ScalerState, KnownState, BlameHeld, KnownCurrent, SkipJustified
<1>3. CountInv
  <2>1. NoneMade \in Counts BY <1>0 DEF NoneMade, Counts
  <2>2. Bounded(NoneMade) BY DEF Bounded, NoneMade
  <2>3. device = NoneMade /\ host = NoneMade /\ made = NoneMade /\ dirty = FALSE /\ file = NoFile
    BY DEF Init
  <2>4. latest = [p \in Params |-> NoUpdate] BY DEF Init
  <2>5. CountsHeld BY <2>2, <2>3 DEF CountsHeld
  <2>6. UpdatesSound BY <2>4 DEF UpdatesSound
  <2> QED BY <2>1, <2>3, <2>4, <2>5, <2>6 DEF CountInv, Synced
<1> QED BY <1>1, <1>2, <1>3 DEF IInv

LEMMA BeginScopeInv == ASSUME IInv, BeginScope PROVE IInv'
<1>1. inScope' = TRUE /\ phase' = "compute" /\ grads' = [p \in Params |-> NoGrad]
      /\ UNCHANGED <<scalerVars, countVars, file, endVars>>
  BY DEF BeginScope
<1>2. GradInv' BY <1>1, GradNone
<1>3. ScalerInv' BY <1>1, ScalerFrame DEF IInv
<1>4. CountInv' BY <1>1, CountFrame DEF IInv, scalerVars
<1> QED BY <1>2, <1>3, <1>4 DEF IInv

LEMMA EndScopeInv == ASSUME IInv, EndScope PROVE IInv'
<1>1. inScope' = FALSE /\ UNCHANGED <<phase, grads, scalerVars, countVars, file, endVars>>
  BY DEF EndScope
<1>2. GradInv' BY <1>1, GradClosed DEF IInv, GradInv
<1>3. ScalerInv' BY <1>1, ScalerFrame DEF IInv
<1>4. CountInv' BY <1>1, CountFrame DEF IInv, scalerVars
<1> QED BY <1>2, <1>3, <1>4 DEF IInv

LEMMA ZeroGradInv == ASSUME IInv, ZeroGrad PROVE IInv'
<1>1. phase' = "compute" /\ grads' = [p \in Params |-> NoGrad]
      /\ UNCHANGED <<inScope, scalerVars, countVars, file, endVars>>
  BY DEF ZeroGrad
<1>2. GradInv' BY <1>1, GradNone DEF IInv, GradInv
<1>3. ScalerInv' BY <1>1, ScalerFrame DEF IInv
<1>4. CountInv' BY <1>1, CountFrame DEF IInv, scalerVars
<1> QED BY <1>2, <1>3, <1>4 DEF IInv

\* The gradients of one more backward pass carry the scale of those before.
LEMMA AccumulatedType ==
  ASSUME IInv, inScope, phase = "compute", NEW S \in SUBSET Params, NEW O \in SUBSET S,
         NEW scale \in Scale, enabled => scale = scaler.scale, ~ enabled => scale = 0
  PROVE  /\ Accumulated(S, O, scale) \in [Params -> Grad \cup {NoGrad}]
         /\ \A p \in Params : Accumulated(S, O, scale)[p] # NoGrad =>
              Accumulated(S, O, scale)[p].scale = scale
<1> DEFINE acc == Accumulated(S, O, scale)
<1>0. /\ grads \in [Params -> Grad \cup {NoGrad}]
      /\ \A p \in Params : grads[p] # NoGrad =>
           grads[p].scale = scale
  BY DEF IInv, GradInv, GradsScaled
<1>1. acc = [p \in Params |-> acc[p]] BY DEF Accumulated
<1>2. ASSUME NEW p \in Params
      PROVE  /\ acc[p] \in Grad \cup {NoGrad}
             /\ acc[p] # NoGrad => acc[p].scale = scale
  <2>1. CASE p \notin S
    <3>1. acc[p] = grads[p] BY <2>1 DEF Accumulated
    <3> HIDE DEF acc
    <3> QED BY <1>0, <3>1
  <2>2. CASE p \in S /\ grads[p] = NoGrad
    <3> DEFINE fin == p \notin O
    <3>1. acc[p] = [scale |-> scale, finite |-> fin] BY <2>2 DEF Accumulated
    <3>2. fin \in BOOLEAN OBVIOUS
    <3> HIDE DEF acc, fin
    <3>3. acc[p] \in Grad /\ acc[p].scale = scale /\ acc[p].finite = fin BY <3>1, <3>2 DEF Grad
    <3> QED BY <3>2, <3>3
  <2>3. CASE p \in S /\ grads[p] # NoGrad
    <3>1. grads[p] \in Grad /\ grads[p].scale = scale BY <1>0, <2>3
    <3> DEFINE fin == grads[p].finite /\ p \notin O
    <3>2. acc[p] = [scale |-> scale, finite |-> fin] BY <2>3, <3>1 DEF Accumulated
    <3>3. fin \in BOOLEAN BY <3>1 DEF Grad
    <3> HIDE DEF acc, fin
    <3>4. acc[p] \in Grad /\ acc[p].scale = scale /\ acc[p].finite = fin BY <3>2, <3>3 DEF Grad
    <3> QED BY <3>3, <3>4
  <2> QED BY <2>1, <2>2, <2>3
<1> HIDE DEF acc
<1>3. acc \in [Params -> Grad \cup {NoGrad}] BY <1>1, <1>2
<1> QED BY <1>2, <1>3 DEF acc

LEMMA BackwardPlainInv ==
  ASSUME IInv, NEW S \in SUBSET Params, NEW O \in SUBSET S, NEW ok \in BOOLEAN, BackwardPlain(S, O, ok)
  PROVE  IInv'
<1>0. 0 \in Scale BY AdamWAssumption DEF Scale
<1>1. inScope /\ phase = "compute" /\ ~ enabled /\ grads' = Accumulated(S, O, 0)
      /\ phase' \in {"compute", "failed"}
      /\ UNCHANGED <<inScope, scalerVars, countVars, file, endVars>>
  BY DEF BackwardPlain
<1>2. /\ grads' \in [Params -> Grad \cup {NoGrad}]
      /\ \A p \in Params : grads'[p] # NoGrad => grads'[p].scale = 0
  BY <1>0, <1>1, AccumulatedType
<1>3. GradInv' BY <1>1, <1>2 DEF IInv, GradInv, GradsScaled, scalerVars
<1>4. ScalerInv' BY <1>1, ScalerFrame DEF IInv
<1>5. CountInv' BY <1>1, CountFrame DEF IInv, scalerVars
<1> QED BY <1>3, <1>4, <1>5 DEF IInv

\* What begins, or goes on with, the scaler's step leaves it sound.
LEMMA BegunInv ==
  ASSUME ScalerInv, scaler' = Begun, known' = KnownBegun, begun' = TRUE,
         UNCHANGED <<enabled, endVars>>
  PROVE  ScalerInv'
<1>1. UNCHANGED <<blame, finished>> BY DEF endVars
<1>2. KnownCurrent'
  <2>1. CASE begun BY <2>1, BegunFacts DEF ScalerInv, KnownCurrent
  <2>2. CASE ~ begun BY <2>2, BegunFacts DEF KnownCurrent
  <2> QED BY <2>1, <2>2 DEF ScalerInv
<1>3. BlameHeld' BY <1>1, BegunFacts DEF BlameHeld
<1>4. SkipJustified' BY <1>1 DEF ScalerInv, SkipJustified
<1>5. scaler' \in ScalerState /\ known' \in KnownState BY BegunFacts
<1> QED BY <1>1, <1>2, <1>3, <1>4, <1>5 DEF ScalerInv

LEMMA BackwardAmpInv ==
  ASSUME IInv, NEW S \in SUBSET Params, NEW O \in SUBSET S, NEW ok \in BOOLEAN, BackwardAmp(S, O, ok)
  PROVE  IInv'
<1>1. /\ inScope /\ phase = "compute" /\ enabled
      /\ scaler' = Begun /\ known' = KnownBegun /\ begun' = TRUE
      /\ grads' = Accumulated(S, O, Begun.scale)
      /\ phase' \in {"compute", "failed"}
      /\ UNCHANGED <<inScope, enabled, countVars, file, endVars>>
  BY DEF BackwardAmp
<1>2. Begun.scale = scaler.scale /\ Begun.scale \in Scale
  BY BegunFacts DEF IInv, ScalerState
<1>3. /\ grads' \in [Params -> Grad \cup {NoGrad}]
      /\ \A p \in Params : grads'[p] # NoGrad => grads'[p].scale = Begun.scale
  BY <1>1, <1>2, AccumulatedType
<1>4. GradInv' BY <1>1, <1>3 DEF IInv, GradInv, GradsScaled
<1>5. ScalerInv' BY <1>1, BegunInv DEF IInv
<1>6. CountInv' BY <1>1, CountFrame DEF IInv
<1> QED BY <1>4, <1>5, <1>6 DEF IInv

----------------------------------------------------------------------------
(* What a step does to the gradients, and what its update leaves.          *)

\* Every gradient of an open step can be divided by the scale, and is then
\* not scaled.
LEMMA GradFacts ==
  ASSUME IInv, inScope, phase = "compute", NEW p \in Params, grads[p] # NoGrad
  PROVE  /\ grads[p] \in Grad
         /\ enabled => begun /\ grads[p].scale = scaler.scale
         /\ ~ enabled => grads[p].scale = 0
BY DEF IInv, GradInv, GradsScaled

\* Dividing in place leaves the scale of no gradient but the unscaled.
LEMMA DividedType ==
  ASSUME IInv, inScope, phase = "compute", enabled, NEW clip \in BOOLEAN
  PROVE  Divided(clip, scaler.scale) \in [Params -> Grad \cup {NoGrad}]
<1>0. 0 \in Scale BY AdamWAssumption DEF Scale
<1>1. CASE clip BY <1>1 DEF Divided, IInv, GradInv
<1>2. CASE ~ clip
  <2> DEFINE d == [p \in Params |-> IF p \in WithGrad THEN [grads[p] EXCEPT !.scale = @ - scaler.scale]
                                    ELSE NoGrad]
  <2>1. ASSUME NEW p \in Params PROVE d[p] \in Grad \cup {NoGrad}
    <3>1. CASE grads[p] = NoGrad BY <3>1 DEF WithGrad
    <3>2. CASE grads[p] # NoGrad
      <4>1. grads[p] \in Grad /\ grads[p].scale = scaler.scale BY <3>2, GradFacts
      <4>2. scaler.scale \in Int BY <4>1, AdamWAssumption DEF Grad, Scale
      <4>3. d[p] = [scale |-> 0, finite |-> grads[p].finite]
        BY <3>2, <4>1, <4>2 DEF WithGrad, Grad
      <4> QED BY <1>0, <4>1, <4>3 DEF Grad
    <3> QED BY <3>1, <3>2
  <2>2. Divided(clip, scaler.scale) = d BY <1>2 DEF Divided
  <2>3. d \in [Params -> Grad \cup {NoGrad}] BY <2>1
  <2> QED BY <2>2, <2>3
<1> QED BY <1>1, <1>2

\* What UpdatesSound asks of the latest update of a parameter with n updates.
Sound(u, n) == (u.amp => u.finite) /\ u.scale = 0 /\ u.index = n

\* The update of S from counts that are the moments': each index is the new
\* number of updates, each gradient unscaled, and finite in a scaled step.
LEMMA AppliedSound ==
  ASSUME IInv, NEW S \in SUBSET Params, made.total < MaxUpdates, NEW scale \in Int,
         NEW amp \in BOOLEAN,
         \A p \in S : grads[p] \in Grad /\ grads[p].scale = scale /\ (amp => grads[p].finite)
  PROVE  LET l == Applied(S, made, scale, amp)
             m == Counted(made, S)
         IN  /\ m \in Counts /\ Bounded(m)
             /\ l \in [Params -> Update \cup {NoUpdate}]
             /\ \A p \in Params : l[p] # NoUpdate => Sound(l[p], m.step[p])
<1> DEFINE l == Applied(S, made, scale, amp)
           m == Counted(made, S)
<1>1. made \in Counts /\ Bounded(made) BY DEF IInv, CountInv, CountsHeld
<1>2. /\ m \in Counts /\ Bounded(m)
      /\ \A p \in Params : m.step[p] = IF p \in S THEN made.step[p] + 1 ELSE made.step[p]
  BY <1>1, CountedType
<1>3. latest \in [Params -> Update \cup {NoUpdate}] /\ UpdatesSound BY DEF IInv, CountInv
<1>4. l = [p \in Params |-> l[p]] BY DEF Applied
<1>5. ASSUME NEW p \in Params
      PROVE  /\ l[p] \in Update \cup {NoUpdate}
             /\ l[p] # NoUpdate => Sound(l[p], m.step[p])
  <2>1. CASE p \notin S
    <3>1. l[p] = latest[p] /\ m.step[p] = made.step[p] BY <1>2, <2>1 DEF Applied
    <3> HIDE DEF l, m
    <3> QED BY <1>3, <3>1 DEF UpdatesSound, Sound
  <2>2. CASE p \in S
    <3> DEFINE fin == grads[p].finite
    <3>1. l[p] = [index |-> made.step[p] + 1, scale |-> grads[p].scale - scale, finite |-> fin, amp |-> amp]
      BY <2>2 DEF Applied
    <3>2. grads[p].scale - scale = 0 /\ fin \in BOOLEAN /\ (amp => fin)
      BY <2>2 DEF Grad
    <3>3. m.step[p] = made.step[p] + 1 BY <1>2, <2>2
    <3>4. made.step[p] + 1 \in 1 .. MaxUpdates
      <4>1. made.step[p] \in 0 .. MaxUpdates /\ made.total \in 0 .. MaxUpdates BY <1>1 DEF Counts
      <4>2. made.step[p] <= made.total BY <1>1 DEF Bounded
      <4> QED BY <4>1, <4>2, AdamWAssumption
    <3> HIDE DEF l, m, fin
    <3>5. l[p] = [index |-> made.step[p] + 1, scale |-> 0, finite |-> fin, amp |-> amp] BY <3>1, <3>2
    <3>6. l[p] \in Update BY <3>2, <3>4, <3>5 DEF Update
    <3>7. Sound(l[p], m.step[p]) BY <3>2, <3>3, <3>5 DEF Sound
    <3> QED BY <3>6, <3>7
  <2> QED BY <2>1, <2>2
<1> HIDE DEF l, m
<1>6. l \in [Params -> Update \cup {NoUpdate}] BY <1>4, <1>5
<1>7. \A p \in Params : l[p] # NoUpdate => Sound(l[p], m.step[p])
  BY <1>5
<1> QED BY <1>2, <1>6, <1>7 DEF l, m

----------------------------------------------------------------------------
(* The steps of the optimizer.                                             *)

LEMMA StepPlainInv == ASSUME IInv, StepPlain PROVE IInv'
<1>1. /\ inScope /\ phase = "compute" /\ ~ enabled /\ made.total < MaxUpdates
      /\ host' = Counted(host, WithGrad) /\ made' = Counted(made, WithGrad)
      /\ latest' = Applied(WithGrad, host, 0, FALSE)
      /\ phase' = "stepped"
      /\ UNCHANGED <<inScope, grads, scalerVars, device, dirty, file, endVars>>
  BY DEF StepPlain
<1>2. GradInv' BY <1>1, GradClosed DEF IInv, GradInv
<1>3. ScalerInv' BY <1>1, ScalerFrame DEF IInv
<1>4. host = made /\ ~ dirty BY <1>1 DEF IInv, CountInv, CountsHeld
<1>5. \A p \in WithGrad : grads[p] \in Grad /\ grads[p].scale = 0 /\ (FALSE => grads[p].finite)
  BY <1>1, GradFacts DEF WithGrad
<1>6. WithGrad \in SUBSET Params BY DEF WithGrad
<1>7. /\ made' \in Counts /\ Bounded(made') /\ latest' \in [Params -> Update \cup {NoUpdate}]
      /\ \A p \in Params :
           latest'[p] # NoUpdate => Sound(latest'[p], made'.step[p])
  <2>1. latest' = Applied(WithGrad, made, 0, FALSE) /\ made' = Counted(made, WithGrad) BY <1>1, <1>4
  <2>2. FALSE \in BOOLEAN /\ 0 \in Int OBVIOUS
  <2>3. /\ Counted(made, WithGrad) \in Counts /\ Bounded(Counted(made, WithGrad))
        /\ Applied(WithGrad, made, 0, FALSE) \in [Params -> Update \cup {NoUpdate}]
        /\ \A p \in Params : Applied(WithGrad, made, 0, FALSE)[p] # NoUpdate =>
             Sound(Applied(WithGrad, made, 0, FALSE)[p], Counted(made, WithGrad).step[p])
    BY <1>1, <1>5, <1>6, <2>2, AppliedSound, Zenon
  <2> QED BY <2>1, <2>3
<1>8. UpdatesSound' BY <1>7 DEF UpdatesSound, Sound
<1>9. host' = made' BY <1>1, <1>4
<1>10. UNCHANGED <<device, dirty, file, enabled>> BY <1>1 DEF scalerVars
<1>11. CountsHeld' BY <1>1, <1>4, <1>7, <1>9, <1>10 DEF IInv, CountInv, CountsHeld, Bounded
<1>12. Synced' = made' BY <1>4, <1>9, <1>10 DEF Synced
<1>13. CountInv' BY <1>7, <1>8, <1>9, <1>10, <1>11, <1>12 DEF IInv, CountInv
<1> QED BY <1>2, <1>3, <1>13 DEF IInv

LEMMA StepAmpEmptyInv == ASSUME IInv, StepAmpEmpty PROVE IInv'
<1>1. /\ inScope /\ phase = "compute" /\ enabled
      /\ scaler' = Begun /\ known' = KnownBegun /\ begun' = FALSE /\ blame' = FALSE
      /\ phase' = "stepped"
      /\ UNCHANGED <<inScope, grads, enabled, countVars, file, finished>>
  BY DEF StepAmpEmpty
<1>2. GradInv' BY <1>1, GradClosed DEF IInv, GradInv
<1>3. ScalerInv'
  <2>1. KnownCurrent'
    <3>1. CASE begun BY <1>1, <3>1, BegunFacts DEF IInv, ScalerInv, KnownCurrent
    <3>2. CASE ~ begun BY <1>1, <3>2, BegunFacts DEF IInv, KnownCurrent
    <3> QED BY <3>1, <3>2 DEF IInv, ScalerInv
  <2>2. scaler' \in ScalerState /\ known' \in KnownState BY <1>1, BegunFacts DEF IInv
  <2>3. BlameHeld' BY <1>1 DEF BlameHeld
  <2>4. SkipJustified' BY <1>1 DEF IInv, ScalerInv, SkipJustified
  <2> QED BY <1>1, <2>1, <2>2, <2>3, <2>4 DEF IInv, ScalerInv
<1>4. CountInv' BY <1>1, CountFrame DEF IInv
<1> QED BY <1>2, <1>3, <1>4 DEF IInv

LEMMA StepAmpFailsBeforeInv == ASSUME IInv, StepAmpFailsBefore PROVE IInv'
<1>1. /\ scaler' = Begun /\ known' = KnownBegun /\ begun' = TRUE /\ phase' = "failed"
      /\ UNCHANGED <<inScope, grads, enabled, countVars, file, endVars>>
  BY DEF StepAmpFailsBefore
<1>2. GradInv' BY <1>1, GradClosed DEF IInv, GradInv
<1>3. ScalerInv' BY <1>1, BegunInv DEF IInv
<1>4. CountInv' BY <1>1, CountFrame DEF IInv
<1> QED BY <1>2, <1>3, <1>4 DEF IInv

\* The scaler's own part of a step that unscales: what is found is what there
\* is to blame, now or in a step before that failed.
LEMMA UnscaledFacts ==
  ASSUME ScalerInv
  PROVE  /\ Unscaled(Begun) \in ScalerState
         /\ Unscaled(Begun).scale = scaler.scale
         /\ Unscaled(Begun).tracker = scaler.tracker /\ Unscaled(Begun).last = scaler.last
         /\ Unscaled(Begun).found <=> (blame \/ Overflowed # {})
<1>1. /\ Begun \in ScalerState /\ Begun.scale = scaler.scale
      /\ Begun.tracker = scaler.tracker /\ Begun.last = scaler.last
      /\ Begun.found <=> blame
  BY BegunFacts
<1> DEFINE f == Begun.found \/ Overflowed # {}
<1>2. Unscaled(Begun) = [scale |-> Begun.scale, tracker |-> Begun.tracker, found |-> f, last |-> Begun.last]
  BY <1>1 DEF Unscaled, ScalerState
<1>3. f \in BOOLEAN /\ (f <=> (blame \/ Overflowed # {})) BY <1>1
<1> HIDE DEF f
<1>4. Unscaled(Begun) \in ScalerState BY <1>1, <1>2, <1>3 DEF ScalerState
<1> QED BY <1>1, <1>2, <1>3, <1>4

\* The host knows that its copy is stale.
LEMMA KnownDirty ==
  ASSUME ScalerInv, known' = [known EXCEPT !.dirty = TRUE]
  PROVE  known' \in KnownState /\ known'.dirty
<1>1. known \in KnownState BY DEF ScalerInv
<1>2. known' = [scale |-> known.scale, tracker |-> known.tracker, last |-> known.last, dirty |-> TRUE]
  BY <1>1 DEF KnownState
<1> QED BY <1>1, <1>2 DEF KnownState

\* The kernels update the parameters with a gradient, all of them finite, or
\* none.
LEMMA TakenFacts ==
  ASSUME IInv, inScope, phase = "compute", enabled, WithGrad # {}
  PROVE  LET S == Taken(Unscaled(Begun))
         IN  /\ S \in SUBSET Params
             /\ \A p \in S : grads[p] \in Grad /\ grads[p].scale = scaler.scale /\ grads[p].finite
<1>1. Unscaled(Begun).found <=> (blame \/ Overflowed # {}) BY UnscaledFacts DEF IInv
<1>2. Taken(Unscaled(Begun)) \subseteq WithGrad BY DEF Taken
<1>3. ASSUME NEW p \in Taken(Unscaled(Begun))
      PROVE  grads[p] \in Grad /\ grads[p].scale = scaler.scale /\ grads[p].finite
  <2>1. p \in WithGrad /\ Overflowed = {} BY <1>1, <1>3 DEF Taken
  <2>2. p \in Params /\ grads[p] # NoGrad BY <2>1 DEF WithGrad
  <2>3. grads[p] \in Grad /\ grads[p].scale = scaler.scale BY <2>2, GradFacts
  <2>4. grads[p].finite BY <2>1 DEF Overflowed
  <2> QED BY <2>3, <2>4
<1> QED BY <1>2, <1>3 DEF WithGrad

LEMMA StepAmpInv == ASSUME IInv, NEW clip \in BOOLEAN, StepAmp(clip) PROVE IInv'
<1> DEFINE u == Unscaled(Begun)
           S == Taken(u)
<1>1. /\ inScope /\ phase = "compute" /\ enabled /\ WithGrad # {} /\ made.total < MaxUpdates
      /\ grads' = Divided(clip, u.scale)
      /\ device' = Counted(device, S) /\ made' = Counted(made, S)
      /\ latest' = Applied(S, device, u.scale, TRUE)
      /\ dirty' = TRUE
      /\ scaler' = FinishKernel(u) /\ known' = [known EXCEPT !.dirty = TRUE] /\ begun' = FALSE
      /\ blame' = FALSE
      /\ finished' = [skipped |-> u.found, blame |-> blame \/ Overflowed # {}]
      /\ phase' = "stepped"
      /\ UNCHANGED <<inScope, enabled, host, file>>
  BY DEF StepAmp
<1>2. /\ u \in ScalerState /\ u.scale = scaler.scale
      /\ u.found <=> (blame \/ Overflowed # {})
  BY UnscaledFacts DEF IInv
<1>3. /\ S \in SUBSET Params
      /\ \A p \in S : grads[p] \in Grad /\ grads[p].scale = scaler.scale /\ grads[p].finite
  BY <1>1, TakenFacts
<1>4. scaler.scale \in Int BY <1>2, AdamWAssumption DEF ScalerState, Scale
<1>5. device = made BY <1>1 DEF IInv, CountInv, CountsHeld
<1> HIDE DEF u, S
<1>6. GradInv'
  <2>1. grads' \in [Params -> Grad \cup {NoGrad}] BY <1>1, <1>2, DividedType
  <2> QED BY <1>1, <2>1, GradClosed DEF IInv, GradInv
<1>7. ScalerInv'
  <2> DEFINE b == blame \/ Overflowed # {}
  <2>1. scaler' \in ScalerState BY <1>1, <1>2, FinishType
  <2>2. known' \in KnownState /\ known'.dirty BY <1>1, KnownDirty DEF IInv
  <2>3. finished' = [skipped |-> u.found, blame |-> b] BY <1>1
  <2>4. u.found \in BOOLEAN BY <1>2 DEF ScalerState
  <2>5. b \in BOOLEAN /\ (u.found <=> b) BY <1>2
  <2> HIDE DEF b
  <2>6. finished' \in [skipped : BOOLEAN, blame : BOOLEAN] BY <2>3, <2>4, <2>5
  <2>7. SkipJustified' BY <2>3, <2>5 DEF SkipJustified
  <2>8. BlameHeld' /\ KnownCurrent' BY <1>1, <2>2 DEF BlameHeld, KnownCurrent
  <2>9. enabled' \in BOOLEAN /\ begun' \in BOOLEAN /\ blame' \in BOOLEAN BY <1>1 DEF IInv, ScalerInv
  <2> QED BY <2>1, <2>2, <2>6, <2>7, <2>8, <2>9 DEF ScalerInv
<1>8. CountInv'
  <2>1. /\ made' \in Counts /\ Bounded(made') /\ latest' \in [Params -> Update \cup {NoUpdate}]
        /\ \A p \in Params :
             latest'[p] # NoUpdate => Sound(latest'[p], made'.step[p])
    <3>1. made' = Counted(made, S) /\ latest' = Applied(S, made, scaler.scale, TRUE) BY <1>1, <1>2, <1>5
    <3> QED BY <1>1, <1>3, <1>4, <3>1, AppliedSound
  <2>2. UpdatesSound' BY <2>1 DEF UpdatesSound, Sound
  <2>3. device' = made' BY <1>1, <1>5
  <2>4. UNCHANGED <<host, file, enabled>> /\ dirty' = TRUE BY <1>1
  <2>5. CountsHeld' BY <1>1, <2>1, <2>3, <2>4 DEF IInv, CountInv, CountsHeld, Bounded
  <2>6. Synced' = made' BY <2>3, <2>4 DEF Synced
  <2> QED BY <2>1, <2>2, <2>3, <2>4, <2>5, <2>6 DEF IInv, CountInv
<1> QED BY <1>6, <1>7, <1>8 DEF IInv

LEMMA StepAmpFailsAfterInv == ASSUME IInv, NEW clip \in BOOLEAN, StepAmpFailsAfter(clip) PROVE IInv'
<1>1. /\ inScope /\ phase = "compute" /\ enabled
      /\ scaler' = Unscaled(Begun) /\ known' = KnownBegun /\ begun' = TRUE
      /\ grads' = Divided(clip, Begun.scale)
      /\ blame' = (blame \/ Overflowed # {})
      /\ phase' = "failed"
      /\ UNCHANGED <<inScope, enabled, countVars, file, finished>>
  BY DEF StepAmpFailsAfter
<1>2. Begun.scale = scaler.scale BY BegunFacts DEF IInv
<1>3. GradInv'
  <2>1. grads' \in [Params -> Grad \cup {NoGrad}] BY <1>1, <1>2, DividedType
  <2> QED BY <1>1, <2>1, GradClosed DEF IInv, GradInv
<1>4. ScalerInv'
  <2>1. /\ scaler' \in ScalerState
        /\ scaler'.scale = scaler.scale /\ scaler'.tracker = scaler.tracker /\ scaler'.last = scaler.last
        /\ scaler'.found <=> blame'
    BY <1>1, UnscaledFacts DEF IInv
  <2>2. /\ known' \in KnownState /\ (begun => known' = known) /\ (~ begun => known'.dirty)
    BY <1>1, BegunFacts DEF IInv
  <2>3. KnownCurrent'
    <3>1. CASE begun BY <2>1, <2>2, <3>1 DEF IInv, ScalerInv, KnownCurrent
    <3>2. CASE ~ begun BY <2>2, <3>2 DEF KnownCurrent
    <3> QED BY <3>1, <3>2 DEF IInv, ScalerInv
  <2>4. BlameHeld' BY <1>1, <2>1 DEF BlameHeld
  <2>5. SkipJustified' BY <1>1 DEF IInv, ScalerInv, SkipJustified
  <2>6. enabled' \in BOOLEAN /\ begun' \in BOOLEAN /\ blame' \in BOOLEAN
        /\ finished' \in [skipped : BOOLEAN, blame : BOOLEAN]
    BY <1>1 DEF IInv, ScalerInv
  <2> QED BY <2>1, <2>2, <2>3, <2>4, <2>5, <2>6 DEF ScalerInv
<1>5. CountInv' BY <1>1, CountFrame DEF IInv
<1> QED BY <1>3, <1>4, <1>5 DEF IInv

----------------------------------------------------------------------------
(* Between steps.                                                          *)

LEMMA SyncScalerInv == ASSUME IInv, SyncScaler PROVE IInv'
<1>1. /\ ~ inScope
      /\ known' = [scale |-> scaler.scale, tracker |-> scaler.tracker, last |-> scaler.last, dirty |-> FALSE]
      /\ UNCHANGED <<inScope, phase, grads, enabled, begun, scaler, countVars, file, endVars>>
  BY DEF SyncScaler
<1>2. GradInv' BY <1>1, GradClosed DEF IInv, GradInv
<1>3. ScalerInv'
  <2>1. scaler \in ScalerState BY DEF IInv, ScalerInv
  <2>2. known' \in KnownState /\ KnownCurrent' BY <1>1, <2>1 DEF ScalerState, KnownState, KnownCurrent
  <2>3. UNCHANGED <<enabled, begun, scaler, blame, finished>> BY <1>1 DEF endVars
  <2>4. BlameHeld' /\ SkipJustified' BY <2>3 DEF IInv, ScalerInv, BlameHeld, SkipJustified
  <2> QED BY <2>2, <2>3, <2>4 DEF IInv, ScalerInv
<1>4. CountInv' BY <1>1, CountFrame DEF IInv
<1> QED BY <1>2, <1>3, <1>4 DEF IInv

\* Reading the device's counts where the host's are stale changes no count.
LEMMA SyncCounts ==
  ASSUME CountInv, host' = Synced, dirty' = FALSE,
         UNCHANGED <<enabled, device, made, latest>>,
         \/ UNCHANGED file
         \/ file' = [counts |-> Synced, moments |-> made]
  PROVE  CountInv'
<1>1. Synced = made /\ made \in Counts /\ Bounded(made) BY DEF CountInv, CountsHeld
<1>2. host' = made' BY <1>1
<1>3. /\ file' \in [counts : Counts, moments : Counts] \cup {NoFile}
      /\ file' # NoFile => file'.counts = file'.moments /\ Bounded(file'.moments)
  <2>1. CASE UNCHANGED file BY <2>1 DEF CountInv, CountsHeld
  <2>2. CASE file' = [counts |-> Synced, moments |-> made] BY <1>1, <2>2
  <2> QED BY <2>1, <2>2
<1>4. UpdatesSound' BY DEF CountInv, UpdatesSound
<1>5. CountsHeld' BY <1>1, <1>2, <1>3 DEF CountInv, CountsHeld, Bounded
<1>6. Synced' = made' BY <1>2 DEF Synced
<1> QED BY <1>1, <1>2, <1>3, <1>4, <1>5, <1>6 DEF CountInv

LEMMA SyncInv == ASSUME IInv, Sync PROVE IInv'
<1>1. /\ host' = Synced /\ dirty' = FALSE
      /\ UNCHANGED <<inScope, phase, grads, scalerVars, device, made, latest, file, endVars>>
  BY DEF Sync
<1>2. GradInv' BY <1>1, GradFrame DEF IInv
<1>3. ScalerInv' BY <1>1, ScalerFrame DEF IInv
<1>4. CountInv' BY <1>1, SyncCounts DEF IInv, scalerVars
<1> QED BY <1>2, <1>3, <1>4 DEF IInv

LEMMA SaveInv == ASSUME IInv, Save PROVE IInv'
<1>1. /\ host' = Synced /\ dirty' = FALSE
      /\ file' = [counts |-> Synced, moments |-> made]
      /\ UNCHANGED <<inScope, phase, grads, scalerVars, device, made, latest, endVars>>
  BY DEF Save
<1>2. GradInv' BY <1>1, GradFrame DEF IInv
<1>3. ScalerInv' BY <1>1, ScalerFrame DEF IInv
<1>4. CountInv' BY <1>1, SyncCounts DEF IInv, scalerVars
<1> QED BY <1>2, <1>3, <1>4 DEF IInv

LEMMA LoadInv == ASSUME IInv, Load PROVE IInv'
<1>1. /\ file # NoFile
      /\ host' = file.counts /\ device' = file.counts /\ dirty' = FALSE
      /\ made' = file.moments /\ latest' = [p \in Params |-> NoUpdate]
      /\ UNCHANGED <<inScope, phase, grads, scalerVars, file, endVars>>
  BY DEF Load, LoadedHost, LoadedDevice
<1>2. GradInv' BY <1>1, GradFrame DEF IInv
<1>3. ScalerInv' BY <1>1, ScalerFrame DEF IInv
<1>4. CountInv'
  <2>1. /\ file.counts \in Counts /\ file.moments = file.counts /\ Bounded(file.moments)
    BY <1>1 DEF IInv, CountInv, CountsHeld
  <2>2. UNCHANGED <<file, enabled>> BY <1>1 DEF scalerVars
  <2>3. CountsHeld' BY <1>1, <2>1, <2>2 DEF CountsHeld, Bounded
  <2>4. UpdatesSound' BY <1>1 DEF UpdatesSound
  <2>5. Synced' = made' BY <1>1, <2>1 DEF Synced
  <2>6. latest' \in [Params -> Update \cup {NoUpdate}] BY <1>1
  <2> QED BY <1>1, <2>1, <2>2, <2>3, <2>4, <2>5, <2>6 DEF IInv, CountInv
<1> QED BY <1>2, <1>3, <1>4 DEF IInv

LEMMA SetScalerInv ==
  ASSUME IInv, ~ Toggle, NEW s \in Scale, NEW t \in Tracker, NEW l \in BOOLEAN, NEW on \in BOOLEAN,
         SetScaler(s, t, l, on)
  PROVE  IInv'
<1>1. /\ ~ inScope /\ enabled' = enabled /\ begun' = FALSE
      /\ scaler' = [scale |-> s, tracker |-> t, found |-> FALSE, last |-> l]
      /\ known' = [scale |-> s, tracker |-> t, last |-> l, dirty |-> FALSE]
      /\ blame' = FALSE
      /\ UNCHANGED <<inScope, phase, grads, countVars, file, finished>>
  BY DEF SetScaler, Written
<1>2. GradInv' BY <1>1, GradClosed DEF IInv, GradInv
<1>3. ScalerInv'
  <2>1. scaler' \in ScalerState /\ known' \in KnownState BY <1>1 DEF ScalerState, KnownState
  <2>2. BlameHeld' /\ KnownCurrent' BY <1>1 DEF BlameHeld, KnownCurrent
  <2>3. SkipJustified' BY <1>1 DEF IInv, ScalerInv, SkipJustified
  <2> QED BY <1>1, <2>1, <2>2, <2>3 DEF IInv, ScalerInv
<1>4. CountInv' BY <1>1, CountFrame DEF IInv
<1> QED BY <1>2, <1>3, <1>4 DEF IInv

----------------------------------------------------------------------------
(* The invariant of every step, and the theorems.                          *)

LEMMA NextInv == ASSUME IInv, ~ Toggle, [Next]_vars PROVE IInv'
<1>1. CASE TrainStep
  BY <1>1, BeginScopeInv, EndScopeInv, ZeroGradInv, BackwardPlainInv, BackwardAmpInv, StepPlainInv,
     StepAmpEmptyInv, StepAmpFailsBeforeInv, StepAmpInv, StepAmpFailsAfterInv DEF TrainStep
<1>2. CASE Between
  BY <1>2, SyncScalerInv, SyncInv, SaveInv, LoadInv, SetScalerInv DEF Between
<1>3. CASE UNCHANGED vars
  <2>1. UNCHANGED <<inScope, phase, grads, scalerVars>> BY <1>3 DEF vars
  <2>2. UNCHANGED <<scalerVars, endVars>> BY <1>3 DEF vars
  <2>3. UNCHANGED <<enabled, countVars, file>> BY <1>3 DEF vars, scalerVars
  <2> QED BY <2>1, <2>2, <2>3, GradFrame, ScalerFrame, CountFrame DEF IInv
<1> QED BY <1>1, <1>2, <1>3 DEF Next

\* The invariant of every run in which loss scaling is never switched.
THEOREM Inductive == ASSUME ~ Toggle PROVE Spec => []IInv
<1>1. IInv /\ [Next]_vars => IInv' BY NextInv
<1> QED BY <1>1, InitInv, PTL DEF Spec

\* Every value has its type: the scale stays between the bounds that the
\* kernels clamp it to, and gradients of different scales are never summed.
THEOREM ScalerTypes == ASSUME ~ Toggle PROVE Spec => []TypeOK
<1>1. IInv => TypeOK
  BY DEF IInv, GradInv, ScalerInv, CountInv, TypeOK, ScalerState, KnownState
<1> QED BY <1>1, Inductive, PTL

\* No update of a scaled step uses an overflowed gradient, and no update at
\* all a scaled gradient or a bias correction of another number of updates than
\* the moments hold.
THEOREM UpdatesAreSound == ASSUME ~ Toggle PROVE Spec => []UpdatesSound
<1>1. IInv => UpdatesSound BY DEF IInv, CountInv
<1> QED BY <1>1, Inductive, PTL

\* The counts in force and those of a checkpoint are those of the moments.
THEOREM CountsAreUpdates == ASSUME ~ Toggle PROVE Spec => []StepsCounted
<1>1. IInv => StepsCounted BY DEF IInv, ScalerInv, CountInv, KnownCurrent, StepsCounted
<1> QED BY <1>1, Inductive, PTL

\* A step is skipped exactly when an overflow, its own or one of a step that
\* failed before it, is to blame.
THEOREM SkipsAreJustified == ASSUME ~ Toggle PROVE Spec => []SkipJustified
<1>1. IInv => SkipJustified BY DEF IInv, ScalerInv
<1> QED BY <1>1, Inductive, PTL
=============================================================================
