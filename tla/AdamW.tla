------------------------------- MODULE AdamW --------------------------------
(***************************************************************************)
(* The optimizer and the loss scaler (src/src/optim/adamw.c, with the      *)
(* kernels of optim/adamw and backends/metal/primitives/amp): gradients    *)
(* scaled by backward and unscaled by a step, which the device skips if    *)
(* one of them overflowed, and counts otherwise; host copies of what the   *)
(* device counts, brought up to date on demand; checkpoints of both.       *)
(*                                                                         *)
(* All calls are one thread's.  The device runs what is encoded in order,  *)
(* and reading or writing a tensor waits for it, so that the device's      *)
(* state is the one after all that was encoded.  Values of parameters and  *)
(* moments are left out; what is kept of a gradient is which power of two  *)
(* it is still scaled by, and whether it is finite.                        *)
(***************************************************************************)
EXTENDS Integers

CONSTANTS
  Params,         \* trainable parameters of the optimizer
  MaxScale,       \* log2 of config.max_scale; min_scale is 1
  InitScale,      \* log2 of config.init_scale, clamped
  GrowthInterval, \* config.growth_interval
  Faults,         \* where a step may fail: "before" it unscales, "after"
  Toggle,         \* does the caller switch loss scaling on and off?
  MaxUpdates      \* bound: steps that update something

ASSUME AdamWAssumption ==
  /\ MaxScale \in Nat /\ InitScale \in 0 .. MaxScale
  /\ GrowthInterval \in Nat \ {0}
  /\ Faults \subseteq {"before", "after"}
  /\ Toggle \in BOOLEAN
  /\ MaxUpdates \in Nat

VARIABLES
  inScope,        \* a step of mode GD_SCOPE_TRAIN is open
  phase,          \* what its caller may do: "compute", then only end it
  grads,          \* gd_tensor_grad of each parameter
  enabled,        \* scaler->config.enabled
  begun,          \* scaler->step_begun
  scaler,         \* scale_state and flag_state on the device
  known,          \* scaler->scale, growth_tracker, last_found_inf, host_state_dirty
  device,         \* device_state_i32, and with it the powers of beta
  host,           \* optimizer->step and each slot's step and powers of beta
  dirty,          \* optimizer->host_state_dirty
  file,           \* the last checkpoint of the optimizer
  made,           \* history: updates in the moments
  latest,         \* history: the latest update of each parameter
  blame,          \* history: an overflow since the scaler last ended a step
  finished        \* history: how the scaler last finished a step

scalerVars == <<enabled, begun, scaler, known>>
countVars  == <<device, host, dirty, made, latest>>
endVars    == <<blame, finished>>
vars == <<inScope, phase, grads, scalerVars, countVars, file, endVars>>

Scale   == 0 .. MaxScale
Counts  == [step : [Params -> 0 .. MaxUpdates], total : 0 .. MaxUpdates]
Grad    == [scale : Scale, finite : BOOLEAN]
Update  == [index : 1 .. MaxUpdates, scale : Int, finite : BOOLEAN, amp : BOOLEAN]
Tracker == 0 .. GrowthInterval - 1

NoGrad   == [scale |-> 0]
Mixed    == -1      \* a sum of gradients of different scales: no Scale
NoUpdate == [index |-> 0]
NoFile   == [none |-> TRUE]
NoneMade == [step |-> [p \in Params |-> 0], total |-> 0]

\* A power of beta is as good as its exponent, so that counts stand for both.
Counted(c, S) == [step |-> [p \in Params |-> IF p \in S THEN c.step[p] + 1 ELSE c.step[p]],
                  total |-> IF S = {} THEN c.total ELSE c.total + 1]

WithGrad == {p \in Params : grads[p] # NoGrad}
Overflowed == {p \in WithGrad : ~ grads[p].finite}

\* gd_amp_scaler_write_device_state
Written(scale, tracker, last) == [scale |-> scale, tracker |-> tracker, found |-> FALSE, last |-> last]

Init ==
  /\ inScope = FALSE /\ phase = "compute" /\ grads = [p \in Params |-> NoGrad]
  /\ enabled \in BOOLEAN /\ begun = FALSE
  /\ scaler = Written(InitScale, 0, FALSE)
  /\ known = [scale |-> InitScale, tracker |-> 0, last |-> FALSE, dirty |-> FALSE]
  /\ device = NoneMade /\ host = NoneMade /\ dirty = FALSE /\ file = NoFile
  /\ made = NoneMade /\ latest = [p \in Params |-> NoUpdate]
  /\ blame = FALSE /\ finished = [skipped |-> FALSE, blame |-> FALSE]

----------------------------------------------------------------------------
(* The scaler's kernels.                                                   *)

\* Mutant: what the last step found stays.
BeginKernelKeeps(s) == s

\* gd_amp_begin_step_kernel; the scale is in range already.
BeginKernel(s) == [s EXCEPT !.found = FALSE]

\* gd_amp_finish_step_kernel
FinishKernel(s) ==
  IF s.found
  THEN [scale |-> IF s.scale > 0 THEN s.scale - 1 ELSE 0, tracker |-> 0, found |-> TRUE, last |-> TRUE]
  ELSE LET grows == s.tracker + 1 >= GrowthInterval
       IN  [scale |-> IF grows /\ s.scale < MaxScale THEN s.scale + 1 ELSE s.scale,
            tracker |-> IF grows THEN 0 ELSE s.tracker + 1, found |-> FALSE, last |-> FALSE]

\* gd_amp_scaler_begin_step, as backward and the step call it: the device's
\* state after it.
Begun == IF begun THEN scaler ELSE BeginKernel(scaler)
KnownBegun == IF begun THEN known ELSE [known EXCEPT !.dirty = TRUE]

----------------------------------------------------------------------------
(* A training step.                                                        *)

\* gd_begin_step resets the tape and with it the gradients.
BeginScope ==
  /\ ~ inScope /\ inScope' = TRUE /\ phase' = "compute"
  /\ grads' = [p \in Params |-> NoGrad]
  /\ UNCHANGED <<scalerVars, countVars, file, endVars>>

\* gd_end_step, whatever has failed.
EndScope ==
  /\ inScope /\ inScope' = FALSE
  /\ UNCHANGED <<phase, grads, scalerVars, countVars, file, endVars>>

\* Gradients of the parameters S, of which O overflow, at a scale: added to
\* those there are.
Accumulated(S, O, scale) ==
  [p \in Params |->
     IF p \notin S THEN grads[p]
     ELSE IF grads[p] = NoGrad THEN [scale |-> scale, finite |-> p \notin O]
     ELSE [scale  |-> IF grads[p].scale = scale THEN scale ELSE Mixed,
           finite |-> grads[p].finite /\ p \notin O]]

\* gd_backward_amp.  One that fails leaves gradients of some parameters.
BackwardAmp(S, O, ok) ==
  /\ inScope /\ phase = "compute" /\ enabled
  /\ scaler' = Begun /\ known' = KnownBegun /\ begun' = TRUE
  /\ grads' = Accumulated(S, O, Begun.scale)
  /\ phase' = IF ok THEN "compute" ELSE "failed"
  /\ UNCHANGED <<inScope, enabled, countVars, file, endVars>>

\* gd_backward_amp with scaling disabled, or gd_backward: gradients overflow
\* without a scale too.  One that fails leaves gradients of some parameters.
BackwardPlain(S, O, ok) ==
  /\ inScope /\ phase = "compute" /\ ~ enabled
  /\ grads' = Accumulated(S, O, 0)
  /\ phase' = IF ok THEN "compute" ELSE "failed"
  /\ UNCHANGED <<inScope, scalerVars, countVars, file, endVars>>

\* The update of S as the kernels see it; amp: one of a scaled step.
Applied(S, c, scale, amp) ==
  [p \in Params |->
     IF p \in S THEN [index |-> c.step[p] + 1, scale |-> grads[p].scale - scale,
                      finite |-> grads[p].finite, amp |-> amp]
     ELSE latest[p]]

\* gd_optimizer_step_lr and step_clip_lr: the bias is the host's, and so are
\* the counts.  Nothing looks for an overflow: found_inf is NULL.
StepPlain ==
  LET S == WithGrad
  IN  /\ inScope /\ phase = "compute" /\ ~ enabled /\ made.total < MaxUpdates
      /\ host' = Counted(host, S) /\ made' = Counted(made, S)
      /\ latest' = Applied(S, host, 0, FALSE)
      /\ phase' = "stepped"
      /\ UNCHANGED <<inScope, grads, scalerVars, device, dirty, file, endVars>>

\* gd_amp_unscale_kernel, or gd_grad_norm_stage_kernel when the step clips:
\* the scaler after it.
Unscaled(s) == [s EXCEPT !.found = s.found \/ Overflowed # {}]

\* In place, unless the step clips: then the factor goes to the update.
Divided(clip, scale) ==
  IF clip THEN grads
  ELSE [p \in Params |-> IF p \in WithGrad THEN [grads[p] EXCEPT !.scale = @ - scale] ELSE NoGrad]

\* gd_optimizer_step_amp_lr and step_amp_clip_lr with no gradient at all give
\* the scaler's step up.
StepAmpEmpty ==
  /\ inScope /\ phase = "compute" /\ enabled /\ WithGrad = {}
  /\ scaler' = Begun /\ known' = KnownBegun /\ begun' = FALSE
  /\ blame' = FALSE
  /\ phase' = "stepped"
  /\ UNCHANGED <<inScope, grads, enabled, countVars, file, finished>>

\* Mutant: a step that is skipped counts.
TakenAlways(s) == WithGrad

\* The parameters gd_adamw_kernel updates and gd_adamw_commit_kernel counts.
Taken(s) == IF s.found THEN {} ELSE WithGrad

\* gd_optimizer_step_amp_lr and step_amp_clip_lr: unscale, the kernels of the
\* update, and the end of the scaler's step.
StepAmp(clip) ==
  LET found == Unscaled(Begun)
      S     == Taken(found)
  IN  /\ inScope /\ phase = "compute" /\ enabled /\ WithGrad # {} /\ made.total < MaxUpdates
      /\ grads' = Divided(clip, found.scale)
      /\ device' = Counted(device, S) /\ made' = Counted(made, S)
      /\ latest' = Applied(S, device, found.scale, TRUE)
      /\ dirty' = TRUE
      /\ scaler' = FinishKernel(found) /\ known' = [known EXCEPT !.dirty = TRUE] /\ begun' = FALSE
      /\ blame' = FALSE
      /\ finished' = [skipped |-> found.found, blame |-> blame \/ Overflowed # {}]
      /\ phase' = "stepped"
      /\ UNCHANGED <<inScope, enabled, host, file>>

\* The same, when a gradient is refused or the unscaling cannot be encoded:
\* the scaler's step stays begun.
StepAmpFailsBefore ==
  /\ inScope /\ phase = "compute" /\ enabled /\ "before" \in Faults
  /\ scaler' = Begun /\ known' = KnownBegun /\ begun' = TRUE
  /\ phase' = "failed"
  /\ UNCHANGED <<inScope, grads, enabled, countVars, file, endVars>>

\* The same, when the update cannot be encoded.
StepAmpFailsAfter(clip) ==
  /\ inScope /\ phase = "compute" /\ enabled /\ WithGrad # {} /\ "after" \in Faults
  /\ scaler' = Unscaled(Begun) /\ known' = KnownBegun /\ begun' = TRUE
  /\ grads' = Divided(clip, Begun.scale)
  /\ blame' = (blame \/ Overflowed # {})
  /\ phase' = "failed"
  /\ UNCHANGED <<inScope, enabled, countVars, file, finished>>

\* gd_optimizer_zero_grad
ZeroGrad ==
  /\ inScope /\ phase # "failed" /\ phase' = "compute"
  /\ grads' = [p \in Params |-> NoGrad]
  /\ UNCHANGED <<inScope, scalerVars, countVars, file, endVars>>

----------------------------------------------------------------------------
(* Between steps.                                                          *)

\* gd_amp_scaler_sync, and so gd_amp_scaler_get_state.
SyncScaler ==
  /\ ~ inScope /\ known.dirty
  /\ known' = [scale |-> scaler.scale, tracker |-> scaler.tracker, last |-> scaler.last, dirty |-> FALSE]
  /\ UNCHANGED <<inScope, phase, grads, enabled, begun, scaler, countVars, file, endVars>>

\* gd_amp_scaler_set_state, which gives up a step that was begun.
SetScaler(scale, tracker, last, on) ==
  /\ ~ inScope /\ (on # enabled => Toggle)
  /\ enabled' = on /\ begun' = FALSE
  /\ scaler' = Written(scale, tracker, last)
  /\ known' = [scale |-> scale, tracker |-> tracker, last |-> last, dirty |-> FALSE]
  /\ blame' = FALSE
  /\ UNCHANGED <<inScope, phase, grads, countVars, file, finished>>

\* gd_optimizer_sync_state
Synced == IF dirty THEN device ELSE host

Sync ==
  /\ ~ inScope /\ dirty
  /\ host' = Synced /\ dirty' = FALSE
  /\ UNCHANGED <<inScope, phase, grads, scalerVars, device, made, latest, file, endVars>>

\* gd_optimizer_save_state: the counts, after a sync, and the moments.
Save ==
  /\ ~ inScope
  /\ host' = Synced /\ dirty' = FALSE
  /\ file' = [counts |-> Synced, moments |-> made]
  /\ UNCHANGED <<inScope, phase, grads, scalerVars, device, made, latest, endVars>>

\* Mutant: the device goes on with its own counts.
LoadedDeviceKeeps == device

\* gd_optimizer_write_device_scalar_state
LoadedDevice == file.counts

\* gd_optimizer_apply_saved_state
LoadedHost == file.counts

\* gd_optimizer_load_state
Load ==
  /\ ~ inScope /\ file # NoFile
  /\ host' = LoadedHost /\ device' = LoadedDevice /\ dirty' = FALSE
  /\ made' = file.moments /\ latest' = [p \in Params |-> NoUpdate]
  /\ UNCHANGED <<inScope, phase, grads, scalerVars, file, endVars>>

----------------------------------------------------------------------------
TrainStep ==
  \/ BeginScope \/ EndScope \/ ZeroGrad
  \/ \E S \in SUBSET Params : \E O \in SUBSET S, ok \in BOOLEAN :
       BackwardPlain(S, O, ok) \/ BackwardAmp(S, O, ok)
  \/ StepPlain \/ StepAmpEmpty \/ StepAmpFailsBefore
  \/ \E clip \in BOOLEAN : StepAmp(clip) \/ StepAmpFailsAfter(clip)

Between ==
  \/ SyncScaler \/ Sync \/ Save \/ Load
  \/ \E s \in Scale, t \in Tracker, l, on \in BOOLEAN : SetScaler(s, t, l, on)

Next == TrainStep \/ Between

Spec == Init /\ [][Next]_vars

----------------------------------------------------------------------------
(* Properties.                                                             *)

\* Types; the scale within its bounds, the tracker below the interval, and no
\* gradients of different scales summed.
TypeOK ==
  /\ inScope \in BOOLEAN /\ phase \in {"compute", "stepped", "failed"}
  /\ grads \in [Params -> Grad \cup {NoGrad}]
  /\ enabled \in BOOLEAN /\ begun \in BOOLEAN
  /\ scaler \in [scale : Scale, tracker : Tracker, found : BOOLEAN, last : BOOLEAN]
  /\ known \in [scale : Scale, tracker : Tracker, last : BOOLEAN, dirty : BOOLEAN]
  /\ {device, host, made} \subseteq Counts /\ dirty \in BOOLEAN
  /\ file \in [counts : Counts, moments : Counts] \cup {NoFile}
  /\ latest \in [Params -> Update \cup {NoUpdate}]
  /\ blame \in BOOLEAN /\ finished \in [skipped : BOOLEAN, blame : BOOLEAN]

\* No update of a scaled step uses a gradient that overflowed (a plain step
\* checks nothing and uses it), and none of either kind a gradient that is
\* still scaled, or a bias correction of another number of updates than the
\* moments have: whatever was skipped, failed, saved or loaded before.
UpdatesSound ==
  \A p \in Params : latest[p] # NoUpdate =>
    /\ latest[p].amp => latest[p].finite
    /\ latest[p].scale = 0
    /\ latest[p].index = made.step[p]

\* The counts in force, the host's or the device's if the host's are stale,
\* and those of a checkpoint, are the number of updates in the moments they
\* go with; the scaler's host copy is the device's unless it is marked stale.
StepsCounted ==
  /\ Synced = made
  /\ file # NoFile => file.counts = file.moments
  /\ known.dirty \/ (known.scale = scaler.scale /\ known.tracker = scaler.tracker /\ known.last = scaler.last)

\* The step count of the optimizer is that of its updates, which
\* tests/test_optim.c says of the first AMP update.
CountIsUpdates == Synced.total = made.total

\* A step is skipped if and only if a gradient overflowed, its own or one of
\* a step that failed since the last that was finished.
SkipJustified == finished.skipped <=> finished.blame
=============================================================================
