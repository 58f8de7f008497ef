------------------------------ MODULE Trainer ------------------------------
(***************************************************************************)
(* gd_train_batch and gd_eval_mean_loss (src/src/train/trainer.c): one     *)
(* thread that takes batches from a training loader, runs a step on each   *)
(* and gives it back, and that evaluates in between with a loader of its   *)
(* own, which it creates and destroys.  Both loaders are DataLoader, both  *)
(* fill slots of one data ring, and only one step can be open.             *)
(*                                                                         *)
(* Every call may fail: a fill, gd_begin_step, the loss, backward or       *)
(* optimizer, and gd_end_step, which then leaves the step open for good.   *)
(***************************************************************************)
EXTENDS DataLoader

CONSTANTS
  EvalWorkers,     \* the workers of the loader for evaluation
  EvalPrefetch,    \* its prefetch_factor
  MaxEvalSteps     \* bound: steps of all evaluations

VARIABLES
  eState, eSeq, eData, eIds, eRequested, eNextSeq, eDeliverSeq, eEpoch,
  eInEpoch, eWorkerStatus, eStop, eWpc, eWslot, eCpc,  \* the loader for evaluation
  pc, call, batch,   \* the thread: where it is, in which call, with which batch
  left, asked,       \* steps left to the evaluation, asked of all of them
  open,              \* ctx->in_scope: the call whose step is open
  refused            \* history: gd_end_step has failed

E == INSTANCE DataLoader WITH
  Workers <- EvalWorkers, PrefetchFactor <- EvalPrefetch, MaxSeq <- MaxEvalSteps,
  state <- eState, seq <- eSeq, data <- eData, ids <- eIds, requested <- eRequested,
  nextSeq <- eNextSeq, deliverSeq <- eDeliverSeq, epoch <- eEpoch, inEpoch <- eInEpoch,
  workerStatus <- eWorkerStatus, stop <- eStop, wpc <- eWpc, wslot <- eWslot, cpc <- eCpc

ASSUME TrainerAssumption ==
  /\ IsFiniteSet(EvalWorkers) /\ EvalWorkers # {} /\ NoWorker \notin EvalWorkers
  /\ EvalPrefetch \in Nat \ {0} /\ MaxEvalSteps \in Nat

trainLoader == <<batchVars, queueVars, workerStatus, stop, workerVars, cpc>>
evalQueue   == <<eState, eSeq, eData, eIds, eRequested, eNextSeq, eDeliverSeq, eEpoch, eInEpoch>>
evalLoader  == <<evalQueue, eWorkerStatus, eStop, eWpc, eWslot, eCpc>>
thread      == <<pc, call, batch, left, asked, open, refused>>
allVars     == <<use, trainLoader, evalLoader, thread>>

NoBatch == -1

TrainerPC == {"idle", "prefetch", "next", "begin", "begun", "run", "end", "drop", "release",
              "cleanup", "destroy"}

TrainerInit ==
  /\ Init
  /\ eState = [s \in E!Slot |-> "FREE"] /\ eSeq = [s \in E!Slot |-> 0]
  /\ eData = [s \in E!Slot |-> NoBuffer]
  /\ eIds = [s \in E!Slot |-> [epoch |-> 0, first |-> 0, samples |-> {}]]
  /\ eRequested = 0 /\ eNextSeq = 0 /\ eDeliverSeq = 0 /\ eEpoch = 0 /\ eInEpoch = 0
  /\ eWorkerStatus = "OK" /\ eStop = FALSE
  /\ eWpc = [w \in EvalWorkers |-> "exited"] /\ eWslot = [w \in EvalWorkers |-> 0]
  /\ eCpc = "gone"
  /\ pc = "idle" /\ call = "none" /\ batch = NoBatch
  /\ left = 0 /\ asked = 0 /\ open = "none" /\ refused = FALSE

----------------------------------------------------------------------------
\* A call of the loader that the running call uses: train for the one, eval
\* for the other.
On(train, eval) ==
  \/ call = "train" /\ train /\ UNCHANGED evalLoader
  \/ call = "eval" /\ eval /\ UNCHANGED trainLoader

NoLoader == UNCHANGED <<use, trainLoader, evalLoader>>

\* The locals of a call end with it.
Goto(there) ==
  /\ pc' = there
  /\ IF there = "idle" THEN call' = "none" /\ batch' = NoBatch ELSE UNCHANGED <<call, batch>>

\* Where a call goes that has nothing to give back any more.
Leave == Goto(IF call = "train" THEN "idle" ELSE "destroy")

\* The loader for evaluation is new, or freed.
Anew(worker, consumer) ==
  /\ eState' = [s \in E!Slot |-> "FREE"] /\ eSeq' = [s \in E!Slot |-> 0]
  /\ eData' = [s \in E!Slot |-> NoBuffer]
  /\ eIds' = [s \in E!Slot |-> [epoch |-> 0, first |-> 0, samples |-> {}]]
  /\ eRequested' = 0 /\ eNextSeq' = 0 /\ eDeliverSeq' = 0 /\ eEpoch' = 0 /\ eInEpoch' = 0
  /\ eWorkerStatus' = "OK" /\ eStop' = FALSE
  /\ eWpc' = [w \in EvalWorkers |-> worker] /\ eWslot' = [w \in EvalWorkers |-> 0]
  /\ eCpc' = consumer

\* What the batch in hand is doing.
HandState == IF call = "train" THEN state[batch] ELSE eState[batch]

\* The program may prefetch between the calls.
UserPrefetch ==
  /\ pc = "idle" /\ Prefetch
  /\ UNCHANGED <<evalLoader, thread>>

CallTrain ==
  /\ pc = "idle" /\ CallNext
  /\ call' = "train" /\ pc' = "next"
  /\ UNCHANGED <<evalLoader, batch, left, asked, open, refused>>

\* gd_eval_mean_loss creates a loader and asks it for the first batch.
CallEval ==
  /\ pc = "idle"
  /\ Anew("check", "idle")
  /\ call' = "eval" /\ pc' = "prefetch"
  /\ left' \in 1 .. MaxEvalSteps - asked /\ asked' = asked + left'
  /\ UNCHANGED <<use, trainLoader, batch, open, refused>>

\* gd_dataloader_prefetch: optional except for an evaluation's first batch; an
\* error ends an evaluation.
PrefetchNext ==
  /\ pc = "prefetch"
  /\ \/ On(Prefetch, E!Prefetch) /\ Goto(IF call = "train" THEN "idle" ELSE "next")
     \/ /\ call = "train" \/ eNextSeq + eRequested > 0
        /\ NoLoader /\ Goto(IF call = "train" THEN "idle" ELSE "next")
     \/ /\ call = "eval" /\ (eWorkerStatus # "OK" \/ E!Queued >= E!NSlots)
        /\ NoLoader /\ Goto("destroy")
  /\ UNCHANGED <<left, asked, open, refused>>

EvalNext ==
  /\ pc = "next" /\ call = "eval" /\ E!CallNext
  /\ UNCHANGED <<trainLoader, thread>>

\* gd_dataloader_next, until it has a batch or an error.
Waits ==
  /\ pc = "next" /\ On(NextWaits, E!NextWaits)
  /\ UNCHANGED thread

Delivered ==
  /\ pc = "next"
  /\ \/ \E s \in Slot : On(Due(s) /\ Deliver, FALSE) /\ batch' = s
     \/ \E s \in E!Slot : On(FALSE, E!Due(s) /\ E!Deliver) /\ batch' = s
  /\ pc' = "begin"
  /\ UNCHANGED <<call, left, asked, open, refused>>

NextFailed ==
  /\ pc = "next" /\ On(NextFails, E!NextFails)
  /\ Leave
  /\ UNCHANGED <<left, asked, open, refused>>

\* gd_begin_step: refused while a step is open; or the batch goes into it,
\* unless one of its later parts fails.
BeginRefused ==
  /\ pc = "begin" /\ open # "none"
  /\ NoLoader /\ Goto("cleanup")
  /\ UNCHANGED <<left, asked, open, refused>>

Begin ==
  /\ pc = "begin" /\ open = "none"
  /\ On(BeginStep(batch), E!BeginStep(batch)) /\ Goto("begun")
  /\ UNCHANGED <<left, asked, open, refused>>

Begun ==
  /\ pc = "begun" /\ On(StepBegun, E!StepBegun)
  /\ open' = call /\ Goto("run")
  /\ UNCHANGED <<left, asked, refused>>

BeginFailed ==
  /\ pc = "begun" /\ On(AbortBegin(batch), E!AbortBegin(batch))
  /\ Goto("cleanup")
  /\ UNCHANGED <<left, asked, open, refused>>

\* The loss, backward and the optimizer, or the loss and its value: well, or
\* with an error on which the step is ended all the same.
Run ==
  /\ pc = "run" /\ NoLoader /\ (Goto("end") \/ Goto("drop"))
  /\ UNCHANGED <<left, asked, open, refused>>

\* Mutant: the error of the loss is returned with the step open.
EndOnlyIfRun ==
  /\ \/ pc = "end" /\ On(EndStep(batch), E!EndStep(batch)) /\ open' = "none"
     \/ pc = "drop" /\ NoLoader /\ UNCHANGED open
  /\ Goto(IF pc = "end" THEN "release" ELSE "cleanup")
  /\ UNCHANGED <<left, asked, refused>>

End ==
  /\ pc \in {"end", "drop"} /\ On(EndStep(batch), E!EndStep(batch))
  /\ open' = "none" /\ Goto(IF pc = "end" THEN "release" ELSE "cleanup")
  /\ UNCHANGED <<left, asked, refused>>

\* gd_end_step fails: gd_train_batch returns and gives nothing back.
EndFails ==
  /\ pc \in {"end", "drop"} /\ NoLoader
  /\ IF pc = "end" /\ call = "train" THEN Goto("idle") ELSE Goto("cleanup")
  /\ refused' = TRUE /\ UNCHANGED <<left, asked, open>>

GiveBack ==
  /\ pc = "release" /\ On(Release(batch), E!Release(batch))
  /\ IF call = "eval"
     THEN left' = left - 1 /\ pc' = IF left = 1 THEN "destroy" ELSE "prefetch"
     ELSE UNCHANGED left /\ pc' = "prefetch"
  /\ batch' = NoBatch
  /\ UNCHANGED <<call, asked, open, refused>>

\* On an error what gd_dataloader_release answers is ignored: BUSY for a batch
\* whose step could not be ended.
Cleanup ==
  /\ pc = "cleanup"
  /\ \/ On(Release(batch), E!Release(batch))
     \/ HandState = "IN_STEP" /\ NoLoader
  /\ Leave
  /\ UNCHANGED <<left, asked, open, refused>>

\* Mutant: the workers of the evaluation are joined and not told to stop.
DestroyUntold ==
  /\ pc = "destroy" /\ eCpc = "idle" /\ eCpc' = "joining"
  /\ UNCHANGED <<use, evalQueue, eWorkerStatus, eStop, eWpc, eWslot, trainLoader, thread>>

\* gd_dataloader_destroy, whatever its batches are doing, and the return.
DestroyEval ==
  /\ pc = "destroy" /\ eCpc = "idle"
  /\ eStop' = TRUE /\ E!Broadcast /\ eCpc' = "joining"
  /\ UNCHANGED <<use, evalQueue, eWorkerStatus, eWslot, trainLoader, thread>>

DestroyingEval ==
  /\ pc = "destroy" /\ (E!Joined \/ \E s \in E!Slot : E!DestroySlot(s))
  /\ UNCHANGED <<trainLoader, thread>>

EvalReturns ==
  /\ pc = "destroy" /\ eCpc = "destroying" /\ E!InState("FREE") = E!Slot
  /\ Anew("exited", "gone") /\ Goto("idle") /\ left' = 0
  /\ UNCHANGED <<use, trainLoader, asked, open, refused>>

----------------------------------------------------------------------------
TrainWorker(w) == Worker(w) /\ UNCHANGED <<evalLoader, thread>>
EvalWorker(w)  == E!Worker(w) /\ UNCHANGED <<trainLoader, thread>>
Device == DeviceFinish /\ UNCHANGED <<evalLoader, thread>>

InCall ==
  \/ PrefetchNext \/ EvalNext \/ Waits \/ Delivered \/ NextFailed
  \/ BeginRefused \/ Begin \/ Begun \/ BeginFailed \/ Run \/ End \/ EndFails
  \/ GiveBack \/ Cleanup \/ DestroyEval \/ DestroyingEval \/ EvalReturns

TrainerNext ==
  \/ UserPrefetch \/ CallTrain \/ CallEval
  \/ InCall
  \/ \E w \in Workers : TrainWorker(w)
  \/ \E w \in EvalWorkers : EvalWorker(w)
  \/ Device

TrainerSpec == TrainerInit /\ [][TrainerNext]_allVars

\* Threads run and the device finishes; which call comes next, and whether one
\* comes, is up to the program.
FairTrainerSpec ==
  /\ TrainerSpec
  /\ WF_allVars(Device) /\ WF_allVars(InCall)
  /\ \A w \in Workers : WF_allVars(TrainWorker(w))
  /\ \A w \in EvalWorkers : WF_allVars(EvalWorker(w))

----------------------------------------------------------------------------
(* Properties.                                                             *)

\* The training loader may hold every slot of the ring but the one an evaluation
\* needs: a step that an evaluation could not end keeps one for good.  Nothing
\* in the code sees to more, for each loader is held to the slots of the ring
\* and not to those the other leaves it.
Short == Cardinality(Buffers) <= NSlots + (IF open = "eval" THEN 1 ELSE 0)

\* The call waits for a batch, and every slot of the ring is taken by a batch
\* that is ready and is not the one it waits for, or by an open step.
Starved ==
  /\ pc = "next"
  /\ \A b \in Buffers :
       \/ use[b] = "step"
       \/ \E s \in InState("READY") : data[s] = b /\ (call = "eval" \/ ~ Due(s))
       \/ \E s \in E!InState("READY") : eData[s] = b /\ ~ E!Due(s)

\* Every gd_train_batch and gd_eval_mean_loss returns, whatever fails, while the
\* ring is one slot longer than the training loader and no step of an
\* evaluation has been left open.  Otherwise a call may hang, and does so
\* starved of slots only: the training loader's batches hold them, and wait for
\* the thread that waits here.
CallsReturn == pc # "idle" ~> (pc = "idle" \/ [](Short /\ Starved))

\* Whatever failed, between two calls no batch of the training loader is in
\* hand, nothing is left of the loader of an evaluation, and the ring keeps no
\* slot for the host but for batches on their way to the training loop; a step
\* is open, and a slot in it, only if it could not be ended.
CallsClean ==
  pc = "idle" =>
    /\ InState("IN_USE") \cup InState("RETIRED") = {}
    /\ InState("IN_STEP") # {} <=> open = "train"
    /\ E!InState("FREE") = E!Slot
    /\ \A b \in Buffers : use[b] \in {"host", "full"} =>
         \E s \in InState("FILLING") \cup InState("READY") : data[s] = b
    /\ Cardinality({b \in Buffers : use[b] = "step"}) = IF open = "none" THEN 0 ELSE 1
    /\ open # "none" => refused
=============================================================================
