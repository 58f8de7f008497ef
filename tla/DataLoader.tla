---------------------------- MODULE DataLoader -----------------------------
(***************************************************************************)
(* A gd_dataloader (src/src/dataset/dataloader.c, batch.c): workers that   *)
(* fill batches in the background, and the consumer, the one thread that   *)
(* asks for batches, runs steps on them and releases them.                 *)
(*                                                                         *)
(* The data ring below it is DeviceLease, which StepContext implements.    *)
(* Each action is one critical section of dl->mutex, one call of the ring, *)
(* or code that touches only what its own thread owns.                     *)
(***************************************************************************)
EXTENDS Sampler, FiniteSets

CONSTANTS
  Workers,         \* dl->workers
  PrefetchFactor,  \* cfg->prefetch_factor, the default already put in
  Buffers,         \* the slots of the data ring
  NoBuffer,        \* a batch bound to no data slot, data_slot = -1
  NoWorker,        \* nobody waits on work_cv
  BatchSize,       \* cfg->batch_size
  MaxSeq           \* bound: batches the model asks for

ASSUME DataLoaderAssumption ==
  /\ IsFiniteSet(Workers) /\ Workers # {} /\ NoWorker \notin Workers
  /\ IsFiniteSet(Buffers) /\ Buffers # {} /\ NoBuffer \notin Buffers
  /\ PrefetchFactor \in Nat \ {0}
  /\ BatchSize \in Nat \ {0}
  /\ NumSamples >= BatchSize
  /\ MaxSeq \in Nat

VARIABLES
  use,                                 \* the data ring
  state, seq, data, ids,               \* dl->slots: state, seq, data_slot, the samples
  requested, nextSeq, deliverSeq,      \* batches asked for, assigned, delivered
  epoch, inEpoch,                      \* dl->epoch, dl->samples_in_epoch
  workerStatus, stop,
  wpc, wslot,                          \* a worker: where it is, the batch it fills
  cpc                                  \* the consumer

batchVars  == <<state, seq, data, ids>>
queueVars  == <<requested, nextSeq, deliverSeq, epoch, inEpoch>>
workerVars == <<wpc, wslot>>
vars == <<use, batchVars, queueVars, workerStatus, stop, workerVars, cpc>>

Ring == INSTANCE DeviceLease WITH Buffer <- Buffers

----------------------------------------------------------------------------
\* Mutant: the loader is not held to the slots the ring has.
NSlotsUnclamped == Cardinality(Workers) * PrefetchFactor

\* gd_normalize_config, then no more batches than the data ring has slots.
NSlots ==
  LET wanted == Cardinality(Workers) * PrefetchFactor
      some   == IF wanted < 2 THEN 2 ELSE wanted
  IN  IF some > Cardinality(Buffers) THEN Cardinality(Buffers) ELSE some

Slot == 0 .. NSlots - 1

BatchState  == {"FREE", "FILLING", "READY", "IN_USE", "IN_STEP", "RETIRED"}
WorkerPC    == {"check", "parked", "collate", "acquire", "copy", "filled", "failed", "exited"}
ConsumerPC  == {"idle", "next", "waiting", "begin", "joining", "destroying", "gone"}

\* Workers counted by filling_count.
Filling == {w \in Workers : wpc[w] \in {"collate", "acquire", "copy", "filled", "failed"}}

StepsPerEpoch   == NumSamples \div BatchSize
SamplesPerEpoch == StepsPerEpoch * BatchSize

InState(st) == {s \in Slot : state[s] = st}
Queued == requested + Cardinality(Slot \ InState("FREE"))

Init ==
  /\ use = [b \in Buffers |-> "free"]
  /\ state = [s \in Slot |-> "FREE"] /\ seq = [s \in Slot |-> 0]
  /\ data = [s \in Slot |-> NoBuffer] /\ ids = [s \in Slot |-> [epoch |-> 0, first |-> 0, samples |-> {}]]
  /\ requested = 0 /\ nextSeq = 0 /\ deliverSeq = 0 /\ epoch = 0 /\ inEpoch = 0
  /\ workerStatus = "OK" /\ stop = FALSE
  /\ wpc = [w \in Workers |-> "check"] /\ wslot = [w \in Workers |-> 0]
  /\ cpc = "idle"

WorkerGoto(w, there) == wpc' = [wpc EXCEPT ![w] = there]

Parked == {w \in Workers : wpc[w] = "parked"}

\* pthread_cond_signal(&dl->work_cv) wakes one of the workers waiting there.
Signal ==
  \E w \in IF Parked = {} THEN {NoWorker} ELSE Parked :
    wpc' = [v \in Workers |-> IF v = w THEN "check" ELSE wpc[v]]

\* pthread_cond_broadcast(&dl->work_cv).
Broadcast == wpc' = [v \in Workers |-> IF wpc[v] = "parked" THEN "check" ELSE wpc[v]]

\* Mutant: a failed fill wakes nobody.
WakeConsumerUnlessFailed == cpc' = IF cpc = "waiting" /\ workerStatus' = "OK" THEN "next" ELSE cpc

\* pthread_cond_broadcast(&dl->ready_cv), where only the consumer waits.
WakeConsumer == cpc' = IF cpc = "waiting" THEN "next" ELSE cpc

\* Mutants: an unused batch keeps its data slot leased, and a batch goes on
\* naming the slot it gave back.
ClearBindingOnly(s) == data' = [data EXCEPT ![s] = NoBuffer] /\ UNCHANGED use

ClearBindingKeeps(s) ==
  /\ IF state[s] \in {"FILLING", "READY", "IN_USE"} /\ data[s] # NoBuffer
     THEN Ring!Cancel(data[s]) ELSE UNCHANGED use
  /\ UNCHANGED data

\* gd_batch_clear_data_binding: a data slot that is still the batch's goes
\* back to the ring; one a step has used comes back from the device.
ClearBinding(s) ==
  /\ IF state[s] \in {"FILLING", "READY", "IN_USE"} /\ data[s] # NoBuffer
     THEN Ring!Cancel(data[s]) ELSE UNCHANGED use
  /\ data' = [data EXCEPT ![s] = NoBuffer]

----------------------------------------------------------------------------
(* A worker (gd_worker_main).                                              *)

\* The batch of the epoch e that starts at position i.
Picked(e, i) ==
  [epoch |-> e, first |-> i, samples |-> {SampleAt(e, i + b) : b \in 0 .. BatchSize - 1}]

\* Mutant: the epoch ends a batch early.
AssignEarly(s) ==
  LET over == inEpoch + BatchSize >= SamplesPerEpoch
      e == IF over THEN epoch + 1 ELSE epoch
      i == IF over THEN 0 ELSE inEpoch
  IN ids' = [ids EXCEPT ![s] = Picked(e, i)] /\ epoch' = e /\ inEpoch' = i + BatchSize

\* gd_dataloader_assign_batch_locked: the samples of a batch are BatchSize
\* positions of one epoch, and the last incomplete batch is dropped.
Assign(s) ==
  LET over == inEpoch + BatchSize > SamplesPerEpoch
      e == IF over THEN epoch + 1 ELSE epoch
      i == IF over THEN 0 ELSE inEpoch
  IN ids' = [ids EXCEPT ![s] = Picked(e, i)] /\ epoch' = e /\ inEpoch' = i + BatchSize

FirstFree(s) == state[s] = "FREE" /\ \A r \in Slot : r < s => state[r] # "FREE"

CanTake == requested > 0 /\ InState("FREE") # {} /\ workerStatus = "OK"

Take(w) ==
  /\ wpc[w] = "check" /\ ~ stop /\ CanTake
  /\ \E s \in Slot :
       /\ FirstFree(s)
       /\ state' = [state EXCEPT ![s] = "FILLING"]
       /\ seq' = [seq EXCEPT ![s] = nextSeq]
       /\ Assign(s)
       /\ wslot' = [wslot EXCEPT ![w] = s]
  /\ requested' = requested - 1 /\ nextSeq' = nextSeq + 1
  /\ WorkerGoto(w, "collate")
  /\ UNCHANGED <<use, data, deliverSeq, workerStatus, stop, cpc>>

Park(w) ==
  /\ wpc[w] = "check" /\ ~ stop /\ ~ CanTake
  /\ WorkerGoto(w, "parked")
  /\ UNCHANGED <<use, batchVars, queueVars, workerStatus, stop, wslot, cpc>>

Exit(w) ==
  /\ wpc[w] = "check" /\ stop
  /\ WorkerGoto(w, "exited")
  /\ UNCHANGED <<use, batchVars, queueVars, workerStatus, stop, wslot, cpc>>

\* gd_dl_fill_slot: the dataset's collate ...
Collate(w) ==
  /\ wpc[w] = "collate" /\ ClearBinding(wslot[w])
  /\ \/ WorkerGoto(w, "acquire")
     \/ WorkerGoto(w, "failed")
  /\ UNCHANGED <<state, seq, ids, queueVars, workerStatus, stop, wslot, cpc>>

\* ... a slot of the data ring: a free one, or else the wait for a retired
\* one, which the device ends well or badly ...
Acquire(w) ==
  /\ wpc[w] = "acquire"
  /\ \E b \in Buffers : Ring!Lease(b) /\ data' = [data EXCEPT ![wslot[w]] = b]
  /\ WorkerGoto(w, "copy")
  /\ UNCHANGED <<state, seq, ids, queueVars, workerStatus, stop, wslot, cpc>>

Reclaim(w) ==
  /\ wpc[w] = "acquire" /\ \A b \in Buffers : use[b] # "free"
  /\ \E b \in Buffers : Ring!Reclaim(b)
  /\ UNCHANGED <<batchVars, queueVars, workerStatus, stop, workerVars, cpc>>

ReclaimFails(w) ==
  /\ wpc[w] = "acquire" /\ \A b \in Buffers : use[b] # "free"
  /\ \E b \in Buffers : use[b] = "done"
  /\ WorkerGoto(w, "failed")
  /\ UNCHANGED <<use, batchVars, queueVars, workerStatus, stop, wslot, cpc>>

\* ... the copy, and the slot is published, or aborted if the copy fails.
Publish(w) ==
  /\ wpc[w] = "copy" /\ Ring!Publish(data[wslot[w]])
  /\ WorkerGoto(w, "filled")
  /\ UNCHANGED <<batchVars, queueVars, workerStatus, stop, wslot, cpc>>

CopyFails(w) ==
  /\ wpc[w] = "copy" /\ ClearBinding(wslot[w])
  /\ WorkerGoto(w, "failed")
  /\ UNCHANGED <<state, seq, ids, queueVars, workerStatus, stop, wslot, cpc>>

\* Back under dl->mutex: the batch is READY, or FREE again and the loader
\* stays in error.
FillDone(w) ==
  /\ wpc[w] = "filled"
  /\ state' = [state EXCEPT ![wslot[w]] = "READY"] /\ UNCHANGED workerStatus
  /\ WakeConsumer /\ WorkerGoto(w, "check")
  /\ UNCHANGED <<use, seq, data, ids, queueVars, stop, wslot>>

FillFailed(w) ==
  /\ wpc[w] = "failed" /\ ClearBinding(wslot[w])
  /\ state' = [state EXCEPT ![wslot[w]] = "FREE"] /\ workerStatus' = "ERROR"
  /\ WakeConsumer /\ WorkerGoto(w, "check")
  /\ UNCHANGED <<seq, ids, queueVars, stop, wslot>>

----------------------------------------------------------------------------
(* The consumer.                                                           *)

\* gd_request_locked, unless the loader is in error or its queue is full.
Request ==
  /\ workerStatus = "OK" /\ Queued < NSlots
  /\ nextSeq + requested < MaxSeq
  /\ requested' = requested + 1 /\ Signal

Prefetch ==
  /\ cpc = "idle" /\ Request
  /\ UNCHANGED <<use, batchVars, nextSeq, deliverSeq, epoch, inEpoch, workerStatus, stop, wslot, cpc>>

CallNext ==
  /\ cpc = "idle" /\ deliverSeq < MaxSeq /\ cpc' = "next"
  /\ UNCHANGED <<use, batchVars, queueVars, workerStatus, stop, workerVars>>

\* Mutant: any ready batch will do.
DueAny(s) == state[s] = "READY"

\* gd_find_ready_seq_locked.
Due(s) == state[s] = "READY" /\ seq[s] = deliverSeq

\* gd_dataloader_next, each time it has the mutex: the due batch is handed
\* over ...
Deliver ==
  /\ cpc = "next" /\ workerStatus = "OK"
  /\ \E s \in Slot : Due(s) /\ state' = [state EXCEPT ![s] = "IN_USE"]
  /\ deliverSeq' = deliverSeq + 1 /\ cpc' = "idle"
  /\ UNCHANGED <<use, seq, data, ids, requested, nextSeq, epoch, inEpoch, workerStatus, stop, workerVars>>

\* ... or the loader is in error, or no batch is on its way though the
\* consumer holds some: an error either way ...
NextFails ==
  /\ cpc = "next"
  /\ \/ workerStatus # "OK"
     \/ /\ \A s \in Slot : ~ Due(s)
        /\ Queued # 0 /\ requested = 0 /\ Filling = {}
  /\ cpc' = "idle"
  /\ UNCHANGED <<use, batchVars, queueVars, workerStatus, stop, workerVars>>

\* ... or wait, having asked for a batch if nothing was queued at all.
NextWaits ==
  /\ cpc = "next" /\ workerStatus = "OK" /\ \A s \in Slot : ~ Due(s)
  /\ \/ Queued = 0 /\ Request
     \/ Queued # 0 /\ (requested # 0 \/ Filling # {}) /\ UNCHANGED <<requested, wpc>>
  /\ cpc' = "waiting"
  /\ UNCHANGED <<use, batchVars, nextSeq, deliverSeq, epoch, inEpoch, workerStatus, stop, wslot>>

\* gd_begin_step on a batch takes its data slot into the step, or backs out.
BeginStep(s) ==
  /\ cpc = "idle" /\ state[s] = "IN_USE" /\ InState("IN_STEP") = {}
  /\ Ring!Open(data[s])
  /\ state' = [state EXCEPT ![s] = "IN_STEP"] /\ cpc' = "begin"
  /\ UNCHANGED <<seq, data, ids, queueVars, workerStatus, stop, workerVars>>

StepBegun ==
  /\ cpc = "begin" /\ cpc' = "idle"
  /\ UNCHANGED <<use, batchVars, queueVars, workerStatus, stop, workerVars>>

AbortBegin(s) ==
  /\ cpc = "begin" /\ state[s] = "IN_STEP"
  /\ Ring!Move(data[s], "step", "full")
  /\ state' = [state EXCEPT ![s] = "IN_USE"] /\ cpc' = "idle"
  /\ UNCHANGED <<seq, data, ids, queueVars, workerStatus, stop, workerVars>>

\* gd_end_step, when it succeeds.
EndStep(s) ==
  /\ cpc = "idle" /\ state[s] = "IN_STEP"
  /\ Ring!Submit(data[s])
  /\ state' = [state EXCEPT ![s] = "RETIRED"]
  /\ UNCHANGED <<seq, data, ids, queueVars, workerStatus, stop, workerVars, cpc>>

\* gd_dataloader_release; a batch in a step is BUSY.
Release(s) ==
  /\ cpc = "idle" /\ state[s] \in {"IN_USE", "RETIRED"}
  /\ ClearBinding(s)
  /\ state' = [state EXCEPT ![s] = "FREE"] /\ seq' = [seq EXCEPT ![s] = 0]
  /\ Signal
  /\ UNCHANGED <<ids, queueVars, workerStatus, stop, wslot, cpc>>

\* Mutant: only one of the workers is told to stop.
DestroyOne ==
  /\ cpc = "idle" /\ InState("IN_STEP") = {}
  /\ stop' = TRUE /\ Signal /\ cpc' = "joining"
  /\ UNCHANGED <<use, batchVars, queueVars, workerStatus, wslot>>

\* gd_dataloader_destroy stops the workers, joins them, and clears every
\* batch that is left.
Destroy ==
  /\ cpc = "idle" /\ InState("IN_STEP") = {}
  /\ stop' = TRUE /\ Broadcast /\ cpc' = "joining"
  /\ UNCHANGED <<use, batchVars, queueVars, workerStatus, wslot>>

Joined ==
  /\ cpc = "joining" /\ \A w \in Workers : wpc[w] = "exited"
  /\ cpc' = "destroying"
  /\ UNCHANGED <<use, batchVars, queueVars, workerStatus, stop, workerVars>>

DestroySlot(s) ==
  /\ cpc = "destroying" /\ state[s] # "FREE"
  /\ ClearBinding(s) /\ state' = [state EXCEPT ![s] = "FREE"]
  /\ UNCHANGED <<seq, ids, queueVars, workerStatus, stop, workerVars, cpc>>

Destroyed ==
  /\ cpc = "destroying" /\ InState("FREE") = Slot
  /\ cpc' = "gone"
  /\ UNCHANGED <<use, batchVars, queueVars, workerStatus, stop, workerVars>>

----------------------------------------------------------------------------
\* The device finishes what was submitted.
DeviceFinish ==
  /\ \E b \in Buffers : Ring!Finish(b)
  /\ UNCHANGED <<batchVars, queueVars, workerStatus, stop, workerVars, cpc>>

Fill(w) == Collate(w) \/ Acquire(w) \/ Reclaim(w) \/ ReclaimFails(w) \/ Publish(w) \/ CopyFails(w)
Worker(w) == Take(w) \/ Park(w) \/ Exit(w) \/ Fill(w) \/ FillDone(w) \/ FillFailed(w)

TryNext == Deliver \/ NextFails \/ NextWaits
Destroying == Joined \/ (\E s \in Slot : DestroySlot(s)) \/ Destroyed

Consumer ==
  \/ Prefetch \/ CallNext \/ TryNext
  \/ StepBegun
  \/ \E s \in Slot : BeginStep(s) \/ AbortBegin(s) \/ EndStep(s) \/ Release(s)
  \/ Destroy \/ Destroying

Next == Consumer \/ (\E w \in Workers : Worker(w)) \/ DeviceFinish

Spec == Init /\ [][Next]_vars

\* A worker that cannot go on: it sleeps on work_cv or data_cv, or is gone.
Stuck(w) ==
  \/ wpc[w] \in {"parked", "exited"}
  \/ wpc[w] = "acquire" /\ \A b \in Buffers : use[b] \notin {"free", "done"}

\* Threads run, the device finishes what it has; when to make a call is the
\* consumer's choice.  The second conjunct is WF_vars(Worker(w)) with ~ ENABLED
\* spelled out, which TLC would have to run the sampler for.
Fairness ==
  /\ WF_vars(DeviceFinish)
  /\ \A w \in Workers : []<> Stuck(w) \/ []<> <<Worker(w)>>_vars
  /\ WF_vars(TryNext) /\ WF_vars(StepBegun) /\ WF_vars(Destroying)

FairSpec == Spec /\ Fairness

----------------------------------------------------------------------------
(* Properties.                                                             *)

\* Every variable stays in its range; and whoever asks for a batch is promised
\* a free one: requests and batches that are not free never outnumber the
\* batches.
TypeOK ==
  /\ use \in [Buffers -> Ring!Use]
  /\ state \in [Slot -> BatchState] /\ seq \in [Slot -> Nat]
  /\ data \in [Slot -> Buffers \cup {NoBuffer}]
  /\ ids \in [Slot -> [epoch : Nat, first : 0 .. SamplesPerEpoch - BatchSize, samples : SUBSET Nat]]
  /\ Queued \in requested .. NSlots /\ requested \in Nat /\ nextSeq \in Nat /\ deliverSeq \in 0 .. nextSeq
  /\ epoch \in Nat /\ inEpoch \in 0 .. SamplesPerEpoch
  /\ workerStatus \in {"OK", "ERROR"} /\ stop \in BOOLEAN
  /\ wpc \in [Workers -> WorkerPC] /\ wslot \in [Workers -> Slot]
  /\ cpc \in ConsumerPC

\* A worker never sleeps on data_cv: with no other user of the ring there is
\* always a slot it may have, at the latest when the device finishes.
NeverStarved ==
  (\E w \in Workers : wpc[w] = "acquire") => \E b \in Buffers : use[b] \in {"free", "device", "done"}

\* A batch that has a data slot has it alone, and the ring agrees on what the
\* batch is doing with it; a free batch has none.
BindingSound ==
  /\ \A s \in Slot :
       /\ state[s] \in {"READY", "IN_USE"} => data[s] # NoBuffer /\ use[data[s]] = "full"
       /\ state[s] = "IN_STEP" => data[s] # NoBuffer /\ use[data[s]] = "step"
       /\ state[s] = "FREE" => data[s] = NoBuffer
  /\ \A r, s \in Slot : r # s /\ data[r] # NoBuffer /\ state[r] # "RETIRED" /\ state[s] # "RETIRED"
                        => data[r] # data[s]

\* Whatever order the workers end in, batch k holds the samples of the k-th
\* batch of the run: the next full batch of its epoch, with no sample skipped
\* or repeated before the epoch's full batches are over.
SamplesInOrder ==
  \A s \in Slot \ InState("FREE") :
    state[s] \in {"FILLING", "READY"} =>
      /\ ids[s].epoch = seq[s] \div StepsPerEpoch
      /\ ids[s].first = (seq[s] % StepsPerEpoch) * BatchSize

\* However the sampler permutes them, a batch has BatchSize samples of the
\* dataset, and no two batches of an epoch have one in common.
EpochOnce ==
  LET there == Slot \ InState("FREE") IN
  /\ \A s \in there : ids[s].samples \subseteq 0 .. NumSamples - 1 /\ Cardinality(ids[s].samples) = BatchSize
  /\ \A r, s \in there : r # s /\ ids[r].epoch = ids[s].epoch => ids[r].samples \cap ids[s].samples = {}

\* Between delivered and assigned no batch is missing and none is there
\* twice, unless a fill has failed.
NothingLost ==
  LET coming == InState("FILLING") \cup InState("READY") IN
  cpc \notin {"destroying", "gone"} =>
    /\ \A r, s \in coming : r # s => seq[r] # seq[s]
    /\ workerStatus = "OK" => {seq[s] : s \in coming} = deliverSeq .. nextSeq - 1

\* A destroyed loader leaves no data slot leased to the host.
DestroyGivesBack == cpc = "gone" => \A b \in Buffers : use[b] \in {"free", "device", "done"}

\* gd_dataloader_next returns, with a batch or an error.
NextReturns == cpc \in {"next", "waiting"} ~> cpc = "idle"

\* gd_dataloader_destroy returns: no worker is left asleep.
DestroyReturns == cpc = "joining" ~> cpc = "gone"
=============================================================================
