---------------------------- MODULE StepContext ----------------------------
(***************************************************************************)
(* The step machinery of a gd_context (src/src/core/memory.c): the table   *)
(* of backend fences, the scratch ring, the data ring that loader threads  *)
(* fill while the device works, and gd_begin_step / gd_end_step.           *)
(*                                                                         *)
(* Threads are Main, which opens and closes steps, and Workers, which      *)
(* fill data slots.  Each action is one critical section of data_mutex or  *)
(* backend_mutex, or one stretch of code that touches only what its own    *)
(* thread owns.  backend_mutex is explicit because gd_backend_wait_until   *)
(* holds it while it waits for the device; data_mutex is never held across *)
(* a wait, so a critical section of it is a single step.                   *)
(***************************************************************************)
EXTENDS Integers, FiniteSets

CONSTANTS
  Workers,        \* threads that fill data slots
  Main,           \* the thread that runs steps
  NoThread,       \* backend_mutex is free
  ScratchSlots,   \* scratch.n_slots
  DataSlots,      \* data.n_slots
  MaxPending,     \* GD_MAX_PENDING_FENCES
  MaxGeneration,  \* of each data slot, the last generation before its counter wraps to 1
  MaxFence,       \* bound: steps the model begins
  EmptySteps      \* Main also opens steps on gd_batch_empty()

ASSUME StepContextAssumption ==
  /\ Main \notin Workers
  /\ NoThread \notin Workers \cup {Main}
  /\ ScratchSlots \in Nat \ {0}
  /\ DataSlots \in Nat \ {0}
  /\ MaxPending \in Nat
  /\ ScratchSlots < MaxPending        \* GD_MAX_RING_SLOTS is 64, the table 1024
  /\ MaxFence \in Nat
  /\ EmptySteps \in BOOLEAN

ASSUME GenerationAssumption == MaxGeneration \in [0 .. DataSlots - 1 -> Nat \ {0}]

VARIABLES
  \* ctx->backend and backend_mutex
  nextFence, completedFence, pending, backendOwner,
  \* the device: command buffers it has not finished, the last it finished,
  \* and those that finished with an error
  inFlight, gpuDone, failed,
  \* ctx->scratch, and the attempt counter of gd_ring_select
  scratchFence, scratchCurrent, probe,
  \* ctx->data
  slotState, slotFence, slotGen,
  \* per thread: where it is, the slot it holds, the fence it waits for
  pc, lease, wait,
  \* leases published by workers and not yet taken by Main
  ready,
  \* Main's step runs on gd_batch_empty()
  emptyBatch

fenceVars   == <<nextFence, completedFence, pending, backendOwner>>
deviceVars  == <<inFlight, gpuDone, failed>>
scratchVars == <<scratchFence, scratchCurrent, probe>>
dataVars    == <<slotState, slotFence, slotGen>>
vars == <<fenceVars, deviceVars, scratchVars, dataVars,
          pc, lease, wait, ready, emptyBatch>>

----------------------------------------------------------------------------
Thread      == Workers \cup {Main}
ScratchSlot == 0 .. ScratchSlots - 1
DataSlot    == 0 .. DataSlots - 1
Generation  == Nat \ {0}
SlotState   == {"FREE", "FILLING", "READY", "IN_STEP", "RETIRED"}

Lease   == [slot : DataSlot, gen : Generation]
NoLease == [slot |-> -1, gen |-> 0]

\* A committed command buffer and the two slots it works on.
Job == [seq : Nat, scratch : ScratchSlot, data : DataSlot]

\* gd_backend_wait_until is called from four places; "then" is where its
\* caller goes on, and Unwind where the caller goes when it returns an error
\* (mutant: a slot acquisition tries again instead).
Wait   == [fence : Nat, slot : Nat, then : {"recheck", "reuse", "copy", "synced"}]
NoWait == [fence |-> 0, slot |-> 0, then |-> "recheck"]
UnwindRetrying == [recheck |-> "scan", reuse |-> "rollback", copy |-> "ended", synced |-> "idle"]
Unwind == [recheck |-> "idle", reuse |-> "rollback", copy |-> "ended", synced |-> "idle"]

PC == {"idle", "scan", "sleep", "lock", "hold", "recheck", "fill", "again", "taken",
       "select", "reuse", "begin", "rollback", "open", "retire", "ended",
       "validated", "copy", "synced"}

NextGeneration(d) == IF slotGen[d] = MaxGeneration[d] THEN 1 ELSE slotGen[d] + 1

Init ==
  /\ nextFence = 0 /\ completedFence = 0 /\ pending = {} /\ backendOwner = NoThread
  /\ inFlight = {} /\ gpuDone = 0 /\ failed = {}
  /\ scratchFence = [s \in ScratchSlot |-> 0] /\ scratchCurrent = -1 /\ probe = 0
  /\ slotState = [d \in DataSlot |-> "FREE"]
  /\ slotFence = [d \in DataSlot |-> 0]
  /\ slotGen = [d \in DataSlot |-> 1]
  /\ pc = [t \in Thread |-> "idle"]
  /\ lease = [t \in Thread |-> NoLease]
  /\ wait = [t \in Thread |-> NoWait]
  /\ ready = {} /\ emptyBatch = FALSE

Goto(t, there) == pc' = [pc EXCEPT ![t] = there]

\* Mutant: the broadcast is forgotten.
BroadcastNobody(t, there) == Goto(t, there)

\* pthread_cond_broadcast(&ctx->data_cv) by t, which goes on at "there".
BroadcastGoto(t, there) ==
  pc' = [u \in Thread |-> IF u = t THEN there
                          ELSE IF pc[u] = "sleep" THEN "scan" ELSE pc[u]]

----------------------------------------------------------------------------
(* Fences.                                                                 *)

\* Mutants: released never, and released whether or not it is complete.
ReleaseNone(q) == pending
ReleaseAll(q) == {}

\* gd_pending_release_completed after completedFence has become q.
ReleaseCompleted(q) == {p \in pending : p > q}

\* Their fence objects go with them, and so does what they say of errors.
ReleaseFailed(q) == {p \in failed : p > q}

\* Mutants: a fence one ahead of the completed one passes for complete, and a
\* recorded fence passes for complete.
FenceIsNearlyComplete(q) == q <= completedFence + 1
FenceIsRecorded(q) == q <= completedFence \/ q \in pending

\* What one poll of the backend says of fence q.
FenceIsComplete(q) ==
  \/ q <= completedFence
  \/ q \in pending /\ q <= gpuDone /\ q \notin failed

\* gd_fence_sequence_is_complete: a fence found complete also completes
\* every earlier one.
NoteComplete(q) ==
  /\ completedFence' = IF q > completedFence THEN q ELSE completedFence
  /\ pending' = IF q > completedFence THEN ReleaseCompleted(q) ELSE pending
  /\ failed' = IF q > completedFence THEN ReleaseFailed(q) ELSE failed

\* A thread enters gd_backend_wait_until.
StartWait(t, w) == wait' = [wait EXCEPT ![t] = w] /\ Goto(t, "lock")
WaitOver(t) == wait' = [wait EXCEPT ![t] = NoWait]

WaitLock(t) ==
  /\ pc[t] = "lock" /\ backendOwner = NoThread
  /\ LET q == wait[t].fence IN
       IF q <= completedFence THEN Goto(t, wait[t].then) /\ UNCHANGED <<backendOwner, wait>>
       ELSE IF q \notin pending THEN Goto(t, Unwind[wait[t].then]) /\ WaitOver(t) /\ UNCHANGED backendOwner
       ELSE Goto(t, "hold") /\ backendOwner' = t /\ UNCHANGED wait
  /\ UNCHANGED <<nextFence, completedFence, pending, deviceVars, scratchVars, dataVars,
                 lease, ready, emptyBatch>>

WaitDone(t) ==
  /\ pc[t] = "hold" /\ wait[t].fence <= gpuDone
  /\ backendOwner' = NoThread
  /\ \/ /\ wait[t].fence \notin failed
        /\ completedFence' = wait[t].fence
        /\ pending' = ReleaseCompleted(wait[t].fence)
        /\ failed' = ReleaseFailed(wait[t].fence)
        /\ Goto(t, wait[t].then) /\ UNCHANGED wait
     \/ /\ wait[t].fence \in failed
        /\ Goto(t, Unwind[wait[t].then]) /\ WaitOver(t)
        /\ UNCHANGED <<completedFence, pending, failed>>
  /\ UNCHANGED <<nextFence, inFlight, gpuDone, scratchVars, dataVars, lease, ready, emptyBatch>>

----------------------------------------------------------------------------
(* The data ring, used by workers and by Main for an empty batch.          *)

\* The slot a scan in index order finds first in state st, if any.
First(st) == {d \in DataSlot : slotState[d] = st /\ \A e \in DataSlot : e < d => slotState[e] # st}

\* Mutant: whoever names the slot has it.
HoldsAnyGeneration(l, states) == l.slot \in DataSlot /\ slotState[l.slot] \in states

Holds(l, states) == l.slot \in DataSlot /\ slotGen[l.slot] = l.gen /\ slotState[l.slot] \in states

StartFill(w) ==
  /\ pc[w] = "idle" /\ Goto(w, "scan")
  /\ UNCHANGED <<fenceVars, deviceVars, scratchVars, dataVars, lease, wait, ready, emptyBatch>>

\* Bound: while a thread is between the two aborts of a failed fill, its slot
\* does not go once round all the generations there are, 2^64 in the code.
NotLapped(l) == \A u \in Thread : pc[u] = "again" => lease[u] # l

\* gd_context_data_slot_acquire: the first FREE slot is reset and taken; with
\* none, wait for the fence of the first RETIRED one; with neither, sleep.
AcquireFree(t) ==
  /\ pc[t] = "scan"
  /\ \E d \in First("FREE") :
       /\ slotGen' = [slotGen EXCEPT ![d] = NextGeneration(d)]
       /\ slotFence' = [slotFence EXCEPT ![d] = 0]
       /\ slotState' = [slotState EXCEPT ![d] = "FILLING"]
       /\ NotLapped([slot |-> d, gen |-> NextGeneration(d)])
       /\ lease' = [lease EXCEPT ![t] = [slot |-> d, gen |-> NextGeneration(d)]]
  /\ Goto(t, "fill")
  /\ UNCHANGED <<fenceVars, deviceVars, scratchVars, wait, ready, emptyBatch>>

AcquireRetired(t) ==
  /\ pc[t] = "scan" /\ First("FREE") = {}
  /\ \E d \in First("RETIRED") :
       StartWait(t, [fence |-> slotFence[d], slot |-> d, then |-> "recheck"])
  /\ UNCHANGED <<fenceVars, deviceVars, scratchVars, dataVars, lease, ready, emptyBatch>>

AcquireSleep(t) ==
  /\ pc[t] = "scan" /\ First("FREE") = {} /\ First("RETIRED") = {}
  /\ Goto(t, "sleep")
  /\ UNCHANGED <<fenceVars, deviceVars, scratchVars, dataVars, lease, wait, ready, emptyBatch>>

\* Mutant: the slot is freed without looking at it again.
AcquireUnchecked(t) ==
  /\ pc[t] = "recheck"
  /\ slotState' = [slotState EXCEPT ![wait[t].slot] = "FREE"]
  /\ slotFence' = [slotFence EXCEPT ![wait[t].slot] = 0]
  /\ BroadcastGoto(t, "scan") /\ WaitOver(t)
  /\ UNCHANGED <<fenceVars, deviceVars, scratchVars, slotGen, lease, ready, emptyBatch>>

\* Back under data_mutex after the wait: free the slot if it is still the
\* retirement that was waited for, and scan again either way.
AcquireRecheck(t) ==
  /\ pc[t] = "recheck"
  /\ LET d == wait[t].slot IN
       IF slotState[d] = "RETIRED" /\ slotFence[d] = wait[t].fence
       THEN /\ slotState' = [slotState EXCEPT ![d] = "FREE"]
            /\ slotFence' = [slotFence EXCEPT ![d] = 0]
            /\ BroadcastGoto(t, "scan")
       ELSE Goto(t, "scan") /\ UNCHANGED <<slotState, slotFence>>
  /\ WaitOver(t)
  /\ UNCHANGED <<fenceVars, deviceVars, scratchVars, slotGen, lease, ready, emptyBatch>>

\* gd_context_data_slot_publish, then the lease is the batch's: a worker
\* leaves it to Main, an empty batch goes straight on to begin its step.
PublishSlot(t) ==
  /\ pc[t] = "fill" /\ Holds(lease[t], {"FILLING"})
  /\ slotState' = [slotState EXCEPT ![lease[t].slot] = "READY"]
  /\ BroadcastGoto(t, IF t = Main THEN "taken" ELSE "idle")
  /\ ready' = IF t = Main THEN ready ELSE ready \cup {lease[t]}
  /\ lease' = IF t = Main THEN lease ELSE [lease EXCEPT ![t] = NoLease]
  /\ UNCHANGED <<fenceVars, deviceVars, scratchVars, slotFence, slotGen, wait, emptyBatch>>

\* gd_context_data_slot_abort: a slot that is no longer the caller's, or
\* that a step has taken, is left alone.  t goes on at "there" and keeps l.
AbortSlot(t, there, l) ==
  /\ IF Holds(lease[t], {"FILLING", "READY"})
     THEN /\ slotState' = [slotState EXCEPT ![lease[t].slot] = "FREE"]
          /\ slotFence' = [slotFence EXCEPT ![lease[t].slot] = 0]
          /\ BroadcastGoto(t, there)
     ELSE Goto(t, there) /\ UNCHANGED <<slotState, slotFence>>
  /\ lease' = [lease EXCEPT ![t] = l]
  /\ UNCHANGED <<fenceVars, deviceVars, scratchVars, slotGen, wait, ready>>

\* A fill that fails after it has its slot (no room, bad field) aborts it, and
\* then aborts it again, for gd_batch_clear_data_binding finds the batch still
\* FILLING with that slot: by then it may be another thread's.
AbortFill(w) == pc[w] = "fill" /\ AbortSlot(w, "again", lease[w]) /\ UNCHANGED emptyBatch
AbortAgain(w) == pc[w] = "again" /\ AbortSlot(w, "idle", NoLease) /\ UNCHANGED emptyBatch

----------------------------------------------------------------------------
(* Steps.                                                                  *)

\* Main is handed a loaded batch (gd_dataloader_next) ...
TakeBatch ==
  /\ pc[Main] = "idle"
  /\ \E l \in ready :
       ready' = ready \ {l} /\ lease' = [lease EXCEPT ![Main] = l]
  /\ emptyBatch' = FALSE /\ Goto(Main, "taken")
  /\ UNCHANGED <<fenceVars, deviceVars, scratchVars, dataVars, wait>>

\* ... gives it back unused (gd_dataloader_release of an IN_USE batch) ...
ReleaseUnused == pc[Main] = "taken" /\ ~emptyBatch /\ AbortSlot(Main, "idle", NoLease) /\ UNCHANGED emptyBatch

\* ... or begins a step with no batch: gd_begin_step acquires a slot itself.
BeginEmpty ==
  /\ EmptySteps /\ nextFence < MaxFence
  /\ pc[Main] = "idle" /\ Goto(Main, "scan") /\ emptyBatch' = TRUE
  /\ UNCHANGED <<fenceVars, deviceVars, scratchVars, dataVars, lease, wait, ready>>

\* gd_context_begin_on_data_slot, which hands over to gd_ring_select.
BeginOnDataSlot ==
  /\ pc[Main] = "taken" /\ nextFence < MaxFence
  /\ Holds(lease[Main], {"READY"})
  /\ slotState' = [slotState EXCEPT ![lease[Main].slot] = "IN_STEP"]
  /\ Goto(Main, "select")
  /\ UNCHANGED <<fenceVars, deviceVars, scratchVars, slotFence, slotGen,
                 lease, wait, ready, emptyBatch>>

TakeScratch(s) ==
  /\ scratchCurrent' = s
  /\ scratchFence' = [scratchFence EXCEPT ![s] = 0]
  /\ probe' = 0 /\ Goto(Main, "begin")

\* gd_ring_select polls the slots in ring order from the one after current,
\* locking backend_mutex for each poll.
PollScratch ==
  /\ pc[Main] = "select" /\ probe < ScratchSlots /\ backendOwner = NoThread
  /\ LET s == (scratchCurrent + 1 + probe) % ScratchSlots IN
       IF FenceIsComplete(scratchFence[s])
       THEN TakeScratch(s) /\ NoteComplete(scratchFence[s])
       ELSE probe' = probe + 1 /\ UNCHANGED <<scratchCurrent, scratchFence, completedFence, pending, failed, pc>>
  /\ UNCHANGED <<nextFence, backendOwner, inFlight, gpuDone, dataVars, lease, wait, ready, emptyBatch>>

\* gd_ring_oldest_busy_slot, when every slot was busy at its poll.
WaitOldestScratch ==
  /\ pc[Main] = "select" /\ probe = ScratchSlots
  /\ \E s \in ScratchSlot :
       /\ scratchFence[s] # 0
       /\ \A r \in ScratchSlot : scratchFence[r] # 0 => scratchFence[s] <= scratchFence[r]
       /\ StartWait(Main, [fence |-> scratchFence[s], slot |-> s, then |-> "reuse"])
  /\ probe' = 0
  /\ UNCHANGED <<fenceVars, deviceVars, scratchFence, scratchCurrent, dataVars, lease, ready, emptyBatch>>

ReuseScratch ==
  /\ pc[Main] = "reuse" /\ TakeScratch(wait[Main].slot) /\ WaitOver(Main)
  /\ UNCHANGED <<fenceVars, deviceVars, dataVars, lease, ready, emptyBatch>>

\* gd_backend_scope_begin opens the command buffer, or fails.
ScopeBegin ==
  /\ pc[Main] = "begin"
  /\ \/ Goto(Main, "open")
     \/ Goto(Main, "rollback")
  /\ UNCHANGED <<fenceVars, deviceVars, scratchVars, dataVars, lease, wait, ready, emptyBatch>>

\* gd_context_rollback_data_begin: the slot is READY again, or FREE if the
\* batch was empty.
RollbackBegin ==
  /\ pc[Main] = "rollback"
  /\ slotState' = [slotState EXCEPT ![lease[Main].slot] = IF emptyBatch THEN "FREE" ELSE "READY"]
  /\ BroadcastGoto(Main, IF emptyBatch THEN "idle" ELSE "taken")
  /\ lease' = IF emptyBatch THEN [lease EXCEPT ![Main] = NoLease] ELSE lease
  /\ UNCHANGED <<fenceVars, deviceVars, scratchVars, slotFence, slotGen, wait, ready, emptyBatch>>

\* gd_end_step: gd_backend_record commits the command buffer, and Main, whose
\* the scratch ring is, stamps the current slot.
RecordFence ==
  /\ pc[Main] = "open" /\ backendOwner = NoThread
  /\ LET q == nextFence + 1
         kept == ReleaseCompleted(completedFence)
     IN /\ Cardinality(kept) < MaxPending      \* else "pending fence table full"
        /\ nextFence' = q
        /\ pending' = kept \cup {q}
        /\ inFlight' = inFlight \cup {[seq |-> q, scratch |-> scratchCurrent, data |-> lease[Main].slot]}
        /\ scratchFence' = [scratchFence EXCEPT ![scratchCurrent] = q]
  /\ Goto(Main, "retire")
  /\ UNCHANGED <<completedFence, backendOwner, gpuDone, failed, scratchCurrent, probe, dataVars,
                 lease, wait, ready, emptyBatch>>

\* ... and, under data_mutex, retires the step's data slot.
RetireSlot ==
  /\ pc[Main] = "retire"
  /\ slotState' = [slotState EXCEPT ![lease[Main].slot] = "RETIRED"]
  /\ slotFence' = [slotFence EXCEPT ![lease[Main].slot] = nextFence]
  /\ BroadcastGoto(Main, IF emptyBatch THEN "idle" ELSE "ended")
  /\ lease' = IF emptyBatch THEN [lease EXCEPT ![Main] = NoLease] ELSE lease
  /\ UNCHANGED <<fenceVars, deviceVars, scratchVars, slotGen, wait, ready, emptyBatch>>

----------------------------------------------------------------------------
(* After the step Main still has the batch until it releases it.           *)

ReleaseRetired ==
  /\ pc[Main] = "ended" /\ Goto(Main, "idle")
  /\ lease' = [lease EXCEPT ![Main] = NoLease]
  /\ UNCHANGED <<fenceVars, deviceVars, scratchVars, dataVars, wait, ready, emptyBatch>>

\* gd_span_download of a tensor of that batch: the span must be live ...
DownloadValidate ==
  /\ pc[Main] = "ended" /\ slotGen[lease[Main].slot] = lease[Main].gen
  /\ Goto(Main, "validated")
  /\ UNCHANGED <<fenceVars, deviceVars, scratchVars, dataVars, lease, wait, ready, emptyBatch>>

\* ... then gd_context_wait_for_span reads the fence of its slot, without
\* data_mutex, and waits for it unless it is 0 or complete ...
DownloadWait ==
  /\ pc[Main] = "validated" /\ backendOwner = NoThread
  /\ LET q == slotFence[lease[Main].slot] IN
       IF FenceIsComplete(q)
       THEN NoteComplete(q) /\ Goto(Main, "copy") /\ UNCHANGED wait
       ELSE /\ StartWait(Main, [fence |-> q, slot |-> lease[Main].slot, then |-> "copy"])
            /\ UNCHANGED <<completedFence, pending, failed>>
  /\ UNCHANGED <<nextFence, backendOwner, inFlight, gpuDone, scratchVars, dataVars, lease, ready, emptyBatch>>

\* ... and gd_backend_download copies whatever the slot holds by then.
DownloadCopy ==
  /\ pc[Main] = "copy" /\ Goto(Main, "ended") /\ WaitOver(Main)
  /\ UNCHANGED <<fenceVars, deviceVars, scratchVars, dataVars, lease, ready, emptyBatch>>

\* gd_synchronize outside a step waits for the newest fence.
Synchronize ==
  /\ pc[Main] = "idle" /\ backendOwner = NoThread
  /\ IF FenceIsComplete(nextFence)
     THEN NoteComplete(nextFence) /\ Goto(Main, "synced") /\ UNCHANGED wait
     ELSE /\ StartWait(Main, [fence |-> nextFence, slot |-> 0, then |-> "synced"])
          /\ UNCHANGED <<completedFence, pending, failed>>
  /\ UNCHANGED <<nextFence, backendOwner, inFlight, gpuDone, scratchVars, dataVars, lease, ready, emptyBatch>>

SynchronizeReturns ==
  /\ pc[Main] = "synced" /\ Goto(Main, "idle") /\ WaitOver(Main)
  /\ UNCHANGED <<fenceVars, deviceVars, scratchVars, dataVars, lease, ready, emptyBatch>>

----------------------------------------------------------------------------
\* The device runs its queue in order; a command buffer may end in an error.
GpuFinish ==
  /\ gpuDone < nextFence
  /\ gpuDone' = gpuDone + 1
  /\ inFlight' = {j \in inFlight : j.seq > gpuDone + 1}
  /\ \/ UNCHANGED failed
     \/ failed' = failed \cup {gpuDone + 1}
  /\ UNCHANGED <<fenceVars, scratchVars, dataVars, pc, lease, wait, ready, emptyBatch>>

Acquire(t) == AcquireFree(t) \/ AcquireRetired(t) \/ AcquireSleep(t) \/ AcquireRecheck(t)
WaitUntil(t) == WaitLock(t) \/ WaitDone(t)

Fill(w) == Acquire(w) \/ WaitUntil(w) \/ PublishSlot(w) \/ AbortFill(w) \/ AbortAgain(w)

BeginStep == BeginOnDataSlot \/ PollScratch \/ WaitOldestScratch \/ ReuseScratch \/ ScopeBegin \/ RollbackBegin
EndStep   == RecordFence \/ RetireSlot
Download  == DownloadValidate \/ DownloadWait \/ DownloadCopy

MainNext ==
  \/ TakeBatch \/ ReleaseUnused \/ ReleaseRetired
  \/ BeginEmpty \/ Acquire(Main) \/ WaitUntil(Main) \/ PublishSlot(Main)
  \/ BeginStep \/ EndStep \/ Download
  \/ Synchronize \/ SynchronizeReturns

Next ==
  \/ MainNext
  \/ \E w \in Workers : StartFill(w) \/ Fill(w)
  \/ GpuFinish

Spec == Init /\ [][Next]_vars

\* The device never stops, and a thread inside a call goes on with it: strong
\* fairness, since it must sometimes win backend_mutex from another.  When to
\* make a call is the caller's choice and carries no fairness.
MainInCall ==
  \/ Acquire(Main) \/ WaitUntil(Main) \/ PublishSlot(Main)
  \/ PollScratch \/ WaitOldestScratch \/ ReuseScratch \/ ScopeBegin \/ RollbackBegin
  \/ RetireSlot \/ DownloadWait \/ DownloadCopy \/ SynchronizeReturns

Fairness ==
  /\ WF_vars(GpuFinish)
  /\ SF_vars(MainInCall)
  /\ \A w \in Workers : SF_vars(Fill(w))

FairSpec == Spec /\ Fairness

----------------------------------------------------------------------------
(* Properties.                                                             *)

\* Every variable stays in its range.
TypeOK ==
  /\ nextFence \in Nat /\ completedFence \in Nat /\ pending \subseteq Nat
  /\ backendOwner \in Thread \cup {NoThread}
  /\ inFlight \subseteq Job
  /\ gpuDone \in Nat /\ failed \subseteq Nat
  /\ scratchFence \in [ScratchSlot -> Nat]
  /\ scratchCurrent \in ScratchSlot \cup {-1}
  /\ probe \in 0 .. ScratchSlots
  /\ slotState \in [DataSlot -> SlotState]
  /\ slotFence \in [DataSlot -> Nat]
  /\ slotGen \in [DataSlot -> Generation]
  /\ pc \in [Thread -> PC]
  /\ lease \in [Thread -> Lease \cup {NoLease}]
  /\ wait \in [Thread -> Wait]
  /\ ready \subseteq Lease
  /\ emptyBatch \in BOOLEAN

\* Nothing a command buffer of the device still uses is given away: its data
\* slot is neither free nor being filled nor published again, and the open
\* step does not allocate from its scratch slot.
DeviceKeepsBuffers ==
  \A j \in inFlight :
    /\ slotState[j.data] \in {"IN_STEP", "RETIRED"}
    /\ pc[Main] \in {"begin", "open"} => scratchCurrent # j.scratch

\* gd_pending_add never finds the table full: every fence not yet seen
\* complete is the fence of some scratch slot, so there are never more
\* of them than scratch slots.
PendingBounded == Cardinality(pending) <= ScratchSlots

\* gd_backend_wait_until never reports "missing backend fence": a fence read
\* from a slot stays known however long its reader is preempted.
WaitedFenceIsKnown ==
  \A t \in Thread : pc[t] \in {"lock", "hold"} =>
    wait[t].fence <= completedFence \/ wait[t].fence \in pending

\* No thread sleeps on data_cv while a slot it could take exists.
NoLostWakeup ==
  (\E t \in Thread : pc[t] = "sleep") => \A d \in DataSlot : slotState[d] \notin {"FREE", "RETIRED"}

\* A slot has one user: whoever fills a slot, and every published batch, has
\* it alone and under its present generation.
Leases == ready \cup {lease[t] : t \in {u \in Thread : pc[u] \in {"fill", "taken"}}}

LeaseIsExclusive ==
  /\ \A l \in Leases : Holds(l, {"FILLING", "READY"})
  /\ \A t, u \in Thread : t # u /\ pc[t] \in {"fill", "taken"} /\ pc[u] \in {"fill", "taken"}
                            => lease[t].slot # lease[u].slot
  /\ \A t \in Thread : pc[t] \in {"fill", "taken"} => lease[t] \notin ready

\* gd_span_download copies bytes of the batch whose span it has validated.
DownloadReadsOwnBatch == pc[Main] = "copy" => slotGen[lease[Main].slot] = lease[Main].gen

\* When gd_synchronize returns GD_OK the device has nothing left to do.
SynchronizeDrains == pc[Main] = "synced" => inFlight = {}

\* completed_fence is written from two threads and never goes back.
CompletedNeverDecreases == [][completedFence' >= completedFence]_vars

\* Every call returns, or sleeps on data_cv: no wait for the device, for
\* backend_mutex or for a scratch slot goes on for ever.
AtRest == {"idle", "taken", "open", "ended", "sleep"}
CallsReturn == \A t \in Thread : pc[t] \notin AtRest ~> pc[t] \in AtRest

\* The data ring implements DeviceLease.
UseOf(d) ==
  LET device == IF \E j \in inFlight : j.data = d THEN "device" ELSE "done" IN
  CASE slotState[d] = "FREE"    -> "free"
    [] slotState[d] = "FILLING" -> "host"
    [] slotState[d] = "READY"   -> "full"
    [] slotState[d] = "IN_STEP" -> IF pc[Main] = "retire" THEN device ELSE "step"
    [] OTHER                    -> device

Abstract == INSTANCE DeviceLease WITH Buffer <- DataSlot, use <- [d \in DataSlot |-> UseOf(d)]

LeaseSpec == Abstract!Spec
============================================================================
