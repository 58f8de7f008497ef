------------------------- MODULE StepContext_proofs -------------------------
(***************************************************************************)
(* Theorems about StepContext, for every number of workers and slots.      *)
(*                                                                         *)
(* The inductive invariant is built in layers, each proved from the ones   *)
(* before it: Typed (types and control), Fenced (the fence table and what  *)
(* threads wait for), Buffered (which fence guards which buffer),          *)
(* PendingIsScratch (why the table is never full), Leased (who has which   *)
(* slot) with Settled (what the second abort of a failed fill finds).  The  *)
(* safety properties of StepContext then follow from them.                 *)
(***************************************************************************)
EXTENDS StepContext, FiniteSetTheorems, WellFoundedInduction, TLAPS

\* Where a thread is, a wait for a fence counted to the code it returns to.
Phase(t) == IF pc[t] \in {"lock", "hold"} THEN wait[t].then ELSE pc[t]

\* Main has a data slot; Main's step has it.
StepPhases  == {"select", "reuse", "begin", "rollback", "open", "retire"}
OwnerPhases == StepPhases \cup {"fill", "taken", "ended", "validated", "copy"}

\* Layer 1: types, and which parts of the control state go together.
Control ==
  /\ \A w \in Workers : /\ Phase(w) \in {"idle", "scan", "sleep", "recheck", "fill", "again"}
                        /\ wait[w].then = "recheck"
  /\ \A t \in Thread : pc[t] \in {"recheck", "reuse"} => wait[t].then = pc[t]
  /\ \A t \in Thread : pc[t] \notin {"lock", "hold", "recheck", "reuse", "copy", "synced"}
                       => wait[t] = NoWait
  /\ wait[Main].then = "reuse" => wait[Main].slot \in ScratchSlot
  /\ Phase(Main) \in OwnerPhases => lease[Main] \in Lease
  /\ pc[Main] \in {"begin", "open", "retire"} => scratchCurrent \in ScratchSlot
  /\ \A t \in Thread : pc[t] \in {"fill", "again"} => lease[t] \in Lease

Typed == TypeOK /\ Control

\* Layer 2: the fence table holds exactly the fences not yet noted complete.
Fenced ==
  /\ completedFence <= gpuDone /\ gpuDone <= nextFence
  /\ pending = completedFence + 1 .. nextFence
  /\ \A j \in inFlight : gpuDone < j.seq /\ j.seq <= nextFence
  /\ \A s \in ScratchSlot : scratchFence[s] <= nextFence
  /\ \A d \in DataSlot : slotFence[d] <= nextFence
  /\ \A t \in Thread :
       /\ wait[t].fence <= nextFence
       /\ pc[t] = "hold" <=> backendOwner = t
       /\ pc[t] = "hold" => completedFence < wait[t].fence
       /\ pc[t] \notin {"lock", "hold"} => wait[t].fence <= completedFence
  /\ Phase(Main) = "synced" /\ pc[Main] # "synced" => wait[Main].fence = nextFence
  /\ pc[Main] = "synced" => nextFence <= completedFence

\* Layer 3: the fence of a command buffer guards both its buffers.
Buffered ==
  /\ \A j \in inFlight :
       /\ scratchFence[j.scratch] = j.seq
       /\ \/ slotState[j.data] = "RETIRED" /\ slotFence[j.data] = j.seq
          \/ pc[Main] = "retire" /\ lease[Main].slot = j.data /\ j.seq = nextFence
  /\ Phase(Main) \in StepPhases => slotState[lease[Main].slot] = "IN_STEP"
  /\ pc[Main] \in {"begin", "open"} => scratchFence[scratchCurrent] = 0
  /\ Phase(Main) = "reuse" => scratchFence[wait[Main].slot] = wait[Main].fence

\* Layer 4: every fence the table still holds is the fence of a scratch slot.
PendingIsScratch == \A p \in pending : \E s \in ScratchSlot : scratchFence[s] = p

\* Layer 5: leases.
Leased ==
  /\ \A t \in Thread : pc[t] = "fill" => Holds(lease[t], {"FILLING"})
  /\ pc[Main] = "taken" => Holds(lease[Main], {"READY"})
  /\ \A l \in ready : Holds(l, {"READY"})
  /\ \A t, u \in Thread : t # u /\ pc[t] = "fill" /\ pc[u] = "fill" => lease[t].slot # lease[u].slot
  /\ pc[Main] = "taken" => lease[Main] \notin ready
  /\ Phase(Main) \in StepPhases => Holds(lease[Main], {"IN_STEP"})

\* After the first abort of a failed fill its slot is free, or somebody has taken
\* it since under another generation: the second abort finds nothing to free.
Settled ==
  \A t \in Thread : pc[t] = "again" => \/ slotState[lease[t].slot] = "FREE"
                                       \/ slotGen[lease[t].slot] # lease[t].gen

----------------------------------------------------------------------------

\* The slot gd_ring_select probes next exists, whatever current and the attempt
\* counter are.
LEMMA ProbeInRange ==
  ASSUME TypeOK PROVE (scratchCurrent + 1 + probe) % ScratchSlots \in ScratchSlot
BY StepContextAssumption DEF TypeOK, ScratchSlot

\* Layer 1, first half: no step takes a variable out of its range.
LEMMA TypeOKNext == Typed /\ [Next]_vars => TypeOK'
<1> SUFFICES ASSUME Typed, [Next]_vars PROVE TypeOK' OBVIOUS
<1> USE StepContextAssumption DEF Typed, TypeOK, Thread, PC, Goto, fenceVars, deviceVars, scratchVars, dataVars
<1>a. NoWait \in Wait BY DEF NoWait, Wait
<1>b. \A t \in Thread : /\ wait[t].fence \in Nat /\ wait[t].then \in PC
                        /\ Unwind[wait[t].then] \in PC
  BY DEF Wait, Unwind
<1>c. ASSUME NEW q \in Nat, NoteComplete(q)
      PROVE  completedFence' \in Nat /\ pending' \subseteq Nat /\ failed' \subseteq Nat
  BY <1>c DEF NoteComplete, ReleaseCompleted, ReleaseFailed
<1>d. ASSUME NEW t \in Thread, NEW there \in PC, BroadcastGoto(t, there)
      PROVE  pc' \in [Thread -> PC]
  BY <1>d DEF BroadcastGoto
<1>e. ASSUME NEW t \in Thread, NEW w \in Wait, StartWait(t, w)
      PROVE  pc' \in [Thread -> PC] /\ wait' \in [Thread -> Wait]
  BY <1>e DEF StartWait
<1>f. ASSUME NEW t \in Thread, WaitOver(t) PROVE wait' \in [Thread -> Wait]
  BY <1>a, <1>f DEF WaitOver
<1>g. {"FREE", "FILLING", "READY", "IN_STEP", "RETIRED"} \subseteq SlotState BY DEF SlotState
<1>h. ASSUME NEW s \in ScratchSlot, TakeScratch(s)
      PROVE  /\ scratchFence' \in [ScratchSlot -> Nat]
             /\ scratchCurrent' \in ScratchSlot
             /\ probe' \in 0 .. ScratchSlots
             /\ pc' \in [Thread -> PC]
  BY <1>h DEF TakeScratch
<1>i. ASSUME NEW t \in Thread, NEW there \in PC, NEW l \in Lease \cup {NoLease}, AbortSlot(t, there, l), UNCHANGED emptyBatch
      PROVE  TypeOK'
  <2>1. pc' \in [Thread -> PC] /\ slotState' \in [DataSlot -> SlotState] /\ slotFence' \in [DataSlot -> Nat]
    BY <1>d, <1>g, <1>i DEF AbortSlot
  <2> QED BY <1>i, <2>1 DEF AbortSlot
<1>j. ScratchSlot \subseteq Nat /\ DataSlot \subseteq Nat BY DEF ScratchSlot, DataSlot
<1>1. ASSUME NEW t \in Thread, WaitLock(t) PROVE TypeOK'
  <2>1. pc' \in [Thread -> PC] /\ wait' \in [Thread -> Wait]
    BY <1>b, <1>f, <1>1 DEF WaitLock
  <2> QED BY <1>1, <2>1 DEF WaitLock
<1>2. ASSUME NEW t \in Thread, WaitDone(t) PROVE TypeOK'
  <2>1. pc' \in [Thread -> PC] /\ wait' \in [Thread -> Wait]
    BY <1>b, <1>f, <1>2 DEF WaitDone
  <2>2. completedFence' \in Nat /\ pending' \subseteq Nat /\ failed' \subseteq Nat
    BY <1>b, <1>2 DEF WaitDone, ReleaseCompleted, ReleaseFailed
  <2> QED BY <1>2, <2>1, <2>2 DEF WaitDone
<1>3. ASSUME NEW w \in Workers, StartFill(w) PROVE TypeOK'
  BY <1>3 DEF StartFill
<1>4. ASSUME NEW t \in Thread, AcquireFree(t) PROVE TypeOK'
  <2>1. \A d \in DataSlot : NextGeneration(d) \in Generation BY DEF NextGeneration, Generation
  <2>2. PICK d \in First("FREE") :
          /\ slotGen' = [slotGen EXCEPT ![d] = NextGeneration(d)]
          /\ slotFence' = [slotFence EXCEPT ![d] = 0]
          /\ slotState' = [slotState EXCEPT ![d] = "FILLING"]
          /\ lease' = [lease EXCEPT ![t] = [slot |-> d, gen |-> NextGeneration(d)]]
    BY <1>4 DEF AcquireFree
  <2>3. d \in DataSlot BY DEF First
  <2>4. [slot |-> d, gen |-> NextGeneration(d)] \in Lease BY <2>1, <2>3 DEF Lease
  <2>5. slotGen' \in [DataSlot -> Generation] /\ lease' \in [Thread -> Lease \cup {NoLease}]
    BY <2>1, <2>2, <2>3, <2>4
  <2> QED BY <1>4, <1>g, <2>2, <2>5 DEF AcquireFree
<1>5. ASSUME NEW t \in Thread, AcquireRetired(t) PROVE TypeOK'
  <2>1. pc' \in [Thread -> PC] /\ wait' \in [Thread -> Wait]
    BY <1>5, <1>e, <1>j DEF AcquireRetired, First, Wait
  <2> QED BY <1>5, <2>1 DEF AcquireRetired
<1>6. ASSUME NEW t \in Thread, AcquireSleep(t) PROVE TypeOK'
  BY <1>6 DEF AcquireSleep
<1>7. ASSUME NEW t \in Thread, AcquireRecheck(t) PROVE TypeOK'
  <2>1. pc' \in [Thread -> PC] /\ wait' \in [Thread -> Wait]
    BY <1>7, <1>d, <1>f DEF AcquireRecheck
  <2> QED BY <1>7, <1>g, <2>1 DEF AcquireRecheck
<1>8. ASSUME NEW t \in Thread, PublishSlot(t) PROVE TypeOK'
  <2>1. pc' \in [Thread -> PC] BY <1>8, <1>d DEF PublishSlot
  <2>2. lease[t] \in Lease BY <1>8 DEF PublishSlot, Holds, NoLease, DataSlot
  <2> QED BY <1>8, <1>g, <2>1, <2>2 DEF PublishSlot
<1>9. ASSUME NEW w \in Workers, AbortFill(w) PROVE TypeOK'
  BY <1>9, <1>i DEF AbortFill
<1>10. CASE TakeBatch BY <1>10 DEF TakeBatch
<1>11. CASE ReleaseUnused BY <1>11, <1>i DEF ReleaseUnused
<1>12. CASE BeginEmpty BY <1>12 DEF BeginEmpty
<1>13. CASE BeginOnDataSlot BY <1>13, <1>g DEF BeginOnDataSlot
<1>14. CASE PollScratch
  <2> DEFINE s == (scratchCurrent + 1 + probe) % ScratchSlots
  <2>1. s \in ScratchSlot BY ProbeInRange
  <2>2. scratchFence[s] \in Nat BY <2>1
  <2>3. CASE FenceIsComplete(scratchFence[s]) BY <1>14, <1>c, <1>h, <2>1, <2>2, <2>3 DEF PollScratch
  <2>4. CASE ~FenceIsComplete(scratchFence[s])
    <3>1. probe' = probe + 1 /\ probe < ScratchSlots /\ UNCHANGED <<scratchCurrent, scratchFence, completedFence, pending, failed, pc>>
      BY <1>14, <2>4 DEF PollScratch
    <3>2. probe' \in 0 .. ScratchSlots BY <3>1
    <3> QED BY <1>14, <3>1, <3>2 DEF PollScratch
  <2> QED BY <2>3, <2>4
<1>15. CASE WaitOldestScratch
  <2>1. pc' \in [Thread -> PC] /\ wait' \in [Thread -> Wait]
    BY <1>15, <1>e, <1>j DEF WaitOldestScratch, Wait
  <2> QED BY <1>15, <2>1 DEF WaitOldestScratch
<1>16. CASE ReuseScratch
  <2>1. wait[Main].slot \in ScratchSlot BY <1>16 DEF ReuseScratch, Control
  <2> QED BY <1>16, <1>f, <1>h, <2>1 DEF ReuseScratch
<1>17. CASE ScopeBegin BY <1>17 DEF ScopeBegin
<1>18. CASE RollbackBegin
  <2>1. pc' \in [Thread -> PC] BY <1>18, <1>d DEF RollbackBegin
  <2> QED BY <1>18, <1>g, <2>1 DEF RollbackBegin
<1>19. CASE RecordFence
  <2>1. lease[Main] \in Lease /\ scratchCurrent \in ScratchSlot
    BY <1>19 DEF RecordFence, Control, Phase, OwnerPhases, StepPhases
  <2>2. [seq |-> nextFence + 1, scratch |-> scratchCurrent, data |-> lease[Main].slot] \in Job
    BY <2>1 DEF Lease, Job
  <2>3. pending' = ReleaseCompleted(completedFence) \cup {nextFence + 1} BY <1>19 DEF RecordFence
  <2>4. pending' \subseteq Nat
    <3>1. ReleaseCompleted(completedFence) \subseteq Nat BY DEF ReleaseCompleted
    <3>2. nextFence + 1 \in Nat OBVIOUS
    <3> QED BY ONLY <2>3, <3>1, <3>2
  <2> QED BY <1>19, <2>1, <2>2, <2>4 DEF RecordFence
<1>20. CASE RetireSlot
  <2>1. pc' \in [Thread -> PC] BY <1>20, <1>d DEF RetireSlot
  <2> QED BY <1>20, <1>g, <2>1 DEF RetireSlot
<1>21. CASE ReleaseRetired BY <1>21 DEF ReleaseRetired
<1>22. CASE DownloadValidate BY <1>22 DEF DownloadValidate
<1>23. CASE DownloadWait
  <2> DEFINE d == lease[Main].slot
  <2>1. d \in DataSlot
    BY <1>23 DEF DownloadWait, Control, Phase, OwnerPhases, Lease
  <2>2. slotFence[d] \in Nat BY <2>1
  <2>3. CASE FenceIsComplete(slotFence[d]) BY <1>23, <1>c, <2>2, <2>3 DEF DownloadWait
  <2>4. CASE ~FenceIsComplete(slotFence[d])
    <3>1. [fence |-> slotFence[d], slot |-> d, then |-> "copy"] \in Wait BY <1>j, <2>1, <2>2 DEF Wait
    <3> QED BY <1>23, <1>e, <2>4, <3>1 DEF DownloadWait
  <2> QED BY <2>3, <2>4
<1>24. CASE DownloadCopy BY <1>24, <1>f DEF DownloadCopy
<1>25. CASE Synchronize
  <2>1. CASE FenceIsComplete(nextFence) BY <1>25, <1>c, <2>1 DEF Synchronize
  <2>2. CASE ~FenceIsComplete(nextFence)
    <3>1. [fence |-> nextFence, slot |-> 0, then |-> "synced"] \in Wait BY DEF Wait
    <3> QED BY <1>25, <1>e, <2>2, <3>1 DEF Synchronize
  <2> QED BY <2>1, <2>2
<1>26. CASE SynchronizeReturns BY <1>26, <1>f DEF SynchronizeReturns
<1>27. CASE GpuFinish
  <2>1. gpuDone' \in Nat BY <1>27 DEF GpuFinish
  <2>2. inFlight' \subseteq Job BY <1>27 DEF GpuFinish
  <2>3. failed' \subseteq Nat
    <3>1. failed' = failed \/ failed' = failed \cup {gpuDone + 1} BY <1>27 DEF GpuFinish
    <3>2. failed \subseteq Nat /\ gpuDone + 1 \in Nat OBVIOUS
    <3> QED BY ONLY <3>1, <3>2
  <2> QED BY <1>27, <2>1, <2>2, <2>3 DEF GpuFinish
<1>28. CASE UNCHANGED vars BY <1>28 DEF vars
<1>29. ASSUME NEW w \in Workers, AbortAgain(w) PROVE TypeOK'
  BY <1>29, <1>i DEF AbortAgain
<1> QED
  BY <1>1, <1>2, <1>3, <1>4, <1>5, <1>6, <1>7, <1>8, <1>9, <1>10, <1>11, <1>12, <1>13, <1>14, <1>15,
     <1>16, <1>17, <1>18, <1>19, <1>20, <1>21, <1>22, <1>23, <1>24, <1>25, <1>26, <1>27, <1>28, <1>29
  DEF Next, MainNext, Acquire, WaitUntil, Fill, BeginStep, EndStep, Download

\* Layer 1, second half: every return address of a wait is one its caller
\* gave, and Main has a slot wherever the code uses lease[Main].slot.
LEMMA ControlNext == Typed /\ TypeOK' /\ [Next]_vars => Control'
<1> SUFFICES ASSUME Typed, TypeOK', [Next]_vars PROVE Control' OBVIOUS
<1> USE StepContextAssumption DEF Typed, TypeOK, Control, Thread, Phase, Wait, NoWait, OwnerPhases, StepPhases, Goto, scratchVars
<1>u. \A t \in Thread :
        /\ t \in Workers => Unwind[wait[t].then] = "idle"
        /\ Unwind[wait[t].then] \in {"idle", "rollback", "ended"}
        /\ Unwind[wait[t].then] = "rollback" => wait[t].then = "reuse"
        /\ Unwind[wait[t].then] = "ended" => wait[t].then = "copy"
  BY DEF Unwind
<1>1. ASSUME NEW t \in Thread, WaitLock(t) PROVE Control'
  <2>1. CASE wait[t].fence <= completedFence BY <1>1, <2>1 DEF WaitLock
  <2>2. CASE ~(wait[t].fence <= completedFence) /\ wait[t].fence \notin pending
    <3>1. pc' = [pc EXCEPT ![t] = Unwind[wait[t].then]] /\ wait' = [wait EXCEPT ![t] = NoWait]
      BY <1>1, <2>2 DEF WaitLock, WaitOver
    <3> QED BY <1>1, <1>u, <3>1 DEF WaitLock
  <2>3. CASE ~(wait[t].fence <= completedFence) /\ wait[t].fence \in pending
    BY <1>1, <2>3 DEF WaitLock
  <2> QED BY <2>1, <2>2, <2>3
<1>2. ASSUME NEW t \in Thread, WaitDone(t) PROVE Control'
  <2>1. CASE wait[t].fence \notin failed BY <1>2, <2>1 DEF WaitDone
  <2>2. CASE wait[t].fence \in failed
    <3>1. pc' = [pc EXCEPT ![t] = Unwind[wait[t].then]] /\ wait' = [wait EXCEPT ![t] = NoWait]
      BY <1>2, <2>2 DEF WaitDone, WaitOver
    <3> QED BY <1>2, <1>u, <3>1 DEF WaitDone
  <2> QED BY <2>1, <2>2
<1>3. ASSUME NEW w \in Workers, StartFill(w) PROVE Control' BY <1>3 DEF StartFill
<1>4. ASSUME NEW t \in Thread, AcquireFree(t) PROVE Control' BY <1>4 DEF AcquireFree, First, Lease
<1>5. ASSUME NEW t \in Thread, AcquireRetired(t) PROVE Control' BY <1>5 DEF AcquireRetired, StartWait
<1>6. ASSUME NEW t \in Thread, AcquireSleep(t) PROVE Control' BY <1>6 DEF AcquireSleep
<1>7. ASSUME NEW t \in Thread, AcquireRecheck(t) PROVE Control' BY <1>7 DEF AcquireRecheck, WaitOver, BroadcastGoto
<1>8. ASSUME NEW t \in Thread, PublishSlot(t) PROVE Control' BY <1>8 DEF PublishSlot, BroadcastGoto
<1>9. ASSUME NEW w \in Workers, AbortFill(w) PROVE Control' BY <1>9 DEF AbortFill, AbortSlot, BroadcastGoto
<1>10. CASE TakeBatch BY <1>10 DEF TakeBatch
<1>11. CASE ReleaseUnused BY <1>11 DEF ReleaseUnused, AbortSlot, BroadcastGoto
<1>12. CASE BeginEmpty BY <1>12 DEF BeginEmpty
<1>13. CASE BeginOnDataSlot BY <1>13 DEF BeginOnDataSlot
<1>14. CASE PollScratch
  <2> DEFINE s == (scratchCurrent + 1 + probe) % ScratchSlots
  <2>1. s \in ScratchSlot BY ProbeInRange
  <2> HIDE DEF s
  <2>2. pc' = pc \/ (scratchCurrent' = s /\ pc' = [pc EXCEPT ![Main] = "begin"])
    BY <1>14 DEF PollScratch, TakeScratch, s
  <2> QED BY <1>14, <2>1, <2>2 DEF PollScratch
<1>15. CASE WaitOldestScratch BY <1>15 DEF WaitOldestScratch, StartWait
<1>16. CASE ReuseScratch BY <1>16 DEF ReuseScratch, TakeScratch, WaitOver
<1>17. CASE ScopeBegin BY <1>17 DEF ScopeBegin
<1>18. CASE RollbackBegin BY <1>18 DEF RollbackBegin, BroadcastGoto
<1>19. CASE RecordFence BY <1>19 DEF RecordFence
<1>20. CASE RetireSlot BY <1>20 DEF RetireSlot, BroadcastGoto
<1>21. CASE ReleaseRetired BY <1>21 DEF ReleaseRetired
<1>22. CASE DownloadValidate BY <1>22 DEF DownloadValidate
<1>23. CASE DownloadWait BY <1>23 DEF DownloadWait, StartWait
<1>24. CASE DownloadCopy BY <1>24 DEF DownloadCopy, WaitOver
<1>25. CASE Synchronize BY <1>25 DEF Synchronize, StartWait
<1>26. CASE SynchronizeReturns BY <1>26 DEF SynchronizeReturns, WaitOver
<1>27. CASE GpuFinish BY <1>27 DEF GpuFinish
<1>28. CASE UNCHANGED vars BY <1>28 DEF vars
<1>29. ASSUME NEW w \in Workers, AbortAgain(w) PROVE Control' BY <1>29 DEF AbortAgain, AbortSlot, BroadcastGoto
<1> QED BY <1>1, <1>2, <1>3, <1>4, <1>5, <1>6, <1>7, <1>8, <1>9, <1>10, <1>11, <1>12, <1>13, <1>14, <1>15, <1>16, <1>17, <1>18, <1>19, <1>20, <1>21, <1>22, <1>23, <1>24, <1>25, <1>26, <1>27, <1>28, <1>29 DEF Next, MainNext, Acquire, WaitUntil, Fill, BeginStep, EndStep, Download

----------------------------------------------------------------------------
\* Layer 2 holds of a fresh context, whose fence table is empty.
LEMMA FencedInit == Init => Fenced
<1> SUFFICES ASSUME Init PROVE Fenced OBVIOUS
<1> USE StepContextAssumption DEF Init, Fenced, Phase, NoWait, Thread
<1>1. pending = completedFence + 1 .. nextFence OBVIOUS
<1>2. \A t \in Thread : wait[t] = NoWait /\ pc[t] = "idle" /\ backendOwner # t OBVIOUS
<1> QED BY <1>1, <1>2

\* Recording the next fence appends it to an interval of fences.
LEMMA IntervalExtends ==
  ASSUME NEW a \in Nat, NEW b \in Nat, a <= b PROVE (a + 1 .. b) \cup {b + 1} = a + 1 .. b + 1
OBVIOUS

\* What a member of an interval of fences satisfies.
LEMMA IntervalMember ==
  ASSUME NEW a \in Nat, NEW b \in Nat, NEW i \in a + 1 .. b PROVE i \in Nat /\ a < i /\ i <= b
OBVIOUS

\* Releasing the fences up to q keeps the table an interval.
LEMMA ReleaseCompletedIs ==
  ASSUME TypeOK, Fenced, NEW q \in Nat, completedFence <= q
  PROVE  ReleaseCompleted(q) = q + 1 .. nextFence
BY DEF TypeOK, Fenced, ReleaseCompleted

\* A poll moves completedFence no further than the device has come.
LEMMA NoteCompleteFenced ==
  ASSUME TypeOK, Fenced, NEW q \in Nat, FenceIsComplete(q), NoteComplete(q)
  PROVE  /\ completedFence' \in Nat
         /\ completedFence <= completedFence' /\ completedFence' <= gpuDone
         /\ q <= completedFence'
         /\ pending' = completedFence' + 1 .. nextFence
<1> USE DEF TypeOK
<1>1. completedFence <= gpuDone /\ pending = completedFence + 1 .. nextFence BY DEF Fenced
<1>2. q <= gpuDone BY <1>1 DEF FenceIsComplete
<1>3. CASE q > completedFence
  <2>1. completedFence' = q /\ pending' = ReleaseCompleted(q) BY <1>3 DEF NoteComplete
  <2> QED BY <1>2, <1>3, <2>1, ReleaseCompletedIs
<1>4. CASE ~(q > completedFence)
  <2>1. completedFence' = completedFence /\ pending' = pending BY <1>4 DEF NoteComplete
  <2> QED BY <1>1, <1>4, <2>1
<1> QED BY <1>3, <1>4

\* Waking the sleepers of data_cv moves nobody in or out of a wait for a fence.
LEMMA BroadcastKeepsWaits ==
  ASSUME TypeOK, NEW t \in Thread, pc[t] \notin {"lock", "hold"},
         NEW there \in PC \ {"lock", "hold", "synced"}, BroadcastGoto(t, there)
  PROVE  \A u \in Thread : /\ pc'[u] = "hold" <=> pc[u] = "hold"
                           /\ pc'[u] = "lock" <=> pc[u] = "lock"
                           /\ pc'[u] = "synced" => pc[u] = "synced"
BY DEF TypeOK, BroadcastGoto

\* Layer 2 is kept by every step: the table stays exactly the fences after the
\* completed one, and no thread waits for a fence outside it.
LEMMA FencedNext == Typed /\ Typed' /\ Fenced /\ [Next]_vars => Fenced'
<1> SUFFICES ASSUME Typed, Typed', Fenced, [Next]_vars PROVE Fenced' OBVIOUS
<1> USE StepContextAssumption DEF Typed, TypeOK, Fenced, Thread, Phase, Wait, NoWait, Goto, fenceVars, deviceVars, scratchVars, dataVars
<1>a. PC \ {"lock", "hold", "synced"} =
        {"idle", "scan", "sleep", "recheck", "fill", "again", "taken", "select", "reuse", "begin",
         "rollback", "open", "retire", "ended", "validated", "copy"}
  BY DEF PC
<1>b. \A u \in Thread : wait[u].fence \in Nat OBVIOUS
<1>c. nextFence \in Nat /\ \A d \in DataSlot : slotFence[d] \in Nat /\ slotFence[d] <= nextFence OBVIOUS
<1>1. ASSUME NEW t \in Thread, WaitLock(t) PROVE Fenced' BY <1>1 DEF WaitLock, Unwind, WaitOver
<1>2. ASSUME NEW t \in Thread, WaitDone(t) PROVE Fenced'
  <2> DEFINE q == wait[t].fence
  <2>1. q \in Nat /\ completedFence < q /\ q <= nextFence /\ q <= gpuDone BY <1>2 DEF WaitDone
  <2>2. \A u \in Thread : u # t => pc[u] # "hold" BY <1>2 DEF WaitDone
  <2>3. CASE q \notin failed
    <3>1. completedFence' = q /\ pending' = q + 1 .. nextFence
      BY <1>2, <2>1, <2>3, ReleaseCompletedIs, SMTT(30) DEF WaitDone
    <3>2. /\ backendOwner' = NoThread /\ pc' = [pc EXCEPT ![t] = wait[t].then] /\ wait' = wait
          /\ wait[t].then \in {"recheck", "reuse", "copy", "synced"}
      BY <1>2, <2>3 DEF WaitDone
    <3>3. ASSUME NEW u \in Thread
          PROVE  wait'[u].fence <= nextFence /\ (pc'[u] \notin {"lock", "hold"} => wait'[u].fence <= completedFence')
      <4>1. CASE u = t BY <2>1, <3>1, <3>2, <4>1
      <4>2. CASE u # t
        <5>1. wait'[u] = wait[u] /\ pc'[u] = pc[u] BY <3>2, <4>2
        <5> QED BY <1>b, <2>1, <2>2, <3>1, <4>2, <5>1, SMTT(30)
      <4> QED BY <4>1, <4>2
    <3> QED BY <1>2, <2>1, <2>2, <3>1, <3>2, <3>3, SMTT(30) DEF WaitDone
  <2>4. CASE q \in failed
    <3>1. /\ backendOwner' = NoThread /\ pc' = [pc EXCEPT ![t] = Unwind[wait[t].then]]
          /\ wait' = [wait EXCEPT ![t] = NoWait] /\ Unwind[wait[t].then] \in {"idle", "rollback", "ended"}
      BY <1>2, <2>4 DEF WaitDone, WaitOver, Unwind
    <3> QED BY <1>2, <2>2, <2>4, <3>1 DEF WaitDone
  <2> QED BY <2>3, <2>4
<1>3. ASSUME NEW w \in Workers, StartFill(w) PROVE Fenced' BY <1>3 DEF StartFill
<1>4. ASSUME NEW t \in Thread, AcquireFree(t) PROVE Fenced' BY <1>4 DEF AcquireFree
<1>5. ASSUME NEW t \in Thread, AcquireRetired(t) PROVE Fenced' BY <1>5 DEF AcquireRetired, StartWait, First
<1>6. ASSUME NEW t \in Thread, AcquireSleep(t) PROVE Fenced' BY <1>6 DEF AcquireSleep
<1>7. ASSUME NEW t \in Thread, AcquireRecheck(t) PROVE Fenced'
  <2>0. \A d \in DataSlot : slotFence'[d] <= nextFence
    <3>1. slotFence' = slotFence \/ slotFence' = [slotFence EXCEPT ![wait[t].slot] = 0]
      BY <1>7 DEF AcquireRecheck
    <3>2. \A d \in DataSlot : slotFence'[d] \in {slotFence[d], 0} BY ONLY <3>1, slotFence \in [DataSlot -> Nat]
    <3> QED BY ONLY <1>c, <3>2
  <2>1. CASE pc' = [pc EXCEPT ![t] = "scan"]
    BY <1>7, <2>0, <2>1 DEF AcquireRecheck, WaitOver
  <2>2. CASE BroadcastGoto(t, "scan")
    <3>1. \A u \in Thread : /\ pc'[u] = "hold" <=> pc[u] = "hold"
                            /\ pc'[u] = "lock" <=> pc[u] = "lock"
                            /\ pc'[u] = "synced" => pc[u] = "synced"
      BY <1>7, <1>a, <2>2, BroadcastKeepsWaits DEF AcquireRecheck
    <3> QED BY <1>7, <2>0, <3>1 DEF AcquireRecheck, WaitOver
  <2> QED BY <1>7, <2>1, <2>2 DEF AcquireRecheck
<1>8. ASSUME NEW t \in Thread, PublishSlot(t) PROVE Fenced' BY <1>8 DEF PublishSlot, BroadcastGoto
<1>9. ASSUME NEW w \in Workers, AbortFill(w) PROVE Fenced'
  <2>0. \A d \in DataSlot : slotFence'[d] <= nextFence
    <3>1. slotFence' = slotFence \/ slotFence' = [slotFence EXCEPT ![lease[w].slot] = 0]
      BY <1>9 DEF AbortFill, AbortSlot
    <3>2. \A d \in DataSlot : slotFence'[d] \in {slotFence[d], 0} BY ONLY <3>1, slotFence \in [DataSlot -> Nat]
    <3> QED BY ONLY <1>c, <3>2
  <2>1. CASE pc' = [pc EXCEPT ![w] = "again"] /\ UNCHANGED <<slotState, slotFence>> BY <1>9, <2>1 DEF AbortFill, AbortSlot
  <2>2. CASE BroadcastGoto(w, "again")
    <3>1. \A u \in Thread : /\ pc'[u] = "hold" <=> pc[u] = "hold"
                            /\ pc'[u] = "lock" <=> pc[u] = "lock"
                            /\ pc'[u] = "synced" => pc[u] = "synced"
      BY <1>9, <1>a, <2>2, BroadcastKeepsWaits DEF AbortFill
    <3> QED BY <1>9, <2>0, <3>1 DEF AbortFill, AbortSlot
  <2> QED BY <1>9, <2>1, <2>2 DEF AbortFill, AbortSlot
<1>10. CASE TakeBatch BY <1>10 DEF TakeBatch
<1>11. CASE ReleaseUnused
  <2>0. \A d \in DataSlot : slotFence'[d] <= nextFence
    <3>1. slotFence' = slotFence \/ slotFence' = [slotFence EXCEPT ![lease[Main].slot] = 0]
      BY <1>11 DEF ReleaseUnused, AbortSlot
    <3>2. \A d \in DataSlot : slotFence'[d] \in {slotFence[d], 0} BY ONLY <3>1, slotFence \in [DataSlot -> Nat]
    <3> QED BY ONLY <1>c, <3>2
  <2>1. CASE pc' = [pc EXCEPT ![Main] = "idle"] /\ UNCHANGED <<slotState, slotFence>> BY <1>11, <2>1 DEF ReleaseUnused, AbortSlot
  <2>2. CASE BroadcastGoto(Main, "idle")
    <3>1. \A u \in Thread : /\ pc'[u] = "hold" <=> pc[u] = "hold"
                            /\ pc'[u] = "lock" <=> pc[u] = "lock"
                            /\ pc'[u] = "synced" => pc[u] = "synced"
      BY <1>11, <1>a, <2>2, BroadcastKeepsWaits DEF ReleaseUnused
    <3> QED BY <1>11, <2>0, <3>1 DEF ReleaseUnused, AbortSlot
  <2> QED BY <1>11, <2>1, <2>2 DEF ReleaseUnused, AbortSlot
<1>12. CASE BeginEmpty BY <1>12 DEF BeginEmpty
<1>13. CASE BeginOnDataSlot BY <1>13 DEF BeginOnDataSlot
<1>14. CASE PollScratch
  <2> DEFINE s == (scratchCurrent + 1 + probe) % ScratchSlots
  <2>1. s \in ScratchSlot BY ProbeInRange
  <2>2. \A u \in Thread : pc[u] # "hold" BY <1>14 DEF PollScratch
  <2> HIDE DEF s
  <2>3. CASE FenceIsComplete(scratchFence[s])
    <3>1. NoteComplete(scratchFence[s]) /\ TakeScratch(s) BY <1>14, <2>3 DEF PollScratch, s
    <3>2. /\ completedFence <= completedFence' /\ completedFence' <= gpuDone
          /\ pending' = completedFence' + 1 .. nextFence
      BY <2>1, <2>3, <3>1, NoteCompleteFenced
    <3>3. scratchFence' = [scratchFence EXCEPT ![s] = 0] /\ pc' = [pc EXCEPT ![Main] = "begin"]
      BY <3>1 DEF TakeScratch
    <3>4. UNCHANGED <<nextFence, gpuDone, inFlight, slotFence, wait, backendOwner>>
      BY <1>14 DEF PollScratch, deviceVars, dataVars
    <3>5. \A r \in ScratchSlot : scratchFence'[r] <= nextFence'
      BY <3>3, <3>4
    <3>6. \A u \in Thread : pc'[u] = pc[u] \/ (pc[u] = "select" /\ pc'[u] = "begin")
      BY <1>14, <3>3 DEF PollScratch
    <3>7. ASSUME NEW t \in Thread
          PROVE  /\ wait'[t].fence <= nextFence'
                 /\ pc'[t] = "hold" <=> backendOwner' = t
                 /\ pc'[t] = "hold" => completedFence' < wait'[t].fence
                 /\ pc'[t] \notin {"lock", "hold"} => wait'[t].fence <= completedFence'
      <4>1. wait[t].fence \in Nat /\ completedFence \in Nat /\ completedFence' \in Nat OBVIOUS
      <4>2. /\ wait[t].fence <= nextFence /\ (pc[t] = "hold" <=> backendOwner = t)
            /\ pc[t] \notin {"lock", "hold"} => wait[t].fence <= completedFence
        OBVIOUS
      <4> QED BY ONLY <4>1, <4>2, <2>2, <3>2, <3>4, <3>6
    <3>8. /\ Phase(Main)' = "synced" /\ pc'[Main] # "synced" => wait'[Main].fence = nextFence'
          /\ pc'[Main] = "synced" => nextFence' <= completedFence'
      BY <3>3
    <3> QED BY <3>2, <3>4, <3>5, <3>7, <3>8
  <2>4. CASE ~FenceIsComplete(scratchFence[s]) BY <1>14, <2>4 DEF PollScratch, s
  <2> QED BY <2>3, <2>4
<1>15. CASE WaitOldestScratch BY <1>15 DEF WaitOldestScratch, StartWait
<1>16. CASE ReuseScratch BY <1>16 DEF ReuseScratch, TakeScratch, WaitOver
<1>17. CASE ScopeBegin BY <1>17 DEF ScopeBegin
<1>18. CASE RollbackBegin BY <1>18 DEF RollbackBegin, BroadcastGoto
<1>19. CASE RecordFence
  <2>1. ReleaseCompleted(completedFence) = completedFence + 1 .. nextFence BY ReleaseCompletedIs, SMTT(30)
  <2>2. nextFence' = nextFence + 1 /\ pending' = ReleaseCompleted(completedFence) \cup {nextFence + 1} /\ completedFence' = completedFence
    BY <1>19 DEF RecordFence
  <2>3. pending' = completedFence' + 1 .. nextFence'
    <3>1. completedFence <= nextFence OBVIOUS
    <3> QED BY <2>1, <2>2, <3>1, IntervalExtends
  <2>4. \A j \in inFlight' : gpuDone' < j.seq /\ j.seq <= nextFence'
    <3>1. inFlight' = inFlight \cup {[seq |-> nextFence + 1, scratch |-> scratchCurrent, data |-> lease[Main].slot]}
      BY <1>19 DEF RecordFence
    <3>2. \A j \in inFlight : j.seq \in Nat BY DEF Job
    <3> QED BY <1>19, <2>2, <3>1, <3>2 DEF RecordFence
  <2>5. \A s \in ScratchSlot : scratchFence'[s] <= nextFence'
    BY <1>19, <2>2 DEF RecordFence
  <2>6. \A t \in Thread : wait[t].fence \in Nat /\ (pc'[t] = "hold" <=> pc[t] = "hold") /\ (pc'[t] = "lock" <=> pc[t] = "lock")
    BY <1>19 DEF RecordFence
  <2>7. Phase(Main)' # "synced" BY <1>19 DEF RecordFence
  <2> QED BY <1>19, <2>2, <2>3, <2>4, <2>5, <2>6, <2>7 DEF RecordFence
<1>20. CASE RetireSlot BY <1>20 DEF RetireSlot, BroadcastGoto
<1>21. CASE ReleaseRetired BY <1>21 DEF ReleaseRetired
<1>22. CASE DownloadValidate BY <1>22 DEF DownloadValidate
<1>23. CASE DownloadWait
  <2> DEFINE q == slotFence[lease[Main].slot]
  <2>1. lease[Main].slot \in DataSlot BY <1>23 DEF DownloadWait, Control, OwnerPhases, Lease
  <2>2. \A u \in Thread : pc[u] # "hold" BY <1>23 DEF DownloadWait
  <2>3. q \in Nat /\ q <= nextFence BY <2>1
  <2> HIDE DEF q
  <2>4. CASE FenceIsComplete(q)
    <3>1. NoteComplete(q) /\ pc' = [pc EXCEPT ![Main] = "copy"] /\ wait' = wait BY <1>23, <2>4 DEF DownloadWait, q
    <3>2. /\ completedFence <= completedFence' /\ completedFence' <= gpuDone
          /\ pending' = completedFence' + 1 .. nextFence
      BY <2>3, <2>4, <3>1, NoteCompleteFenced
    <3>3. \A u \in Thread : pc'[u] # "hold" /\ (pc'[u] = "lock" => pc[u] = "lock") /\ completedFence <= completedFence'
      BY <2>2, <3>1, <3>2
    <3>4. \A u \in Thread : pc'[u] \notin {"lock", "hold"} => wait'[u].fence <= completedFence'
      BY <1>b, <1>23, <3>1, <3>2 DEF DownloadWait
    <3> QED BY <1>23, <3>1, <3>2, <3>3, <3>4 DEF DownloadWait
  <2>5. CASE ~FenceIsComplete(q)
    <3>1. /\ pc' = [pc EXCEPT ![Main] = "lock"]
          /\ wait' = [wait EXCEPT ![Main] = [fence |-> q, slot |-> lease[Main].slot, then |-> "copy"]]
          /\ UNCHANGED <<completedFence, pending, failed>>
      BY <1>23, <2>5 DEF DownloadWait, StartWait, q
    <3> QED BY <1>23, <2>2, <2>3, <3>1 DEF DownloadWait
  <2> QED BY <2>4, <2>5
<1>24. CASE DownloadCopy BY <1>24 DEF DownloadCopy, WaitOver
<1>25. CASE Synchronize
  <2>1. \A u \in Thread : pc[u] # "hold" BY <1>25 DEF Synchronize
  <2>2. CASE FenceIsComplete(nextFence)
    <3>1. NoteComplete(nextFence) /\ pc' = [pc EXCEPT ![Main] = "synced"] /\ wait' = wait BY <1>25, <2>2 DEF Synchronize
    <3>2. /\ completedFence <= completedFence' /\ completedFence' <= gpuDone /\ nextFence <= completedFence'
          /\ pending' = completedFence' + 1 .. nextFence
      BY <2>2, <3>1, NoteCompleteFenced
    <3> QED BY <1>25, <2>1, <3>1, <3>2 DEF Synchronize
  <2>3. CASE ~FenceIsComplete(nextFence) BY <1>25, <2>1, <2>3 DEF Synchronize, StartWait
  <2> QED BY <2>2, <2>3
<1>26. CASE SynchronizeReturns BY <1>26 DEF SynchronizeReturns, WaitOver
<1>27. CASE GpuFinish BY <1>27 DEF GpuFinish
<1>28. CASE UNCHANGED vars BY <1>28 DEF vars
<1>29. ASSUME NEW w \in Workers, AbortAgain(w) PROVE Fenced'
  <2>0. \A d \in DataSlot : slotFence'[d] <= nextFence
    <3>1. slotFence' = slotFence \/ slotFence' = [slotFence EXCEPT ![lease[w].slot] = 0]
      BY <1>29 DEF AbortAgain, AbortSlot
    <3>2. \A d \in DataSlot : slotFence'[d] \in {slotFence[d], 0} BY ONLY <3>1, slotFence \in [DataSlot -> Nat]
    <3> QED BY ONLY <1>c, <3>2
  <2>1. CASE pc' = [pc EXCEPT ![w] = "idle"] /\ UNCHANGED <<slotState, slotFence>> BY <1>29, <2>1 DEF AbortAgain, AbortSlot
  <2>2. CASE BroadcastGoto(w, "idle")
    <3>1. \A u \in Thread : /\ pc'[u] = "hold" <=> pc[u] = "hold"
                            /\ pc'[u] = "lock" <=> pc[u] = "lock"
                            /\ pc'[u] = "synced" => pc[u] = "synced"
      BY <1>29, <1>a, <2>2, BroadcastKeepsWaits DEF AbortAgain
    <3> QED BY <1>29, <2>0, <3>1 DEF AbortAgain, AbortSlot
  <2> QED BY <1>29, <2>1, <2>2 DEF AbortAgain, AbortSlot
<1> QED BY <1>1, <1>2, <1>3, <1>4, <1>5, <1>6, <1>7, <1>8, <1>9, <1>10, <1>11, <1>12, <1>13, <1>14, <1>15, <1>16, <1>17, <1>18, <1>19, <1>20, <1>21, <1>22, <1>23, <1>24, <1>25, <1>26, <1>27, <1>28, <1>29 DEF Next, MainNext, Acquire, WaitUntil, Fill, BeginStep, EndStep, Download

----------------------------------------------------------------------------
\* Layer 3 holds of a fresh context: the device has no command buffer.
LEMMA BufferedInit == Init => Buffered
BY StepContextAssumption DEF Init, Buffered, Phase, StepPhases, Thread

\* Layer 3 is kept by every step: a slot keeps the fence of its command buffer
\* until the device is known to have finished it, although the recheck of a
\* loader thread runs between the two halves of gd_end_step.
LEMMA BufferedNext == Typed /\ Typed' /\ Fenced /\ Buffered /\ [Next]_vars => Buffered'
<1> SUFFICES ASSUME Typed, Typed', Fenced, Buffered, [Next]_vars PROVE Buffered' OBVIOUS
<1> USE StepContextAssumption DEF Typed, TypeOK, Fenced, Buffered, StepPhases, Thread, Phase, Wait, NoWait, Goto, fenceVars, deviceVars, scratchVars, dataVars
<1>a. ASSUME NEW t \in Thread, NEW there, NEW l, AbortSlot(t, there, l)
      PROVE  /\ \A d \in DataSlot : slotState[d] \in {"RETIRED", "IN_STEP"} => slotState'[d] = slotState[d] /\ slotFence'[d] = slotFence[d]
             /\ pc'[t] = there /\ \A u \in Thread \ {t} : pc'[u] = pc[u] \/ (pc[u] = "sleep" /\ pc'[u] = "scan")
  <2>1. CASE Holds(lease[t], {"FILLING", "READY"})
    <3>1. slotState' = [slotState EXCEPT ![lease[t].slot] = "FREE"] /\ slotFence' = [slotFence EXCEPT ![lease[t].slot] = 0]
      BY <1>a, <2>1 DEF AbortSlot
    <3>2. slotState[lease[t].slot] \in {"FILLING", "READY"} BY <2>1 DEF Holds
    <3> QED BY <1>a, <2>1, <3>1, <3>2 DEF AbortSlot, BroadcastGoto
  <2>2. CASE ~Holds(lease[t], {"FILLING", "READY"}) BY <1>a, <2>2 DEF AbortSlot
  <2> QED BY <2>1, <2>2
<1>b. /\ gpuDone \in Nat
      /\ \A j \in inFlight :
           /\ j.seq \in Nat /\ j.scratch \in ScratchSlot /\ j.data \in DataSlot /\ gpuDone < j.seq
           /\ scratchFence[j.scratch] = j.seq
           /\ \/ slotState[j.data] = "RETIRED" /\ slotFence[j.data] = j.seq
              \/ pc[Main] = "retire" /\ lease[Main].slot = j.data /\ j.seq = nextFence
  BY DEF Job
<1>c. \A t \in Thread : wait[t].fence \in Nat /\ (pc[t] \notin {"lock", "hold"} => wait[t].fence <= gpuDone)
  <2>1. completedFence \in Nat /\ gpuDone \in Nat /\ completedFence <= gpuDone OBVIOUS
  <2>2. \A t \in Thread : wait[t].fence \in Nat /\ (pc[t] \notin {"lock", "hold"} => wait[t].fence <= completedFence) OBVIOUS
  <2> QED BY ONLY <2>1, <2>2
<1>d. Phase(Main) \in StepPhases => lease[Main].slot \in DataSlot /\ slotState[lease[Main].slot] = "IN_STEP"
  BY DEF Control, OwnerPhases, Lease
<1>1. ASSUME NEW t \in Thread, WaitLock(t) PROVE Buffered' BY <1>1 DEF WaitLock, Unwind, WaitOver
<1>2. ASSUME NEW t \in Thread, WaitDone(t) PROVE Buffered' BY <1>2 DEF WaitDone, Unwind, WaitOver
<1>3. ASSUME NEW w \in Workers, StartFill(w) PROVE Buffered' BY <1>3 DEF StartFill
<1>4. ASSUME NEW t \in Thread, AcquireFree(t) PROVE Buffered' BY <1>4 DEF AcquireFree, First
<1>5. ASSUME NEW t \in Thread, AcquireRetired(t) PROVE Buffered' BY <1>5 DEF AcquireRetired, StartWait, First
<1>6. ASSUME NEW t \in Thread, AcquireSleep(t) PROVE Buffered' BY <1>6 DEF AcquireSleep
<1>7. ASSUME NEW t \in Thread, AcquireRecheck(t) PROVE Buffered'
  <2> DEFINE d == wait[t].slot
             freed == slotState[d] = "RETIRED" /\ slotFence[d] = wait[t].fence
  <2>1. wait[t].fence \in Nat /\ wait[t].fence <= gpuDone BY <1>7, <1>c DEF AcquireRecheck
  <2>2. \A j \in inFlight : wait[t].fence < j.seq BY ONLY <1>b, <2>1
  <2>3. CASE freed
    <3>1. slotState' = [slotState EXCEPT ![d] = "FREE"] /\ slotFence' = [slotFence EXCEPT ![d] = 0] /\ BroadcastGoto(t, "scan")
      BY <1>7, <2>3 DEF AcquireRecheck
    <3>2. \A e \in DataSlot : e # d => slotState'[e] = slotState[e] /\ slotFence'[e] = slotFence[e] BY <3>1
    <3>3. \A j \in inFlight : j.data = d => pc[Main] = "retire" /\ lease[Main].slot = j.data /\ j.seq = nextFence
      <4>1. \A j \in inFlight : j.data = d => slotFence[j.data] # j.seq BY ONLY <1>b, <2>1, <2>2, <2>3
      <4> QED BY ONLY <1>b, <4>1
    <3>4. pc'[t] = "scan" /\ \A u \in Thread \ {t} : pc'[u] = pc[u] \/ (pc[u] = "sleep" /\ pc'[u] = "scan")
      BY <3>1 DEF BroadcastGoto
    <3>5. wait'[t] = NoWait /\ \A u \in Thread \ {t} : wait'[u] = wait[u] BY <1>7 DEF AcquireRecheck, WaitOver
    <3>6. Phase(Main)' \in StepPhases => lease[Main].slot \in DataSlot \ {d}
      BY <2>3, <3>4, <3>5, ZenonT(60) DEF Control, OwnerPhases, Lease
    <3>7. UNCHANGED <<fenceVars, deviceVars, scratchVars, lease>> BY <1>7 DEF AcquireRecheck
    <3>8. \A j \in inFlight' : \/ slotState'[j.data] = "RETIRED" /\ slotFence'[j.data] = j.seq
                               \/ pc'[Main] = "retire" /\ lease'[Main].slot = j.data /\ j.seq = nextFence'
      <4>0. inFlight' = inFlight /\ lease' = lease /\ nextFence' = nextFence BY <3>7
      <4>1. pc[Main] = "retire" => pc'[Main] = "retire" BY <1>7, <3>4 DEF AcquireRecheck
      <4>2. \A j \in inFlight : \/ slotState'[j.data] = "RETIRED" /\ slotFence'[j.data] = j.seq
                                \/ pc'[Main] = "retire" /\ lease[Main].slot = j.data /\ j.seq = nextFence
        BY ONLY <1>b, <3>2, <3>3, <4>1
      <4> QED BY ONLY <4>0, <4>2
    <3>9. Phase(Main)' \in StepPhases => slotState'[lease'[Main].slot] = "IN_STEP"
      BY <1>d, <3>2, <3>4, <3>5, <3>6, <3>7
    <3>10. Phase(Main)' = "reuse" => Phase(Main) = "reuse" /\ wait'[Main] = wait[Main]
      BY <3>4, <3>5
    <3>11. pc'[Main] \in {"begin", "open"} => pc[Main] \in {"begin", "open"}
      BY <3>4
    <3> QED BY <3>7, <3>8, <3>9, <3>10, <3>11
  <2>4. CASE ~freed
    <3>1. UNCHANGED <<slotState, slotFence>> /\ pc' = [pc EXCEPT ![t] = "scan"] BY <1>7, <2>4 DEF AcquireRecheck
    <3> QED BY <1>7, <3>1 DEF AcquireRecheck, WaitOver
  <2> QED BY <2>3, <2>4
<1>8. ASSUME NEW t \in Thread, PublishSlot(t) PROVE Buffered' BY <1>8 DEF PublishSlot, Holds, BroadcastGoto
<1>9. ASSUME NEW w \in Workers, AbortFill(w) PROVE Buffered'
  <2>1. /\ \A d \in DataSlot : slotState[d] \in {"RETIRED", "IN_STEP"} => slotState'[d] = slotState[d] /\ slotFence'[d] = slotFence[d]
        /\ pc'[w] = "again" /\ \A u \in Thread \ {w} : pc'[u] = pc[u] \/ (pc[u] = "sleep" /\ pc'[u] = "scan")
    BY <1>9, <1>a DEF AbortFill
  <2>2. UNCHANGED <<fenceVars, deviceVars, scratchVars, wait>> /\ \A u \in Thread \ {w} : lease'[u] = lease[u]
    BY <1>9 DEF AbortFill, AbortSlot
  <2>3. w # Main BY <1>9 DEF AbortFill
  <2>4. \A j \in inFlight' : \/ slotState'[j.data] = "RETIRED" /\ slotFence'[j.data] = j.seq
                             \/ pc'[Main] = "retire" /\ lease'[Main].slot = j.data /\ j.seq = nextFence'
    <3>1. inFlight' = inFlight /\ nextFence' = nextFence BY <2>2
    <3>2. pc[Main] = "retire" => pc'[Main] = "retire" /\ lease'[Main] = lease[Main] BY <2>1, <2>2, <2>3
    <3> QED BY ONLY <1>b, <2>1, <3>1, <3>2
  <2>5. Phase(Main)' \in StepPhases => slotState'[lease'[Main].slot] = "IN_STEP"
    BY <1>d, <2>1, <2>2, <2>3
  <2> QED BY <2>1, <2>2, <2>3, <2>4, <2>5
<1>10. CASE TakeBatch BY <1>10 DEF TakeBatch
<1>11. CASE ReleaseUnused
  <2>1. /\ \A d \in DataSlot : slotState[d] \in {"RETIRED", "IN_STEP"} => slotState'[d] = slotState[d] /\ slotFence'[d] = slotFence[d]
        /\ pc'[Main] = "idle" /\ \A u \in Thread \ {Main} : pc'[u] = pc[u] \/ (pc[u] = "sleep" /\ pc'[u] = "scan")
    BY <1>11, <1>a DEF ReleaseUnused
  <2>2. UNCHANGED <<fenceVars, deviceVars, scratchVars, wait>> /\ \A u \in Thread \ {Main} : lease'[u] = lease[u]
    BY <1>11 DEF ReleaseUnused, AbortSlot
  <2>3. pc[Main] = "taken" BY <1>11 DEF ReleaseUnused
  <2>4. \A j \in inFlight' : \/ slotState'[j.data] = "RETIRED" /\ slotFence'[j.data] = j.seq
                             \/ pc'[Main] = "retire" /\ lease'[Main].slot = j.data /\ j.seq = nextFence'
    <3>1. inFlight' = inFlight /\ nextFence' = nextFence BY <2>2
    <3>2. pc[Main] = "retire" => pc'[Main] = "retire" /\ lease'[Main] = lease[Main] BY <2>1, <2>2, <2>3
    <3> QED BY ONLY <1>b, <2>1, <3>1, <3>2
  <2>5. Phase(Main)' \in StepPhases => slotState'[lease'[Main].slot] = "IN_STEP"
    BY <1>d, <2>1, <2>2, <2>3
  <2> QED BY <2>1, <2>2, <2>3, <2>4, <2>5
<1>12. CASE BeginEmpty BY <1>12 DEF BeginEmpty
<1>13. CASE BeginOnDataSlot BY <1>13 DEF BeginOnDataSlot, Holds
<1>14. CASE PollScratch
  <2> DEFINE s == (scratchCurrent + 1 + probe) % ScratchSlots
  <2>1. s \in ScratchSlot BY ProbeInRange
  <2> HIDE DEF s
  <2>2. CASE FenceIsComplete(scratchFence[s])
    <3>1. TakeScratch(s) BY <1>14, <2>2 DEF PollScratch, s
    <3>2. scratchFence[s] <= gpuDone BY <2>1, <2>2, SMTT(30) DEF FenceIsComplete
    <3>3. \A j \in inFlight : j.scratch # s BY ONLY <1>b, <3>2
    <3>4. /\ scratchCurrent' = s /\ scratchFence' = [scratchFence EXCEPT ![s] = 0]
          /\ pc' = [pc EXCEPT ![Main] = "begin"]
      BY <3>1 DEF TakeScratch
    <3> QED BY <1>14, <1>b, <2>1, <3>3, <3>4 DEF PollScratch
  <2>3. CASE ~FenceIsComplete(scratchFence[s]) BY <1>14, <2>3 DEF PollScratch, s
  <2> QED BY <2>2, <2>3
<1>15. CASE WaitOldestScratch BY <1>15 DEF WaitOldestScratch, StartWait
<1>16. CASE ReuseScratch
  <2> DEFINE s == wait[Main].slot
  <2>1. s \in ScratchSlot /\ scratchFence[s] = wait[Main].fence BY <1>16 DEF ReuseScratch, Control
  <2> HIDE DEF s
  <2>2. pc[Main] = "reuse" /\ Main \in Thread BY <1>16 DEF ReuseScratch
  <2>3. \A j \in inFlight : j.scratch # s BY ONLY <1>b, <1>c, <2>1, <2>2
  <2>4. /\ scratchCurrent' = s /\ scratchFence' = [scratchFence EXCEPT ![s] = 0]
        /\ pc' = [pc EXCEPT ![Main] = "begin"] /\ wait' = [wait EXCEPT ![Main] = NoWait]
    BY <1>16 DEF ReuseScratch, TakeScratch, WaitOver, s
  <2> QED BY <1>16, <1>b, <2>1, <2>3, <2>4 DEF ReuseScratch
<1>17. CASE ScopeBegin BY <1>17 DEF ScopeBegin
<1>18. CASE RollbackBegin BY <1>18 DEF RollbackBegin, BroadcastGoto
<1>19. CASE RecordFence BY <1>19 DEF RecordFence
<1>20. CASE RetireSlot BY <1>20 DEF RetireSlot, BroadcastGoto
<1>21. CASE ReleaseRetired BY <1>21 DEF ReleaseRetired
<1>22. CASE DownloadValidate BY <1>22 DEF DownloadValidate
<1>23. CASE DownloadWait BY <1>23 DEF DownloadWait, StartWait
<1>24. CASE DownloadCopy BY <1>24 DEF DownloadCopy, WaitOver
<1>25. CASE Synchronize BY <1>25 DEF Synchronize, StartWait
<1>26. CASE SynchronizeReturns BY <1>26 DEF SynchronizeReturns, WaitOver
<1>27. CASE GpuFinish BY <1>27 DEF GpuFinish
<1>28. CASE UNCHANGED vars BY <1>28 DEF vars
<1>29. ASSUME NEW w \in Workers, AbortAgain(w) PROVE Buffered'
  <2>1. /\ \A d \in DataSlot : slotState[d] \in {"RETIRED", "IN_STEP"} => slotState'[d] = slotState[d] /\ slotFence'[d] = slotFence[d]
        /\ pc'[w] = "idle" /\ \A u \in Thread \ {w} : pc'[u] = pc[u] \/ (pc[u] = "sleep" /\ pc'[u] = "scan")
    BY <1>29, <1>a DEF AbortAgain
  <2>2. UNCHANGED <<fenceVars, deviceVars, scratchVars, wait>> /\ \A u \in Thread \ {w} : lease'[u] = lease[u]
    BY <1>29 DEF AbortAgain, AbortSlot
  <2>3. w # Main BY <1>29 DEF AbortAgain
  <2>4. \A j \in inFlight' : \/ slotState'[j.data] = "RETIRED" /\ slotFence'[j.data] = j.seq
                             \/ pc'[Main] = "retire" /\ lease'[Main].slot = j.data /\ j.seq = nextFence'
    <3>1. inFlight' = inFlight /\ nextFence' = nextFence BY <2>2
    <3>2. pc[Main] = "retire" => pc'[Main] = "retire" /\ lease'[Main] = lease[Main] BY <2>1, <2>2, <2>3
    <3> QED BY ONLY <1>b, <2>1, <3>1, <3>2
  <2>5. Phase(Main)' \in StepPhases => slotState'[lease'[Main].slot] = "IN_STEP"
    BY <1>d, <2>1, <2>2, <2>3
  <2> QED BY <2>1, <2>2, <2>3, <2>4, <2>5
<1> QED BY <1>1, <1>2, <1>3, <1>4, <1>5, <1>6, <1>7, <1>8, <1>9, <1>10, <1>11, <1>12, <1>13, <1>14, <1>15, <1>16, <1>17, <1>18, <1>19, <1>20, <1>21, <1>22, <1>23, <1>24, <1>25, <1>26, <1>27, <1>28, <1>29 DEF Next, MainNext, Acquire, WaitUntil, Fill, BeginStep, EndStep, Download

----------------------------------------------------------------------------
\* A nonempty set of naturals has a least element.
LEMMA LeastElement == ASSUME NEW T, T \subseteq Nat, T # {} PROVE \E x \in T : \A y \in T : x <= y
<1>1. PICK x \in T : \A y \in T : ~ (<<y, x>> \in OpToRel(<, Nat)) BY NatLessThanWellFounded, WFMin
<1>2. \A y \in T : ~ (y < x) BY <1>1 DEF OpToRel
<1> QED BY <1>2

\* A scan that finds no slot in state st has seen every slot in another state.
LEMMA FirstFinds == ASSUME TypeOK, NEW st, First(st) = {} PROVE \A d \in DataSlot : slotState[d] # st
<1> DEFINE T == {d \in DataSlot : slotState[d] = st}
<1>1. ASSUME T # {} PROVE FALSE
  <2>1. T \subseteq Nat BY DEF DataSlot
  <2>2. PICK x \in T : \A y \in T : x <= y BY <1>1, <2>1, LeastElement
  <2>3. x \in First(st) BY <2>1, <2>2 DEF First, DataSlot
  <2> QED BY <2>3
<1> QED BY <1>1

\* Whoever makes a slot free or retired broadcasts in the same critical section,
\* and whoever goes to sleep has seen no such slot in that section.
LEMMA NoLostWakeupNext == Typed /\ NoLostWakeup /\ [Next]_vars => NoLostWakeup'
<1> SUFFICES ASSUME Typed, NoLostWakeup, [Next]_vars PROVE NoLostWakeup' OBVIOUS
<1> USE DEF Typed, TypeOK, NoLostWakeup, Thread, Goto, dataVars
<1>a. \A t \in Thread : wait[t].then # "sleep" /\ Unwind[wait[t].then] # "sleep" BY DEF Wait, Unwind
<1>1. ASSUME NEW t \in Thread, WaitLock(t) PROVE NoLostWakeup' BY <1>1, <1>a DEF WaitLock
<1>2. ASSUME NEW t \in Thread, WaitDone(t) PROVE NoLostWakeup' BY <1>2, <1>a DEF WaitDone
<1>3. ASSUME NEW w \in Workers, StartFill(w) PROVE NoLostWakeup' BY <1>3 DEF StartFill
<1>4. ASSUME NEW t \in Thread, AcquireFree(t) PROVE NoLostWakeup' BY <1>4 DEF AcquireFree, First
<1>5. ASSUME NEW t \in Thread, AcquireRetired(t) PROVE NoLostWakeup' BY <1>5 DEF AcquireRetired, StartWait
<1>6. ASSUME NEW t \in Thread, AcquireSleep(t) PROVE NoLostWakeup'
  BY <1>6, FirstFinds DEF AcquireSleep
<1>7. ASSUME NEW t \in Thread, AcquireRecheck(t) PROVE NoLostWakeup' BY <1>7 DEF AcquireRecheck, BroadcastGoto
<1>8. ASSUME NEW t \in Thread, PublishSlot(t) PROVE NoLostWakeup' BY <1>8 DEF PublishSlot, BroadcastGoto
<1>9. ASSUME NEW w \in Workers, AbortFill(w) PROVE NoLostWakeup' BY <1>9 DEF AbortFill, AbortSlot, BroadcastGoto
<1>10. CASE TakeBatch BY <1>10 DEF TakeBatch
<1>11. CASE ReleaseUnused BY <1>11 DEF ReleaseUnused, AbortSlot, BroadcastGoto
<1>12. CASE BeginEmpty BY <1>12 DEF BeginEmpty
<1>13. CASE BeginOnDataSlot BY <1>13 DEF BeginOnDataSlot
<1>14. CASE PollScratch BY <1>14 DEF PollScratch, TakeScratch
<1>15. CASE WaitOldestScratch BY <1>15 DEF WaitOldestScratch, StartWait
<1>16. CASE ReuseScratch BY <1>16 DEF ReuseScratch, TakeScratch
<1>17. CASE ScopeBegin BY <1>17 DEF ScopeBegin
<1>18. CASE RollbackBegin BY <1>18 DEF RollbackBegin, BroadcastGoto
<1>19. CASE RecordFence BY <1>19 DEF RecordFence
<1>20. CASE RetireSlot BY <1>20 DEF RetireSlot, BroadcastGoto
<1>21. CASE ReleaseRetired BY <1>21 DEF ReleaseRetired
<1>22. CASE DownloadValidate BY <1>22 DEF DownloadValidate
<1>23. CASE DownloadWait BY <1>23 DEF DownloadWait, StartWait
<1>24. CASE DownloadCopy BY <1>24 DEF DownloadCopy
<1>25. CASE Synchronize BY <1>25 DEF Synchronize, StartWait
<1>26. CASE SynchronizeReturns BY <1>26 DEF SynchronizeReturns
<1>27. CASE GpuFinish BY <1>27 DEF GpuFinish
<1>28. CASE UNCHANGED vars BY <1>28 DEF vars
<1>29. ASSUME NEW w \in Workers, AbortAgain(w) PROVE NoLostWakeup' BY <1>29, SMTT(30) DEF AbortAgain, AbortSlot, BroadcastGoto
<1> QED
  BY <1>1, <1>2, <1>3, <1>4, <1>5, <1>6, <1>7, <1>8, <1>9, <1>10, <1>11, <1>12, <1>13, <1>14, <1>15,
     <1>16, <1>17, <1>18, <1>19, <1>20, <1>21, <1>22, <1>23, <1>24, <1>25, <1>26, <1>27, <1>28, <1>29
  DEF Next, MainNext, Acquire, WaitUntil, Fill, BeginStep, EndStep, Download

----------------------------------------------------------------------------
\* Layer 5 is kept by every step: a slot changes hands together with its state
\* and its generation.
LEMMA LeasedNext == Typed /\ Typed' /\ Leased /\ Settled /\ [Next]_vars => Leased'
<1> SUFFICES ASSUME Typed, Typed', Leased, Settled, [Next]_vars PROVE Leased' OBVIOUS
<1> USE StepContextAssumption DEF Typed, TypeOK, Leased, Holds, Phase, StepPhases, Thread, Wait, Goto, dataVars
<1>a. ASSUME pc[Main] = "taken" PROVE lease[Main].slot \in DataSlot /\ \A l \in ready : l.slot # lease[Main].slot
  <2>1. lease[Main] \in Lease BY <1>a DEF Control, OwnerPhases
  <2>2. \A l \in ready : l \in Lease /\ slotGen[l.slot] = l.gen BY <1>a
  <2>3. slotGen[lease[Main].slot] = lease[Main].gen /\ lease[Main] \notin ready BY <1>a
  <2> QED BY ONLY <2>1, <2>2, <2>3 DEF Lease
<1>1. ASSUME NEW t \in Thread, WaitLock(t) PROVE Leased' BY <1>1 DEF WaitLock, Unwind, WaitOver
<1>2. ASSUME NEW t \in Thread, WaitDone(t) PROVE Leased' BY <1>2 DEF WaitDone, Unwind, WaitOver
<1>3. ASSUME NEW w \in Workers, StartFill(w) PROVE Leased' BY <1>3 DEF StartFill
<1>4. ASSUME NEW t \in Thread, AcquireFree(t) PROVE Leased' BY <1>4 DEF AcquireFree, First
<1>5. ASSUME NEW t \in Thread, AcquireRetired(t) PROVE Leased' BY <1>5 DEF AcquireRetired, StartWait
<1>6. ASSUME NEW t \in Thread, AcquireSleep(t) PROVE Leased' BY <1>6 DEF AcquireSleep
<1>7. ASSUME NEW t \in Thread, AcquireRecheck(t) PROVE Leased' BY <1>7 DEF AcquireRecheck, WaitOver, BroadcastGoto
<1>8. ASSUME NEW t \in Thread, PublishSlot(t) PROVE Leased' BY <1>8 DEF PublishSlot, BroadcastGoto
<1>9. ASSUME NEW w \in Workers, AbortFill(w) PROVE Leased' BY <1>9 DEF AbortFill, AbortSlot, BroadcastGoto
<1>10. CASE TakeBatch BY <1>10 DEF TakeBatch
<1>11. CASE ReleaseUnused
  <2>1. pc[Main] = "taken" /\ Holds(lease[Main], {"FILLING", "READY"}) BY <1>11 DEF ReleaseUnused
  <2>2. /\ slotState' = [slotState EXCEPT ![lease[Main].slot] = "FREE"]
        /\ pc'[Main] = "idle" /\ \A u \in Thread \ {Main} : pc'[u] = pc[u] \/ (pc[u] = "sleep" /\ pc'[u] = "scan")
    BY <1>11, <2>1 DEF ReleaseUnused, AbortSlot, BroadcastGoto
  <2>3. UNCHANGED <<slotGen, ready, wait>> /\ \A u \in Thread \ {Main} : lease'[u] = lease[u]
    BY <1>11 DEF ReleaseUnused, AbortSlot
  <2>4. \A u \in Thread : pc'[u] = "fill" => u # Main /\ pc[u] = "fill" /\ lease'[u] = lease[u] /\ lease[u].slot # lease[Main].slot
    BY <2>1, <2>2, <2>3
  <2>5. \A l \in ready : l.slot # lease[Main].slot BY <2>1, <1>a
  <2>6. \A t \in Thread : pc'[t] = "fill" => Holds(lease[t], {"FILLING"})' BY <2>2, <2>3, <2>4
  <2>7. \A l \in ready' : Holds(l, {"READY"})' BY <2>2, <2>3, <2>5
  <2> QED BY <2>2, <2>3, <2>4, <2>6, <2>7
<1>12. CASE BeginEmpty BY <1>12 DEF BeginEmpty
<1>13. CASE BeginOnDataSlot
  <2>1. slotState' = [slotState EXCEPT ![lease[Main].slot] = "IN_STEP"] /\ pc' = [pc EXCEPT ![Main] = "select"]
    BY <1>13 DEF BeginOnDataSlot
  <2>2. \A l \in ready : l.slot # lease[Main].slot BY <1>13, <1>a DEF BeginOnDataSlot
  <2> QED BY <1>13, <1>a, <2>1, <2>2 DEF BeginOnDataSlot
<1>14. CASE PollScratch BY <1>14 DEF PollScratch, TakeScratch
<1>15. CASE WaitOldestScratch BY <1>15 DEF WaitOldestScratch, StartWait
<1>16. CASE ReuseScratch BY <1>16 DEF ReuseScratch, TakeScratch, WaitOver
<1>17. CASE ScopeBegin BY <1>17 DEF ScopeBegin
<1>18. CASE RollbackBegin BY <1>18 DEF RollbackBegin, BroadcastGoto
<1>19. CASE RecordFence BY <1>19 DEF RecordFence
<1>20. CASE RetireSlot BY <1>20 DEF RetireSlot, BroadcastGoto
<1>21. CASE ReleaseRetired BY <1>21 DEF ReleaseRetired
<1>22. CASE DownloadValidate BY <1>22 DEF DownloadValidate
<1>23. CASE DownloadWait BY <1>23 DEF DownloadWait, StartWait
<1>24. CASE DownloadCopy BY <1>24 DEF DownloadCopy, WaitOver
<1>25. CASE Synchronize BY <1>25 DEF Synchronize, StartWait
<1>26. CASE SynchronizeReturns BY <1>26 DEF SynchronizeReturns, WaitOver
<1>27. CASE GpuFinish BY <1>27 DEF GpuFinish
<1>28. CASE UNCHANGED vars BY <1>28 DEF vars
<1>29. ASSUME NEW w \in Workers, AbortAgain(w) PROVE Leased'
  <2>1. ~ Holds(lease[w], {"FILLING", "READY"}) BY <1>29 DEF AbortAgain, Settled
  <2>2. /\ pc' = [pc EXCEPT ![w] = "idle"] /\ lease' = [lease EXCEPT ![w] = NoLease]
        /\ UNCHANGED <<slotState, slotGen, ready, wait>>
    BY <1>29, <2>1 DEF AbortAgain, AbortSlot
  <2> QED BY <1>29, <2>2 DEF AbortAgain
<1> QED
  BY <1>1, <1>2, <1>3, <1>4, <1>5, <1>6, <1>7, <1>8, <1>9, <1>10, <1>11, <1>12, <1>13, <1>14, <1>15,
     <1>16, <1>17, <1>18, <1>19, <1>20, <1>21, <1>22, <1>23, <1>24, <1>25, <1>26, <1>27, <1>28, <1>29
  DEF Next, MainNext, Acquire, WaitUntil, Fill, BeginStep, EndStep, Download

\* Nothing but taking a slot ends its being free, and NotLapped keeps the taker
\* off the generation of the thread between its two aborts.
LEMMA SettledNext == Typed /\ Leased /\ Settled /\ [Next]_vars => Settled'
<1> SUFFICES ASSUME Typed, Leased, Settled, [Next]_vars PROVE Settled' OBVIOUS
<1> USE DEF Typed, TypeOK, Settled, Thread, Wait, Goto, dataVars
<1>a. \A t \in Thread : wait[t].then # "again" /\ Unwind[wait[t].then] # "again" BY DEF Unwind
<1>b. \A t \in Thread : pc[t] = "again" => lease[t] \in Lease BY DEF Control
<1>c. ASSUME slotGen' = slotGen, NEW t \in Thread,
             \A u \in Thread \ {t} : pc'[u] = "again" => pc[u] = "again" /\ lease'[u] = lease[u],
             \A d \in DataSlot : slotState[d] = "FREE" => slotState'[d] = "FREE",
             pc'[t] # "again"
      PROVE  Settled'
  BY <1>b, <1>c DEF Lease
<1>1. ASSUME NEW t \in Thread, WaitLock(t) PROVE Settled' BY <1>1, <1>a, <1>b DEF WaitLock, Unwind, WaitOver
<1>2. ASSUME NEW t \in Thread, WaitDone(t) PROVE Settled' BY <1>2, <1>a, <1>b DEF WaitDone, Unwind, WaitOver
<1>3. ASSUME NEW w \in Workers, StartFill(w) PROVE Settled' BY <1>3, <1>b DEF StartFill
<1>4. ASSUME NEW t \in Thread, AcquireFree(t) PROVE Settled'
  <2>1. PICK d \in First("FREE") :
          /\ slotGen' = [slotGen EXCEPT ![d] = NextGeneration(d)]
          /\ slotState' = [slotState EXCEPT ![d] = "FILLING"]
          /\ NotLapped([slot |-> d, gen |-> NextGeneration(d)])
    BY <1>4 DEF AcquireFree
  <2>2. d \in DataSlot BY DEF First
  <2>3. ASSUME NEW u \in Thread, pc'[u] = "again"
        PROVE  slotState'[lease'[u].slot] = "FREE" \/ slotGen'[lease'[u].slot] # lease'[u].gen
    <3>1. u # t /\ pc[u] = "again" /\ lease'[u] = lease[u] /\ lease[u] \in Lease BY <1>4, <1>b, <2>3 DEF AcquireFree
    <3>2. CASE lease[u].slot = d
      <4>1. lease[u] # [slot |-> d, gen |-> NextGeneration(d)] BY <2>1, <3>1 DEF NotLapped
      <4>2. lease[u].gen # NextGeneration(d) BY <3>1, <3>2, <4>1 DEF Lease
      <4> QED BY <2>1, <2>2, <3>1, <3>2, <4>2
    <3>3. CASE lease[u].slot # d BY <2>1, <3>1, <3>3
    <3> QED BY <3>2, <3>3
  <2> QED BY <2>3
<1>5. ASSUME NEW t \in Thread, AcquireRetired(t) PROVE Settled' BY <1>5, <1>b DEF AcquireRetired, StartWait
<1>6. ASSUME NEW t \in Thread, AcquireSleep(t) PROVE Settled' BY <1>6, <1>b DEF AcquireSleep
<1>7. ASSUME NEW t \in Thread, AcquireRecheck(t) PROVE Settled'
  <2>1. \A d \in DataSlot : slotState[d] = "FREE" => slotState'[d] = "FREE" BY <1>7 DEF AcquireRecheck
  <2> QED BY <1>7, <1>c, <2>1 DEF AcquireRecheck, BroadcastGoto
<1>8. ASSUME NEW t \in Thread, PublishSlot(t) PROVE Settled'
  <2>1. \A d \in DataSlot : slotState[d] = "FREE" => slotState'[d] = "FREE" BY <1>8 DEF PublishSlot, Holds
  <2>2. pc'[t] # "again" /\ \A u \in Thread \ {t} : pc'[u] = "again" => pc[u] = "again" /\ lease'[u] = lease[u]
    BY <1>8 DEF PublishSlot, BroadcastGoto
  <2> QED BY <1>8, <1>c, <2>1, <2>2 DEF PublishSlot
<1>9. ASSUME NEW w \in Workers, AbortFill(w) PROVE Settled'
  <2>1. w \in Thread /\ pc[w] = "fill" /\ lease[w] \in Lease /\ Holds(lease[w], {"FILLING", "READY"})
    BY <1>9 DEF AbortFill, Leased, Holds, Control
  <2>2. /\ slotState' = [slotState EXCEPT ![lease[w].slot] = "FREE"] /\ slotGen' = slotGen
        /\ BroadcastGoto(w, "again") /\ lease' = [lease EXCEPT ![w] = lease[w]]
    BY <1>9, <2>1 DEF AbortFill, AbortSlot
  <2>3. lease' = lease BY <2>1, <2>2
  <2>4. \A d \in DataSlot : slotState[d] = "FREE" => slotState'[d] = "FREE" BY <2>2
  <2>5. slotState'[lease[w].slot] = "FREE" BY <2>1, <2>2 DEF Lease
  <2>6. ASSUME NEW u \in Thread \ {w}, pc'[u] = "again" PROVE pc[u] = "again" BY <2>2, <2>6 DEF BroadcastGoto
  <2>7. ASSUME NEW u \in Thread, pc'[u] = "again"
        PROVE  slotState'[lease'[u].slot] = "FREE" \/ slotGen'[lease'[u].slot] # lease'[u].gen
    BY <1>b, <2>2, <2>3, <2>4, <2>5, <2>6, <2>7 DEF Lease
  <2> QED BY <2>7
<1>10. CASE TakeBatch BY <1>10 DEF TakeBatch
<1>11. CASE ReleaseUnused
  <2>1. \A d \in DataSlot : slotState[d] = "FREE" => slotState'[d] = "FREE" BY <1>11 DEF ReleaseUnused, AbortSlot
  <2>2. /\ Main \in Thread /\ pc'[Main] # "again"
        /\ \A u \in Thread \ {Main} : pc'[u] = "again" => pc[u] = "again" /\ lease'[u] = lease[u]
    BY <1>11 DEF ReleaseUnused, AbortSlot, BroadcastGoto
  <2> QED BY <1>11, <1>c, <2>1, <2>2 DEF ReleaseUnused, AbortSlot
<1>12. CASE BeginEmpty BY <1>12 DEF BeginEmpty
<1>13. CASE BeginOnDataSlot BY <1>13, <1>b DEF BeginOnDataSlot, Holds
<1>14. CASE PollScratch BY <1>14 DEF PollScratch, TakeScratch
<1>15. CASE WaitOldestScratch BY <1>15 DEF WaitOldestScratch, StartWait
<1>16. CASE ReuseScratch BY <1>16 DEF ReuseScratch, TakeScratch
<1>17. CASE ScopeBegin BY <1>17 DEF ScopeBegin
<1>18. CASE RollbackBegin BY <1>18, <1>b DEF RollbackBegin, BroadcastGoto, Leased, Holds, Phase, StepPhases
<1>19. CASE RecordFence BY <1>19 DEF RecordFence
<1>20. CASE RetireSlot BY <1>20, <1>b DEF RetireSlot, BroadcastGoto, Leased, Holds, Phase, StepPhases
<1>21. CASE ReleaseRetired BY <1>21 DEF ReleaseRetired
<1>22. CASE DownloadValidate BY <1>22 DEF DownloadValidate
<1>23. CASE DownloadWait BY <1>23 DEF DownloadWait, StartWait
<1>24. CASE DownloadCopy BY <1>24 DEF DownloadCopy
<1>25. CASE Synchronize BY <1>25 DEF Synchronize, StartWait
<1>26. CASE SynchronizeReturns BY <1>26 DEF SynchronizeReturns
<1>27. CASE GpuFinish BY <1>27 DEF GpuFinish
<1>28. CASE UNCHANGED vars BY <1>28 DEF vars
<1>29. ASSUME NEW w \in Workers, AbortAgain(w) PROVE Settled'
  <2>1. \A d \in DataSlot : slotState[d] = "FREE" => slotState'[d] = "FREE" BY <1>29 DEF AbortAgain, AbortSlot
  <2>2. /\ w \in Thread /\ pc'[w] # "again"
        /\ \A u \in Thread \ {w} : pc'[u] = "again" => pc[u] = "again" /\ lease'[u] = lease[u]
    BY <1>29 DEF AbortAgain, AbortSlot, BroadcastGoto
  <2> QED BY <1>29, <1>c, <2>1, <2>2 DEF AbortAgain, AbortSlot
<1> QED
  BY <1>1, <1>2, <1>3, <1>4, <1>5, <1>6, <1>7, <1>8, <1>9, <1>10, <1>11, <1>12, <1>13, <1>14, <1>15,
     <1>16, <1>17, <1>18, <1>19, <1>20, <1>21, <1>22, <1>23, <1>24, <1>25, <1>26, <1>27, <1>28, <1>29
  DEF Next, MainNext, Acquire, WaitUntil, Fill, BeginStep, EndStep, Download

----------------------------------------------------------------------------
\* Layer 4 is kept by every step: gd_ring_select overwrites the fence of a
\* scratch slot only once that fence is out of the table.
LEMMA PendingIsScratchNext == Typed /\ Fenced /\ Buffered /\ PendingIsScratch /\ [Next]_vars => PendingIsScratch'
<1> SUFFICES ASSUME Typed, Fenced, Buffered, PendingIsScratch, [Next]_vars PROVE PendingIsScratch' OBVIOUS
<1> USE StepContextAssumption DEF Typed, TypeOK, PendingIsScratch, Thread, fenceVars, scratchVars
<1>a. /\ completedFence \in Nat /\ nextFence \in Nat /\ pending = completedFence + 1 .. nextFence
      /\ \A p \in pending : p \in Nat /\ completedFence < p
  BY DEF Fenced
<1>1. ASSUME NEW t \in Thread, WaitLock(t) PROVE PendingIsScratch' BY <1>1 DEF WaitLock
<1>2. ASSUME NEW t \in Thread, WaitDone(t) PROVE PendingIsScratch'
  <2>1. pending' \subseteq pending /\ scratchFence' = scratchFence BY <1>2 DEF WaitDone, ReleaseCompleted
  <2> QED BY <2>1
<1>3. ASSUME NEW w \in Workers, StartFill(w) PROVE PendingIsScratch' BY <1>3 DEF StartFill
<1>4. ASSUME NEW t \in Thread, AcquireFree(t) PROVE PendingIsScratch' BY <1>4 DEF AcquireFree
<1>5. ASSUME NEW t \in Thread, AcquireRetired(t) PROVE PendingIsScratch' BY <1>5 DEF AcquireRetired
<1>6. ASSUME NEW t \in Thread, AcquireSleep(t) PROVE PendingIsScratch' BY <1>6 DEF AcquireSleep
<1>7. ASSUME NEW t \in Thread, AcquireRecheck(t) PROVE PendingIsScratch' BY <1>7 DEF AcquireRecheck
<1>8. ASSUME NEW t \in Thread, PublishSlot(t) PROVE PendingIsScratch' BY <1>8 DEF PublishSlot
<1>9. ASSUME NEW w \in Workers, AbortFill(w) PROVE PendingIsScratch' BY <1>9 DEF AbortFill, AbortSlot
<1>10. CASE TakeBatch BY <1>10 DEF TakeBatch
<1>11. CASE ReleaseUnused BY <1>11 DEF ReleaseUnused, AbortSlot
<1>12. CASE BeginEmpty BY <1>12 DEF BeginEmpty
<1>13. CASE BeginOnDataSlot BY <1>13 DEF BeginOnDataSlot
<1>14. CASE PollScratch
  <2> DEFINE s == (scratchCurrent + 1 + probe) % ScratchSlots
  <2>1. s \in ScratchSlot BY ProbeInRange
  <2> HIDE DEF s
  <2>2. CASE FenceIsComplete(scratchFence[s])
    <3>1. NoteComplete(scratchFence[s]) /\ scratchFence' = [scratchFence EXCEPT ![s] = 0]
      BY <1>14, <2>2 DEF PollScratch, TakeScratch, s
    <3>2. /\ completedFence \in Nat /\ completedFence' \in Nat /\ completedFence <= completedFence'
          /\ scratchFence[s] \in Nat /\ scratchFence[s] <= completedFence'
          /\ pending' = completedFence' + 1 .. nextFence
      BY <2>1, <2>2, <3>1, NoteCompleteFenced
    <3>3. ASSUME NEW p \in pending' PROVE p \in pending /\ p # scratchFence[s]
      <4>1. p \in Nat /\ completedFence' < p /\ p <= nextFence
        BY <1>a, <3>2, IntervalMember
      <4>2. completedFence < p /\ scratchFence[s] < p BY ONLY <3>2, <4>1
      <4> QED BY ONLY <1>a, <3>2, <4>1, <4>2
    <3> QED BY <3>1, <3>3
  <2>3. CASE ~FenceIsComplete(scratchFence[s])
    <3>1. pending' = pending /\ scratchFence' = scratchFence BY <1>14, <2>3 DEF PollScratch, s
    <3> QED BY <3>1
  <2> QED BY <2>2, <2>3
<1>15. CASE WaitOldestScratch BY <1>15 DEF WaitOldestScratch
<1>16. CASE ReuseScratch
  <2> DEFINE s == wait[Main].slot
  <2>1. s \in ScratchSlot /\ scratchFence[s] <= completedFence /\ completedFence \in Nat /\ scratchFence[s] \in Nat
    BY <1>16 DEF ReuseScratch, Control, Fenced, Buffered, Phase
  <2>2. pending' = pending /\ scratchFence' = [scratchFence EXCEPT ![s] = 0] BY <1>16 DEF ReuseScratch, TakeScratch
  <2>3. \A p \in pending : p # scratchFence[s] BY <1>a, <2>1
  <2> QED BY <2>2, <2>3
<1>17. CASE ScopeBegin BY <1>17 DEF ScopeBegin
<1>18. CASE RollbackBegin BY <1>18 DEF RollbackBegin
<1>19. CASE RecordFence
  <2>1. /\ pending' \subseteq pending \cup {nextFence + 1}
        /\ scratchFence' = [scratchFence EXCEPT ![scratchCurrent] = nextFence + 1]
    BY <1>19 DEF RecordFence, ReleaseCompleted
  <2>2. scratchCurrent \in ScratchSlot /\ scratchFence[scratchCurrent] = 0
    BY <1>19 DEF RecordFence, Control, Buffered
  <2>3. \A p \in pending : p # 0 BY <1>a DEF Fenced
  <2> QED BY <2>1, <2>2, <2>3
<1>20. CASE RetireSlot BY <1>20 DEF RetireSlot
<1>21. CASE ReleaseRetired BY <1>21 DEF ReleaseRetired
<1>22. CASE DownloadValidate BY <1>22 DEF DownloadValidate
<1>23. CASE DownloadWait
  <2>1. pending' \subseteq pending /\ scratchFence' = scratchFence
    BY <1>23 DEF DownloadWait, NoteComplete, ReleaseCompleted
  <2> QED BY <2>1
<1>24. CASE DownloadCopy BY <1>24 DEF DownloadCopy
<1>25. CASE Synchronize
  <2>1. pending' \subseteq pending /\ scratchFence' = scratchFence
    BY <1>25 DEF Synchronize, NoteComplete, ReleaseCompleted
  <2> QED BY <2>1
<1>26. CASE SynchronizeReturns BY <1>26 DEF SynchronizeReturns
<1>27. CASE GpuFinish BY <1>27 DEF GpuFinish
<1>28. CASE UNCHANGED vars BY <1>28 DEF vars
<1>29. ASSUME NEW w \in Workers, AbortAgain(w) PROVE PendingIsScratch' BY <1>29 DEF AbortAgain, AbortSlot
<1> QED
  BY <1>1, <1>2, <1>3, <1>4, <1>5, <1>6, <1>7, <1>8, <1>9, <1>10, <1>11, <1>12, <1>13, <1>14, <1>15,
     <1>16, <1>17, <1>18, <1>19, <1>20, <1>21, <1>22, <1>23, <1>24, <1>25, <1>26, <1>27, <1>28, <1>29
  DEF Next, MainNext, Acquire, WaitUntil, Fill, BeginStep, EndStep, Download

\* Distinct fences of the table belong to distinct scratch slots, so there are at
\* most as many fences as slots.
LEMMA PendingAtMostScratch == ASSUME Typed, Fenced, PendingIsScratch PROVE PendingBounded
<1> DEFINE f == [p \in pending |-> CHOOSE s \in ScratchSlot : scratchFence[s] = p]
<1>1. \A p \in pending : f[p] \in ScratchSlot /\ scratchFence[f[p]] = p BY DEF PendingIsScratch
<1> HIDE DEF f
<1>2. f \in Injection(pending, ScratchSlot)
  <2>1. f \in [pending -> ScratchSlot] BY <1>1 DEF f
  <2>2. \A p, q \in pending : f[p] = f[q] => p = q BY <1>1
  <2> QED BY <2>1, <2>2 DEF Injection, IsInjective
<1>3. IsFiniteSet(ScratchSlot) /\ Cardinality(ScratchSlot) = ScratchSlots
  BY FS_Interval, StepContextAssumption DEF ScratchSlot
<1> QED BY <1>2, <1>3, FS_Injection DEF PendingBounded

----------------------------------------------------------------------------
(* The theorems.                                                           *)

\* The state of a context, and of every thread using it, stays in range.
THEOREM TypeCorrect == Spec => []Typed
<1>1. Init => Typed
  <2> SUFFICES ASSUME Init PROVE TypeOK /\ Control BY DEF Typed
  <2>1. NoWait \in Wait BY DEF NoWait, Wait
  <2>2. 1 \in Generation BY DEF Generation
  <2>3. TypeOK
    <3>1. slotState \in [DataSlot -> SlotState] BY DEF Init, SlotState
    <3>2. slotGen \in [DataSlot -> Generation] BY <2>2 DEF Init
    <3>3. pc \in [Thread -> PC] BY DEF Init, PC
    <3>4. wait \in [Thread -> Wait] /\ lease \in [Thread -> Lease \cup {NoLease}] BY <2>1 DEF Init
    <3>5. probe \in 0 .. ScratchSlots BY StepContextAssumption DEF Init
    <3> QED BY <3>1, <3>2, <3>3, <3>4, <3>5 DEF Init, TypeOK
  <2>4. Control
    BY StepContextAssumption DEF Init, Control, Thread, Phase, NoWait, OwnerPhases, StepPhases
  <2> QED BY <2>3, <2>4
<1>2. Typed /\ [Next]_vars => Typed' BY TypeOKNext, ControlNext DEF Typed
<1> QED BY <1>1, <1>2, PTL DEF Spec

\* Every variable keeps its type; the generation of a slot in particular is
\* never 0, also where it wraps.
THEOREM TypesHold == Spec => []TypeOK
<1>1. Typed => TypeOK BY DEF Typed
<1> QED BY <1>1, TypeCorrect, PTL

\* The layers together, which is what the other theorems rest on.
THEOREM Invariance == Spec => [](Fenced /\ Buffered)
<1> DEFINE Inv == Fenced /\ Buffered
<1>1. Init => Inv BY FencedInit, BufferedInit
<1>2. Typed /\ Typed' /\ Inv /\ [Next]_vars => Inv' BY FencedNext, BufferedNext
<1> QED BY <1>1, <1>2, TypeCorrect, PTL DEF Spec

\* No slot is recycled, and no scratch slot allocated from, while a command
\* buffer of the device still uses it.
THEOREM DeviceSafety == Spec => []DeviceKeepsBuffers
<1>1. Typed /\ Fenced /\ Buffered => DeviceKeepsBuffers
  <2> SUFFICES ASSUME Typed, Fenced, Buffered, NEW j \in inFlight
               PROVE  /\ slotState[j.data] \in {"IN_STEP", "RETIRED"}
                      /\ pc[Main] \in {"begin", "open"} => scratchCurrent # j.scratch
    BY DEF DeviceKeepsBuffers
  <2>1. j.seq # 0 BY DEF Fenced, Typed, TypeOK, Job
  <2> QED BY <2>1 DEF Buffered, Phase, StepPhases
<1> QED BY <1>1, TypeCorrect, Invariance, PTL

\* gd_backend_wait_until never finds its fence missing.
THEOREM FenceFound == Spec => []WaitedFenceIsKnown
<1>1. Typed /\ Fenced => WaitedFenceIsKnown
  BY DEF Typed, TypeOK, Fenced, WaitedFenceIsKnown, Wait
<1> QED BY <1>1, TypeCorrect, Invariance, PTL

\* When gd_synchronize returns GD_OK, the device is idle.
THEOREM SynchronizeIsSound == Spec => []SynchronizeDrains
<1>1. Typed /\ Fenced => SynchronizeDrains
  BY DEF Typed, TypeOK, Fenced, SynchronizeDrains, Job
<1> QED BY <1>1, TypeCorrect, Invariance, PTL

\* The fence table never fills up, whatever the number of ring slots.
THEOREM TableNeverFull == Spec => []PendingBounded
<1>1. Init => PendingIsScratch BY DEF Init, PendingIsScratch
<1>2. Typed /\ Fenced /\ PendingIsScratch => PendingBounded BY PendingAtMostScratch
<1> QED BY <1>1, <1>2, PendingIsScratchNext, TypeCorrect, Invariance, PTL DEF Spec

\* No wakeup of data_cv is lost.
THEOREM WakeupsKept == Spec => []NoLostWakeup
<1>1. Init => NoLostWakeup BY DEF Init, NoLostWakeup, Thread
<1> QED BY <1>1, NoLostWakeupNext, TypeCorrect, PTL DEF Spec

\* Every data slot has at most one user, under its present generation, also when
\* gd_dl_fill_slot fails and aborts its slot twice: as long as no slot goes round
\* all its generations between the two aborts (NotLapped in StepContext).
THEOREM SlotsExclusive == Spec => []LeaseIsExclusive
<1>1. Init => Leased BY StepContextAssumption DEF Init, Leased, Phase, StepPhases, Thread
<1>2. Typed /\ Leased => LeaseIsExclusive
  <2> SUFFICES ASSUME Typed, Leased PROVE LeaseIsExclusive OBVIOUS
  <2>1. \A t \in Thread : pc[t] = "taken" => t = Main BY DEF Typed, Control, Phase, Thread
  <2>2. \A l \in Leases : Holds(l, {"FILLING", "READY"}) BY <2>1 DEF Leases, Leased, Holds
  <2>3. \A t, u \in Thread : t # u /\ pc[t] \in {"fill", "taken"} /\ pc[u] \in {"fill", "taken"}
                             => lease[t].slot # lease[u].slot
    BY <2>1 DEF Leased, Holds
  <2>4. \A t \in Thread : pc[t] \in {"fill", "taken"} => lease[t] \notin ready
    BY <2>1 DEF Leased, Holds
  <2> QED BY <2>2, <2>3, <2>4 DEF LeaseIsExclusive
<1>3. Init => Settled BY DEF Init, Settled
<1> QED BY <1>1, <1>2, <1>3, LeasedNext, SettledNext, TypeCorrect, PTL DEF Spec

\* completed_fence, written by the main thread and by loader threads, never
\* goes back.
THEOREM CompletedIsMonotonic == Spec => CompletedNeverDecreases
<1>1. Typed /\ Fenced /\ [Next]_vars => [completedFence' >= completedFence]_vars
  <2> SUFFICES ASSUME Typed, Fenced, [Next]_vars PROVE completedFence' >= completedFence OBVIOUS
  <2>1. completedFence \in Nat /\ nextFence \in Nat BY DEF Typed, TypeOK
  <2>2. ASSUME NEW q \in Nat, FenceIsComplete(q), NoteComplete(q) PROVE completedFence' >= completedFence
    BY <2>1, <2>2 DEF NoteComplete
  <2>3. ASSUME NEW t \in Thread, WaitDone(t) PROVE completedFence' >= completedFence
    BY <2>1, <2>3 DEF WaitDone, Fenced, Typed, TypeOK, Wait
  <2>4. CASE PollScratch
    BY <2>1, <2>2, <2>4, ProbeInRange DEF PollScratch, Typed, TypeOK
  <2>5. CASE DownloadWait
    <3>1. lease[Main].slot \in DataSlot
      BY <2>5 DEF DownloadWait, Typed, Control, Phase, OwnerPhases, Lease
    <3> QED BY <2>1, <2>2, <2>5, <3>1 DEF DownloadWait, Typed, TypeOK
  <2>6. CASE Synchronize BY <2>1, <2>2, <2>6 DEF Synchronize
  <2>7. CASE completedFence' = completedFence BY <2>1, <2>7
  <2> QED
    BY <2>3, <2>4, <2>5, <2>6, <2>7
    DEF Next, MainNext, Acquire, WaitUntil, Fill, BeginStep, EndStep, Download, vars, fenceVars,
        WaitLock, StartFill, AcquireFree, AcquireRetired, AcquireSleep, AcquireRecheck, PublishSlot,
        AbortFill, AbortAgain, AbortSlot, TakeBatch, ReleaseUnused, BeginEmpty, BeginOnDataSlot,
        WaitOldestScratch, ReuseScratch, ScopeBegin, RollbackBegin, RecordFence, RetireSlot,
        ReleaseRetired, DownloadValidate, DownloadCopy, SynchronizeReturns, GpuFinish, Thread
<1> QED BY <1>1, TypeCorrect, Invariance, PTL DEF Spec, CompletedNeverDecreases

----------------------------------------------------------------------------
(* The data ring of StepContext implements DeviceLease: every step of the  *)
(* ring moves at most one buffer, along an edge DeviceLease allows.        *)

\* A slot in a step is the slot of Main's step, and command buffers have
\* distinct fences.
StepOwned ==
  /\ \A d \in DataSlot : slotState[d] = "IN_STEP" => Phase(Main) \in StepPhases /\ lease[Main].slot = d
  /\ \A j, k \in inFlight : j.seq = k.seq => j = k

\* Kept by every step: RecordFence appends a fence no command buffer has.
LEMMA StepOwnedNext == Typed /\ Typed' /\ Fenced /\ StepOwned /\ [Next]_vars => StepOwned'
<1> SUFFICES ASSUME Typed, Typed', Fenced, StepOwned, [Next]_vars PROVE StepOwned' OBVIOUS
<1> USE StepContextAssumption DEF Typed, TypeOK, StepOwned, Phase, StepPhases, Thread, Wait, Goto, deviceVars, dataVars
<1>1. ASSUME NEW t \in Thread, WaitLock(t) PROVE StepOwned' BY <1>1 DEF WaitLock, Unwind, WaitOver
<1>2. ASSUME NEW t \in Thread, WaitDone(t) PROVE StepOwned' BY <1>2 DEF WaitDone, Unwind, WaitOver
<1>3. ASSUME NEW w \in Workers, StartFill(w) PROVE StepOwned' BY <1>3 DEF StartFill
<1>4. ASSUME NEW t \in Thread, AcquireFree(t) PROVE StepOwned' BY <1>4 DEF AcquireFree, First
<1>5. ASSUME NEW t \in Thread, AcquireRetired(t) PROVE StepOwned' BY <1>5 DEF AcquireRetired, StartWait
<1>6. ASSUME NEW t \in Thread, AcquireSleep(t) PROVE StepOwned' BY <1>6 DEF AcquireSleep
<1>7. ASSUME NEW t \in Thread, AcquireRecheck(t) PROVE StepOwned' BY <1>7 DEF AcquireRecheck, BroadcastGoto, WaitOver
<1>8. ASSUME NEW t \in Thread, PublishSlot(t) PROVE StepOwned' BY <1>8 DEF PublishSlot, BroadcastGoto
<1>9. ASSUME NEW w \in Workers, AbortFill(w) PROVE StepOwned' BY <1>9 DEF AbortFill, AbortSlot, BroadcastGoto
<1>10. CASE TakeBatch BY <1>10 DEF TakeBatch
<1>11. CASE ReleaseUnused BY <1>11 DEF ReleaseUnused, AbortSlot, BroadcastGoto
<1>12. CASE BeginEmpty BY <1>12 DEF BeginEmpty
<1>13. CASE BeginOnDataSlot BY <1>13 DEF BeginOnDataSlot
<1>14. CASE PollScratch BY <1>14 DEF PollScratch, TakeScratch
<1>15. CASE WaitOldestScratch BY <1>15 DEF WaitOldestScratch, StartWait
<1>16. CASE ReuseScratch BY <1>16 DEF ReuseScratch, TakeScratch, WaitOver
<1>17. CASE ScopeBegin BY <1>17 DEF ScopeBegin
<1>18. CASE RollbackBegin BY <1>18 DEF RollbackBegin, BroadcastGoto
<1>19. CASE RecordFence
  <2>1. /\ inFlight' = inFlight \cup {[seq |-> nextFence + 1, scratch |-> scratchCurrent, data |-> lease[Main].slot]}
        /\ UNCHANGED <<slotState, lease, wait>> /\ pc' = [pc EXCEPT ![Main] = "retire"]
    BY <1>19 DEF RecordFence
  <2>2. \A j \in inFlight : j.seq # nextFence + 1 BY DEF Fenced, Job
  <2>3. \A j, k \in inFlight' : j.seq = k.seq => j = k BY <2>1, <2>2 DEF StepOwned
  <2> QED BY <1>19, <2>1, <2>3 DEF RecordFence
<1>20. CASE RetireSlot BY <1>20 DEF RetireSlot, BroadcastGoto
<1>21. CASE ReleaseRetired BY <1>21 DEF ReleaseRetired
<1>22. CASE DownloadValidate BY <1>22 DEF DownloadValidate
<1>23. CASE DownloadWait BY <1>23 DEF DownloadWait, StartWait
<1>24. CASE DownloadCopy BY <1>24 DEF DownloadCopy, WaitOver
<1>25. CASE Synchronize BY <1>25 DEF Synchronize, StartWait
<1>26. CASE SynchronizeReturns BY <1>26 DEF SynchronizeReturns, WaitOver
<1>27. CASE GpuFinish BY <1>27 DEF GpuFinish
<1>28. CASE UNCHANGED vars BY <1>28 DEF vars
<1>29. ASSUME NEW w \in Workers, AbortAgain(w) PROVE StepOwned' BY <1>29 DEF AbortAgain, AbortSlot, BroadcastGoto
<1> QED
  BY <1>1, <1>2, <1>3, <1>4, <1>5, <1>6, <1>7, <1>8, <1>9, <1>10, <1>11, <1>12, <1>13, <1>14, <1>15,
     <1>16, <1>17, <1>18, <1>19, <1>20, <1>21, <1>22, <1>23, <1>24, <1>25, <1>26, <1>27, <1>28, <1>29
  DEF Next, MainNext, Acquire, WaitUntil, Fill, BeginStep, EndStep, Download

----------------------------------------------------------------------------
(* How one step of the ring looks to DeviceLease.                          *)

\* A command buffer of the device works on slot d.
Busy(d) == \E j \in inFlight : j.data = d

\* A slot looks the same as long as its state, the command buffers on it and,
\* for a slot in a step, Main's being between the two halves of gd_end_step
\* are the same.
LEMMA UseKept ==
  ASSUME NEW d \in DataSlot, slotState'[d] = slotState[d], Busy(d)' <=> Busy(d),
         slotState[d] = "IN_STEP" => (pc'[Main] = "retire" <=> pc[Main] = "retire")
  PROVE  UseOf(d)' = UseOf(d)
BY DEF UseOf, Busy

\* If every slot looks the same, DeviceLease stutters.
LEMMA UseStutters ==
  ASSUME \A d \in DataSlot : UseOf(d)' = UseOf(d)
  PROVE  UNCHANGED [d \in DataSlot |-> UseOf(d)]
OBVIOUS

\* If one slot changes, DeviceLease moves that buffer.
LEMMA UseMoves ==
  ASSUME NEW d \in DataSlot, \A e \in DataSlot \ {d} : UseOf(e)' = UseOf(e)
  PROVE  Abstract!Move(d, UseOf(d), UseOf(d)')
<1> DEFINE U == [e \in DataSlot |-> UseOf(e)]
<1>1. U' = [e \in DataSlot |-> UseOf(e)'] OBVIOUS
<1>2. U' = [U EXCEPT ![d] = UseOf(d)'] BY <1>1
<1> QED BY <1>2 DEF Abstract!Move

\* The edges of DeviceLease.
Edge(from, to) ==
  <<from, to>> \in {<<"free", "host">>, <<"host", "full">>, <<"host", "free">>, <<"full", "free">>,
                    <<"full", "step">>, <<"step", "full">>, <<"step", "free">>, <<"step", "device">>,
                    <<"device", "done">>, <<"done", "free">>}

\* ... and if the move is along one of the edges of DeviceLease, that is a step
\* of DeviceLease.
LEMMA UseEdge ==
  ASSUME NEW d \in DataSlot, \A e \in DataSlot \ {d} : UseOf(e)' = UseOf(e),
         Edge(UseOf(d), UseOf(d)')
  PROVE  Abstract!Next
<1>1. Abstract!Move(d, UseOf(d), UseOf(d)') BY UseMoves
<1> QED
  BY <1>1
  DEF Edge, Abstract!Next, Abstract!Lease, Abstract!Publish, Abstract!Cancel, Abstract!Open,
      Abstract!Rollback, Abstract!Submit, Abstract!Finish, Abstract!Reclaim

\* How the six uses of DeviceLease are read off a slot, before a step and after.
LEMMA UseNow ==
  ASSUME NEW d \in DataSlot
  PROVE  /\ slotState[d] = "FREE" => UseOf(d) = "free"
         /\ slotState[d] = "FILLING" => UseOf(d) = "host"
         /\ slotState[d] = "READY" => UseOf(d) = "full"
         /\ slotState[d] = "IN_STEP" /\ pc[Main] # "retire" => UseOf(d) = "step"
         /\ slotState[d] = "IN_STEP" /\ pc[Main] = "retire" => UseOf(d) = IF Busy(d) THEN "device" ELSE "done"
         /\ slotState[d] = "RETIRED" => UseOf(d) = IF Busy(d) THEN "device" ELSE "done"
BY DEF UseOf, Busy

\* The same for the state after a step.
LEMMA UseThen ==
  ASSUME NEW d \in DataSlot
  PROVE  /\ slotState'[d] = "FREE" => UseOf(d)' = "free"
         /\ slotState'[d] = "FILLING" => UseOf(d)' = "host"
         /\ slotState'[d] = "READY" => UseOf(d)' = "full"
         /\ slotState'[d] = "IN_STEP" /\ pc'[Main] # "retire" => UseOf(d)' = "step"
         /\ slotState'[d] = "IN_STEP" /\ pc'[Main] = "retire" => UseOf(d)' = IF Busy(d)' THEN "device" ELSE "done"
         /\ slotState'[d] = "RETIRED" => UseOf(d)' = IF Busy(d)' THEN "device" ELSE "done"
BY DEF UseOf, Busy

\* A step that sets the state of one slot and leaves the device alone moves
\* that slot only.
LEMMA OneSlot ==
  ASSUME slotState \in [DataSlot -> SlotState], NEW d \in DataSlot, NEW s,
         slotState' = [slotState EXCEPT ![d] = s], inFlight' = inFlight,
         \A e \in DataSlot \ {d} : slotState[e] = "IN_STEP" => (pc'[Main] = "retire" <=> pc[Main] = "retire")
  PROVE  /\ slotState'[d] = s
         /\ Busy(d)' <=> Busy(d)
         /\ \A e \in DataSlot \ {d} : UseOf(e)' = UseOf(e)
<1>1. slotState'[d] = s /\ \A e \in DataSlot \ {d} : slotState'[e] = slotState[e] OBVIOUS
<1>2. \A e \in DataSlot : Busy(e)' <=> Busy(e) BY DEF Busy
<1>3. ASSUME NEW e \in DataSlot \ {d} PROVE UseOf(e)' = UseOf(e) BY <1>1, <1>2, UseKept
<1> QED BY <1>1, <1>2, <1>3

\* A step that changes neither a slot nor the device, nor moves Main across the
\* middle of gd_end_step, is a stutter of DeviceLease.
LEMMA Quiet ==
  ASSUME UNCHANGED <<slotState, inFlight>>, pc'[Main] = "retire" <=> pc[Main] = "retire"
  PROVE  UNCHANGED [d \in DataSlot |-> UseOf(d)]
BY UseStutters DEF UseOf

\* A thread that is not waiting any more has a fence the device has finished.
LEMMA FencedWait ==
  ASSUME Typed, Fenced, NEW t \in Thread, pc[t] \notin {"lock", "hold"}
  PROVE  wait[t].fence \in Nat /\ gpuDone \in Nat /\ wait[t].fence <= gpuDone
<1>1. completedFence \in Nat /\ gpuDone \in Nat /\ completedFence <= gpuDone BY DEF Typed, TypeOK, Fenced
<1>2. wait[t].fence \in Nat /\ wait[t].fence <= completedFence BY DEF Typed, TypeOK, Fenced, Wait
<1> QED BY <1>1, <1>2

\* The command buffers of the device are those after the last it finished.
LEMMA FencedJob ==
  ASSUME Typed, Fenced
  PROVE  gpuDone \in Nat /\ \A j \in inFlight : j.seq \in Nat /\ gpuDone < j.seq
BY DEF Typed, TypeOK, Fenced, Job

\* What the refinement assumes of the state before a step.
Safe == Typed /\ Fenced /\ Buffered /\ StepOwned

\* Every step of the data ring is a step of DeviceLease or a stutter.
LEMMA StepImplements ==
  Safe /\ [Next]_vars => Abstract!Next \/ UNCHANGED [d \in DataSlot |-> UseOf(d)]
<1> DEFINE Goal == Abstract!Next \/ UNCHANGED [d \in DataSlot |-> UseOf(d)]
<1> SUFFICES ASSUME Safe, [Next]_vars PROVE Goal OBVIOUS
<1> USE StepContextAssumption DEF Safe, Typed, TypeOK, Thread, Goto
<1>a. \A j \in inFlight : \/ slotState[j.data] = "RETIRED" /\ slotFence[j.data] = j.seq
                          \/ pc[Main] = "retire" /\ lease[Main].slot = j.data
  BY DEF Buffered
<1>b. ASSUME NEW t \in Thread, pc[t] \in {"fill", "again", "taken"}, NEW there \in {"idle", "again"}, NEW l,
             AbortSlot(t, there, l)
      PROVE  Goal
  <2>1. inFlight' = inFlight /\ (pc'[Main] = "retire" <=> pc[Main] = "retire")
    BY <1>b DEF AbortSlot, BroadcastGoto, deviceVars
  <2>2. ASSUME NEW d, d = lease[t].slot, Holds(lease[t], {"FILLING", "READY"}) PROVE Goal
    <3>1. d \in DataSlot /\ slotState[d] \in {"FILLING", "READY"} /\ slotState' = [slotState EXCEPT ![d] = "FREE"]
      BY <1>b, <2>2 DEF AbortSlot, Holds
    <3>2. slotState'[d] = "FREE" /\ \A e \in DataSlot \ {d} : UseOf(e)' = UseOf(e) BY <2>1, <3>1, OneSlot
    <3>3. UseOf(d) \in {"host", "full"} BY ONLY <3>1, UseNow
    <3>4. UseOf(d)' = "free" BY ONLY <3>1, <3>2, UseThen
    <3>5. Edge(UseOf(d), UseOf(d)') BY ONLY <3>3, <3>4 DEF Edge
    <3> QED BY <3>1, <3>2, <3>5, UseEdge
  <2>3. CASE ~ Holds(lease[t], {"FILLING", "READY"})
    <3>1. slotState' = slotState BY <1>b, <2>3 DEF AbortSlot
    <3> QED BY <2>1, <3>1, Quiet
  <2> QED BY <2>2, <2>3
<1>c. Phase(Main) \in StepPhases => lease[Main].slot \in DataSlot /\ slotState[lease[Main].slot] = "IN_STEP"
  BY DEF Buffered, Control, OwnerPhases, Lease
<1>d. \A t \in Thread : wait[t].then # "retire" /\ Unwind[wait[t].then] # "retire" BY DEF Wait, Unwind
<1> USE DEF deviceVars, dataVars
<1>1. ASSUME NEW t \in Thread, WaitLock(t) PROVE Goal
  <2>1. UNCHANGED <<slotState, inFlight>> BY <1>1 DEF WaitLock
  <2>2. pc'[Main] = "retire" <=> pc[Main] = "retire" BY <1>1, <1>d DEF WaitLock
  <2> QED BY <2>1, <2>2, Quiet
<1>2. ASSUME NEW t \in Thread, WaitDone(t) PROVE Goal
  <2>1. UNCHANGED <<slotState, inFlight>> BY <1>2 DEF WaitDone
  <2>2. pc'[Main] = "retire" <=> pc[Main] = "retire" BY <1>2, <1>d DEF WaitDone
  <2> QED BY <2>1, <2>2, Quiet
<1>3. ASSUME NEW w \in Workers, StartFill(w) PROVE Goal
  <2>1. UNCHANGED <<slotState, inFlight>> BY <1>3 DEF StartFill
  <2>2. pc'[Main] = "retire" <=> pc[Main] = "retire" BY <1>3 DEF StartFill
  <2> QED BY <2>1, <2>2, Quiet
<1>4. ASSUME NEW t \in Thread, AcquireFree(t) PROVE Goal
  <2>1. PICK d \in First("FREE") : slotState' = [slotState EXCEPT ![d] = "FILLING"] BY <1>4 DEF AcquireFree
  <2>2. d \in DataSlot /\ slotState[d] = "FREE" BY DEF First
  <2>3. inFlight' = inFlight /\ (pc'[Main] = "retire" <=> pc[Main] = "retire") BY <1>4 DEF AcquireFree
  <2>4. slotState'[d] = "FILLING" /\ \A e \in DataSlot \ {d} : UseOf(e)' = UseOf(e) BY <2>1, <2>2, <2>3, OneSlot
  <2>5. UseOf(d) = "free" BY ONLY <2>2, UseNow
  <2>6. UseOf(d)' = "host" BY ONLY <2>2, <2>4, UseThen
  <2>7. Edge(UseOf(d), UseOf(d)') BY ONLY <2>5, <2>6 DEF Edge
  <2> QED BY <2>2, <2>4, <2>7, UseEdge
<1>5. ASSUME NEW t \in Thread, AcquireRetired(t) PROVE Goal
  <2>1. UNCHANGED <<slotState, inFlight>> BY <1>5 DEF AcquireRetired, StartWait
  <2>2. pc'[Main] = "retire" <=> pc[Main] = "retire" BY <1>5 DEF AcquireRetired, StartWait
  <2> QED BY <2>1, <2>2, Quiet
<1>6. ASSUME NEW t \in Thread, AcquireSleep(t) PROVE Goal
  <2>1. UNCHANGED <<slotState, inFlight>> BY <1>6 DEF AcquireSleep
  <2>2. pc'[Main] = "retire" <=> pc[Main] = "retire" BY <1>6 DEF AcquireSleep
  <2> QED BY <2>1, <2>2, Quiet
<1>7. ASSUME NEW t \in Thread, AcquireRecheck(t) PROVE Goal
  <2> DEFINE freed(d) == slotState[d] = "RETIRED" /\ slotFence[d] = wait[t].fence
  <2>1. inFlight' = inFlight /\ (pc'[Main] = "retire" <=> pc[Main] = "retire")
    BY <1>7 DEF AcquireRecheck, BroadcastGoto
  <2>2. ASSUME NEW d \in DataSlot, d = wait[t].slot, freed(d) PROVE Goal
    <3>1. slotState' = [slotState EXCEPT ![d] = "FREE"] BY <1>7, <2>2 DEF AcquireRecheck
    <3>2. slotState'[d] = "FREE" /\ \A e \in DataSlot \ {d} : UseOf(e)' = UseOf(e) BY <2>1, <2>2, <3>1, OneSlot
    <3>3. ~ Busy(d)
      <4>1. wait[t].fence \in Nat /\ wait[t].fence <= gpuDone /\ gpuDone \in Nat BY <1>7, FencedWait DEF AcquireRecheck
      <4>2. \A j \in inFlight : j.data = d => j.seq = wait[t].fence BY <1>a, <1>c, <2>2 DEF Phase, StepPhases
      <4>3. \A j \in inFlight : j.seq # wait[t].fence BY <4>1, FencedJob
      <4> QED BY <4>2, <4>3 DEF Busy
    <3>4. slotState[d] = "RETIRED" BY <2>2
    <3>5. UseOf(d) = "done" BY ONLY <2>2, <3>3, <3>4, UseNow
    <3>6. UseOf(d)' = "free" BY ONLY <2>2, <3>2, UseThen
    <3>7. Edge(UseOf(d), UseOf(d)') BY ONLY <3>5, <3>6 DEF Edge
    <3> QED BY <2>2, <3>2, <3>7, UseEdge
  <2>3. CASE wait[t].slot \notin DataSlot
    <3>1. \A e \in DataSlot : slotState'[e] = slotState[e] BY <1>7, <2>3 DEF AcquireRecheck
    <3>2. \A e \in DataSlot : UseOf(e)' = UseOf(e) BY <2>1, <3>1, UseKept DEF Busy
    <3> QED BY <3>2, UseStutters
  <2>4. CASE ~ freed(wait[t].slot)
    <3>1. slotState' = slotState BY <1>7, <2>4 DEF AcquireRecheck
    <3> QED BY <2>1, <3>1, Quiet
  <2> QED BY <2>2, <2>3, <2>4
<1>8. ASSUME NEW t \in Thread, NEW d, d = lease[t].slot, PublishSlot(t) PROVE Goal
  <2>1. /\ d \in DataSlot /\ slotState[d] = "FILLING" /\ slotState' = [slotState EXCEPT ![d] = "READY"]
        /\ inFlight' = inFlight /\ (pc'[Main] = "retire" <=> pc[Main] = "retire")
    BY <1>8 DEF PublishSlot, Holds, BroadcastGoto
  <2>2. slotState'[d] = "READY" /\ \A e \in DataSlot \ {d} : UseOf(e)' = UseOf(e) BY <2>1, OneSlot
  <2>3. UseOf(d) = "host" BY ONLY <2>1, UseNow
  <2>4. UseOf(d)' = "full" BY ONLY <2>1, <2>2, UseThen
  <2>5. Edge(UseOf(d), UseOf(d)') BY ONLY <2>3, <2>4 DEF Edge
  <2> QED BY <2>1, <2>2, <2>5, UseEdge
<1>9. ASSUME NEW w \in Workers, AbortFill(w) PROVE Goal BY <1>9, <1>b DEF AbortFill
<1>10. ASSUME TakeBatch PROVE Goal
  <2>1. UNCHANGED <<slotState, inFlight>> BY <1>10 DEF TakeBatch
  <2>2. pc'[Main] = "retire" <=> pc[Main] = "retire" BY <1>10 DEF TakeBatch
  <2> QED BY <2>1, <2>2, Quiet
<1>11. ASSUME ReleaseUnused PROVE Goal BY <1>11, <1>b DEF ReleaseUnused
<1>12. ASSUME BeginEmpty PROVE Goal
  <2>1. UNCHANGED <<slotState, inFlight>> BY <1>12 DEF BeginEmpty
  <2>2. pc'[Main] = "retire" <=> pc[Main] = "retire" BY <1>12 DEF BeginEmpty
  <2> QED BY <2>1, <2>2, Quiet
<1>13. ASSUME NEW d, d = lease[Main].slot, BeginOnDataSlot PROVE Goal
  <2>1. /\ d \in DataSlot /\ slotState[d] = "READY" /\ slotState' = [slotState EXCEPT ![d] = "IN_STEP"]
        /\ inFlight' = inFlight /\ pc[Main] = "taken" /\ pc'[Main] = "select"
    BY <1>13 DEF BeginOnDataSlot, Holds
  <2>2. slotState'[d] = "IN_STEP" /\ \A e \in DataSlot \ {d} : UseOf(e)' = UseOf(e) BY <2>1, OneSlot
  <2>3. UseOf(d) = "full" BY ONLY <2>1, UseNow
  <2>4. UseOf(d)' = "step" BY ONLY <2>1, <2>2, UseThen
  <2>5. Edge(UseOf(d), UseOf(d)') BY ONLY <2>3, <2>4 DEF Edge
  <2> QED BY <2>1, <2>2, <2>5, UseEdge
<1>14. ASSUME PollScratch PROVE Goal
  <2>1. UNCHANGED <<slotState, inFlight>> BY <1>14 DEF PollScratch, TakeScratch
  <2>2. pc'[Main] = "retire" <=> pc[Main] = "retire" BY <1>14 DEF PollScratch, TakeScratch
  <2> QED BY <2>1, <2>2, Quiet
<1>15. ASSUME WaitOldestScratch PROVE Goal
  <2>1. UNCHANGED <<slotState, inFlight>> BY <1>15 DEF WaitOldestScratch, StartWait
  <2>2. pc'[Main] = "retire" <=> pc[Main] = "retire" BY <1>15 DEF WaitOldestScratch, StartWait
  <2> QED BY <2>1, <2>2, Quiet
<1>16. ASSUME ReuseScratch PROVE Goal
  <2>1. UNCHANGED <<slotState, inFlight>> BY <1>16 DEF ReuseScratch, TakeScratch
  <2>2. pc'[Main] = "retire" <=> pc[Main] = "retire" BY <1>16 DEF ReuseScratch, TakeScratch
  <2> QED BY <2>1, <2>2, Quiet
<1>17. ASSUME ScopeBegin PROVE Goal
  <2>1. UNCHANGED <<slotState, inFlight>> BY <1>17 DEF ScopeBegin
  <2>2. pc'[Main] = "retire" <=> pc[Main] = "retire" BY <1>17 DEF ScopeBegin
  <2> QED BY <2>1, <2>2, Quiet
<1>18. ASSUME NEW d, d = lease[Main].slot, RollbackBegin PROVE Goal
  <2> DEFINE s == IF emptyBatch THEN "FREE" ELSE "READY"
  <2>1. /\ d \in DataSlot /\ slotState[d] = "IN_STEP" /\ slotState' = [slotState EXCEPT ![d] = s]
        /\ inFlight' = inFlight /\ pc[Main] = "rollback" /\ pc'[Main] \in {"idle", "taken"}
    BY <1>18, <1>c DEF RollbackBegin, BroadcastGoto, Phase, StepPhases
  <2>2. slotState'[d] = s /\ \A e \in DataSlot \ {d} : UseOf(e)' = UseOf(e) BY <2>1, OneSlot
  <2>3. UseOf(d) = "step" BY ONLY <2>1, UseNow
  <2>4. UseOf(d)' \in {"free", "full"} BY ONLY <2>1, <2>2, UseThen
  <2>5. Edge(UseOf(d), UseOf(d)') BY ONLY <2>3, <2>4 DEF Edge
  <2> QED BY <2>1, <2>2, <2>5, UseEdge
<1>19. ASSUME NEW d, d = lease[Main].slot, RecordFence PROVE Goal
  <2> DEFINE job == [seq |-> nextFence + 1, scratch |-> scratchCurrent, data |-> d]
  <2>1. /\ d \in DataSlot /\ slotState[d] = "IN_STEP" /\ slotState' = slotState
        /\ inFlight' = inFlight \cup {job} /\ pc[Main] = "open" /\ pc'[Main] = "retire"
    BY <1>19, <1>c DEF RecordFence, Phase, StepPhases
  <2>2. job.data = d OBVIOUS
  <2> HIDE DEF job
  <2>3. \A e \in DataSlot \ {d} : slotState[e] # "IN_STEP" BY <1>19 DEF StepOwned
  <2>4. ASSUME NEW e \in DataSlot \ {d} PROVE UseOf(e)' = UseOf(e)
    <3>1. Busy(e)' <=> Busy(e) BY <2>1, <2>2 DEF Busy
    <3> QED BY <2>1, <2>3, <3>1, UseKept
  <2>5. UseOf(d) = "step" BY ONLY <2>1, UseNow
  <2>6. Busy(d)' BY ONLY <2>1, <2>2 DEF Busy
  <2>7. slotState'[d] = "IN_STEP" BY ONLY <2>1
  <2>8. UseOf(d)' = "device" BY ONLY <2>1, <2>6, <2>7, UseThen
  <2>9. Edge(UseOf(d), UseOf(d)') BY ONLY <2>5, <2>8 DEF Edge
  <2> QED BY <2>1, <2>4, <2>9, UseEdge
<1>20. ASSUME NEW d, d = lease[Main].slot, RetireSlot PROVE Goal
  <2>1. /\ d \in DataSlot /\ slotState[d] = "IN_STEP" /\ slotState' = [slotState EXCEPT ![d] = "RETIRED"]
        /\ inFlight' = inFlight /\ pc[Main] = "retire"
    BY <1>20, <1>c DEF RetireSlot, Phase, StepPhases
  <2>2. \A e \in DataSlot \ {d} : slotState[e] # "IN_STEP" BY <1>20 DEF StepOwned
  <2>3. /\ slotState'[d] = "RETIRED" /\ (Busy(d)' <=> Busy(d))
        /\ \A e \in DataSlot \ {d} : UseOf(e)' = UseOf(e)
    BY <2>1, <2>2, OneSlot
  <2>4. UseOf(d) = IF Busy(d) THEN "device" ELSE "done" BY ONLY <2>1, UseNow
  <2>5. UseOf(d)' = IF Busy(d)' THEN "device" ELSE "done" BY ONLY <2>1, <2>3, UseThen
  <2>6. UseOf(d)' = UseOf(d) BY ONLY <2>3, <2>4, <2>5
  <2> QED BY <2>3, <2>6, UseStutters
<1>21. ASSUME ReleaseRetired PROVE Goal
  <2>1. UNCHANGED <<slotState, inFlight>> BY <1>21 DEF ReleaseRetired
  <2>2. pc'[Main] = "retire" <=> pc[Main] = "retire" BY <1>21 DEF ReleaseRetired
  <2> QED BY <2>1, <2>2, Quiet
<1>22. ASSUME DownloadValidate PROVE Goal
  <2>1. UNCHANGED <<slotState, inFlight>> BY <1>22 DEF DownloadValidate
  <2>2. pc'[Main] = "retire" <=> pc[Main] = "retire" BY <1>22 DEF DownloadValidate
  <2> QED BY <2>1, <2>2, Quiet
<1>23. ASSUME DownloadWait PROVE Goal
  <2>1. UNCHANGED <<slotState, inFlight>> BY <1>23 DEF DownloadWait, StartWait
  <2>2. pc'[Main] = "retire" <=> pc[Main] = "retire" BY <1>23 DEF DownloadWait, StartWait
  <2> QED BY <2>1, <2>2, Quiet
<1>24. ASSUME DownloadCopy PROVE Goal
  <2>1. UNCHANGED <<slotState, inFlight>> BY <1>24 DEF DownloadCopy
  <2>2. pc'[Main] = "retire" <=> pc[Main] = "retire" BY <1>24 DEF DownloadCopy
  <2> QED BY <2>1, <2>2, Quiet
<1>25. ASSUME Synchronize PROVE Goal
  <2>1. UNCHANGED <<slotState, inFlight>> BY <1>25 DEF Synchronize, StartWait
  <2>2. pc'[Main] = "retire" <=> pc[Main] = "retire" BY <1>25 DEF Synchronize, StartWait
  <2> QED BY <2>1, <2>2, Quiet
<1>26. ASSUME SynchronizeReturns PROVE Goal
  <2>1. UNCHANGED <<slotState, inFlight>> BY <1>26 DEF SynchronizeReturns
  <2>2. pc'[Main] = "retire" <=> pc[Main] = "retire" BY <1>26 DEF SynchronizeReturns
  <2> QED BY <2>1, <2>2, Quiet
<1>27. ASSUME GpuFinish PROVE Goal
  <2>1. slotState' = slotState /\ pc' = pc /\ inFlight' = {j \in inFlight : j.seq > gpuDone + 1} BY <1>27 DEF GpuFinish
  <2>2. gpuDone \in Nat /\ \A j \in inFlight : j.seq \in Nat /\ gpuDone < j.seq BY FencedJob
  <2>3. inFlight' = {j \in inFlight : j.seq # gpuDone + 1} BY <2>1, <2>2
  <2>4. CASE \E k \in inFlight : k.seq = gpuDone + 1
    <3>1. PICK k \in inFlight : k.seq = gpuDone + 1 BY <2>4
    <3> DEFINE d == k.data
    <3>2. d \in DataSlot BY DEF Job
    <3>3. inFlight' = inFlight \ {k} BY <2>3, <3>1 DEF StepOwned
    <3>4. ASSUME NEW e \in DataSlot \ {d} PROVE UseOf(e)' = UseOf(e)
      <4>1. Busy(e)' <=> Busy(e) BY <3>3 DEF Busy
      <4> QED BY <2>1, <4>1, UseKept
    <3>5. UseOf(d) = "device"
      <4>1. \/ slotState[d] = "RETIRED"
            \/ slotState[d] = "IN_STEP" /\ pc[Main] = "retire"
        BY <1>a, <1>c DEF Phase, StepPhases
      <4> QED BY <3>1, <4>1 DEF UseOf
    <3>6. UseOf(d)' \in {"device", "done"}
      <4>1. slotState'[d] = "RETIRED" \/ (slotState'[d] = "IN_STEP" /\ pc'[Main] = "retire")
        BY <1>a, <1>c, <2>1 DEF Phase, StepPhases
      <4> QED BY <4>1 DEF UseOf
    <3>7. CASE UseOf(d)' = "device" BY <3>4, <3>5, <3>7, UseStutters
    <3>8. CASE UseOf(d)' = "done"
      <4>1. Edge(UseOf(d), UseOf(d)') BY ONLY <3>5, <3>8 DEF Edge
      <4> QED BY <3>2, <3>4, <4>1, UseEdge
    <3> QED BY <3>6, <3>7, <3>8
  <2>5. CASE ~ \E k \in inFlight : k.seq = gpuDone + 1
    <3>1. inFlight' = inFlight BY <2>3, <2>5
    <3> QED BY <2>1, <3>1, Quiet
  <2> QED BY <2>4, <2>5
<1>28. CASE UNCHANGED vars BY <1>28, Quiet DEF vars
<1>29. ASSUME NEW w \in Workers, AbortAgain(w) PROVE Goal BY <1>29, <1>b DEF AbortAgain
<1> QED
  BY <1>1, <1>2, <1>3, <1>4, <1>5, <1>6, <1>7, <1>8, <1>9, <1>10, <1>11, <1>12, <1>13, <1>14, <1>15,
     <1>16, <1>17, <1>18, <1>19, <1>20, <1>21, <1>22, <1>23, <1>24, <1>25, <1>26, <1>27, <1>28, <1>29
  DEF Next, MainNext, Acquire, WaitUntil, Fill, BeginStep, EndStep, Download

\* The data ring implements DeviceLease: whatever the interleaving of loader
\* threads, the main thread and the device, a buffer goes from the device to
\* a loader only after the device has finished with it.
THEOREM RingImplementsLease == Spec => LeaseSpec
<1>1. Init => Abstract!Init BY DEF Init, Abstract!Init, UseOf
<1>2. Init => StepOwned BY DEF Init, StepOwned
<1>3. Spec => [](Typed /\ Fenced /\ Buffered) BY TypeCorrect, Invariance, PTL
<1>4. Spec => []StepOwned BY <1>2, <1>3, StepOwnedNext, PTL DEF Spec
<1>5. Safe /\ [Next]_vars => [Abstract!Next]_([d \in DataSlot |-> UseOf(d)]) BY StepImplements
<1>6. Spec => []Safe BY <1>3, <1>4, PTL DEF Safe
<1> QED BY <1>1, <1>5, <1>6, PTL DEF Spec, LeaseSpec, Abstract!Spec
=============================================================================
