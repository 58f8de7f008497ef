---------------------------- MODULE DeviceLease ----------------------------
(***************************************************************************)
(* What the data ring of a gd_context promises its users, with no mention  *)
(* of fences, generations, mutexes or condition variables.                 *)
(*                                                                         *)
(* A buffer is leased to a host thread that fills it, published, encoded   *)
(* into an open step, handed to the device with the step's command buffer, *)
(* and returned to the free pool only after the device has finished.  In   *)
(* particular no behaviour takes a buffer from "device" to anything but    *)
(* "done": the host can never rewrite what the device still reads.         *)
(***************************************************************************)
CONSTANT Buffer

VARIABLE use    \* use[b] is the present user of buffer b

Use == {"free", "host", "full", "step", "device", "done"}

Init == use = [b \in Buffer |-> "free"]

Move(b, from, to) == use[b] = from /\ use' = [use EXCEPT ![b] = to]

\* The host: fill a free buffer, publish it, or give it up.
Lease(b)   == Move(b, "free", "host")
Publish(b) == Move(b, "host", "full")
Cancel(b)  == Move(b, "host", "free") \/ Move(b, "full", "free")

\* The step: open on a published buffer, back out, or submit to the device.
Open(b)     == Move(b, "full", "step")
Rollback(b) == Move(b, "step", "full") \/ Move(b, "step", "free")
Submit(b)   == Move(b, "step", "device")

\* The device finishes, and only then is the buffer recycled.
Finish(b)  == Move(b, "device", "done")
Reclaim(b) == Move(b, "done", "free")

Next ==
  \E b \in Buffer :
    \/ Lease(b) \/ Publish(b) \/ Cancel(b)
    \/ Open(b)  \/ Rollback(b) \/ Submit(b)
    \/ Finish(b) \/ Reclaim(b)

Spec == Init /\ [][Next]_use
============================================================================
