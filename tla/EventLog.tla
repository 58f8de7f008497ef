------------------------------ MODULE EventLog ------------------------------
(***************************************************************************)
(* What the metrics logger (src/src/core/metrics.c) promises to the        *)
(* threads that log: a record is refused, or accepted and written in its   *)
(* turn.  A log is closed only with nothing left to write; only a process  *)
(* that dies takes accepted records with it.                               *)
(***************************************************************************)
EXTENDS Sequences

CONSTANTS Records

VARIABLES
  life,    \* "closed", "open", or "crashed" with the process
  waiting  \* records accepted and not yet written, the oldest first

vars == <<life, waiting>>

Init == life = "closed" /\ waiting = <<>>

Open == life # "open" /\ life' = "open" /\ waiting' = <<>>

Accept ==
  /\ life = "open"
  /\ \E r \in Records : waiting' = Append(waiting, r)
  /\ UNCHANGED life

Write ==
  /\ life = "open" /\ waiting # <<>>
  /\ waiting' = Tail(waiting)
  /\ UNCHANGED life

Close == life = "open" /\ waiting = <<>> /\ life' = "closed" /\ UNCHANGED waiting

Crash == life = "open" /\ life' = "crashed" /\ waiting' = <<>>

Next == Open \/ Accept \/ Write \/ Close \/ Crash

Spec == Init /\ [][Next]_vars
=============================================================================
