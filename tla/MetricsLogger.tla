--------------------------- MODULE MetricsLogger ---------------------------
(***************************************************************************)
(* The metrics logger (src/src/core/metrics.c): a ring of records under a  *)
(* mutex, filled by a thread that never waits and drained by a thread that *)
(* writes to a file.  A record is dropped when the mutex is taken, when    *)
(* the ring is full and after stop.                                        *)
(*                                                                         *)
(* Log, StopRequest and Cleanup are the steps of the logging thread, which *)
(* is another module's: what it holds the mutex for is one step.  The file *)
(* is opened for appending and flushed every few records; what of it is on *)
(* the disk when the process dies is left out, and so is the count of the  *)
(* records that were dropped.                                              *)
(***************************************************************************)
EXTENDS Naturals, Sequences

CONSTANTS
  Records,     \* what is logged
  NoRecord,    \* an empty cell of the ring
  Capacity     \* queue_capacity

ASSUME LoggerAssumption ==
  /\ NoRecord \notin Records
  /\ Capacity \in Nat \ {0}

VARIABLES
  queue, head, tail, count, stop,  \* the ring, under the mutex
  wpc, hand,                       \* the writer: where it is, the record it writes
  life                             \* history, see EventLog

ring       == <<queue, head, tail, count, stop>>
loggerVars == <<ring, wpc, hand, life>>

Cell == 0 .. Capacity - 1

\* The logger as gd_metrics_logger_start makes it, and while there is none.
Fresh(where) ==
  /\ queue = [i \in Cell |-> NoRecord] /\ head = 0 /\ tail = 0 /\ count = 0 /\ stop = FALSE
  /\ wpc = where /\ hand = <<>>

LoggerInit == Fresh("exited") /\ life = "closed"

Renew(where) ==
  /\ queue' = [i \in Cell |-> NoRecord] /\ head' = 0 /\ tail' = 0 /\ count' = 0 /\ stop' = FALSE
  /\ wpc' = where /\ hand' = <<>>

StartLogger == life # "open" /\ Renew("lock") /\ life' = "open"

CrashLogger == life = "open" /\ Renew("exited") /\ life' = "crashed"

----------------------------------------------------------------------------
\* pthread_cond_signal: the writer, if it sleeps, will take the mutex again.
Signalled == IF wpc = "wait" THEN "lock" ELSE wpc

\* gd_metrics_enqueue_owned.  trylock fails while the writer has the mutex.
Refused == wpc = "locked" \/ stop \/ count = Capacity

\* Mutant: the tail stays at the end of the ring.
EnqueueUnwrapped(r) ==
  /\ queue' = [queue EXCEPT ![tail] = r]
  /\ tail' = IF tail + 1 = Capacity THEN tail ELSE tail + 1
  /\ count' = count + 1
  /\ wpc' = Signalled

Enqueue(r) ==
  /\ queue' = [queue EXCEPT ![tail] = r]
  /\ tail' = (tail + 1) % Capacity
  /\ count' = count + 1
  /\ wpc' = Signalled

Log(r) ==
  /\ life = "open"
  /\ IF Refused
     THEN UNCHANGED <<queue, tail, count, wpc>>
     ELSE Enqueue(r)
  /\ UNCHANGED <<head, stop, hand, life>>

\* gd_metrics_logger_stop: tell the writer, and join it in Cleanup.
\* Mutant: nobody is woken.
StopUnsignalled ==
  /\ life = "open" /\ wpc # "locked"
  /\ stop' = TRUE
  /\ UNCHANGED <<queue, head, tail, count, wpc, hand, life>>

StopRequest ==
  /\ life = "open" /\ wpc # "locked"
  /\ stop' = TRUE /\ wpc' = Signalled
  /\ UNCHANGED <<queue, head, tail, count, hand, life>>

\* The join, and gd_metrics_logger_cleanup: what is left in the ring is freed.
Cleanup ==
  /\ life = "open" /\ stop /\ wpc = "exited"
  /\ Renew("exited") /\ life' = "closed"

----------------------------------------------------------------------------
(* The writer: gd_metrics_writer_main.                                     *)

\* pthread_mutex_lock: no other thread keeps the mutex.  A sleeping writer may
\* also wake of itself.
WriterLocks ==
  /\ wpc = "lock" /\ wpc' = "locked"
  /\ UNCHANGED <<ring, hand, life>>

WriterWakes ==
  /\ wpc = "wait" /\ wpc' = "lock"
  /\ UNCHANGED <<ring, hand, life>>

WriterWaits ==
  /\ wpc = "locked" /\ ~stop /\ count = 0 /\ wpc' = "wait"
  /\ UNCHANGED <<ring, hand, life>>

WriterPops ==
  /\ wpc = "locked" /\ count # 0
  /\ hand' = <<queue[head]>>
  /\ queue' = [queue EXCEPT ![head] = NoRecord]
  /\ head' = (head + 1) % Capacity /\ count' = count - 1
  /\ wpc' = "write"
  /\ UNCHANGED <<tail, stop, life>>

\* fputs, fputc and now and then fflush, without the mutex; a record that the
\* file system refuses is freed all the same.
WriterWrites ==
  /\ wpc = "write" /\ wpc' = "lock"
  /\ hand' = <<>>
  /\ UNCHANGED <<ring, life>>

\* Mutant: stop is seen before the ring is empty.
WriterEndsAtOnce ==
  /\ wpc = "locked" /\ stop
  /\ wpc' = "exited"
  /\ UNCHANGED <<ring, hand, life>>

WriterEnds ==
  /\ wpc = "locked" /\ stop /\ count = 0
  /\ wpc' = "exited"
  /\ UNCHANGED <<ring, hand, life>>

Writer ==
  \/ WriterLocks \/ WriterWaits \/ WriterPops \/ WriterWrites \/ WriterEnds

\* The logging thread at its freest: it logs what it likes until it stops the
\* logger, and the process may die.
LoggerNext ==
  \/ StartLogger \/ (\E r \in Records : Log(r)) \/ StopRequest \/ Cleanup \/ CrashLogger
  \/ Writer \/ WriterWakes

LoggerSpec == LoggerInit /\ [][LoggerNext]_loggerVars

----------------------------------------------------------------------------
\* The ring from head to tail.
Queued == [i \in 1 .. count |-> queue[(head + i - 1) % Capacity]]

\* What was accepted and is not written yet: what the writer has in hand, then
\* what is in the ring.
E == INSTANCE EventLog WITH waiting <- hand \o Queued

\* The logger implements EventLog: whatever the order in which the two threads
\* come to the mutex, a record that was accepted is written once and in its
\* turn, also after stop.
LogSpec == E!Spec
=============================================================================
