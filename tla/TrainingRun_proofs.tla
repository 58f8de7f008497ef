------------------------- MODULE TrainingRun_proofs -------------------------
(***************************************************************************)
(* Theorems about TrainingRun, for every list of shards, every number of   *)
(* epochs and starts and every interval between saves and evaluations.     *)
(*                                                                         *)
(* The inductive invariant has six parts: Counters (types), Course (the    *)
(* counters of the loop are those of a run that is never interrupted),     *)
(* Saves (what is due, and in which order), Files (what a file may hold),  *)
(* Clean and Behind (what the weights have seen).  They need one another:  *)
(* a step is the next batch because of Course, a position is written       *)
(* beside model and optimizer of the same run because of Saves.            *)
(*                                                                         *)
(* StepsUpTo is a recursive function: that it sums up the shards is shown  *)
(* by exhibiting such a function, and what holds of all its values by      *)
(* looking at the least argument where it would not.                       *)
(*                                                                         *)
(* The logger comes first: its theorem needs none of the program's.        *)
(***************************************************************************)
EXTENDS TrainingRun, Integers, SequenceTheorems, WellFoundedInduction, TLAPS

----------------------------------------------------------------------------
(* The metrics logger implements EventLog, whatever the capacity of its    *)
(* ring: the cells from head to tail are the records accepted and not yet  *)
(* taken, in order, because the indices wrap around in step.  First the     *)
(* indices of a ring of n cells.                                            *)

Reduced(x, n) == IF x < n THEN x ELSE x - n

\* Less than two times around: the remainder without a division.
LEMMA Wrap ==
  ASSUME NEW n \in Nat \ {0}, NEW x \in 0 .. 2 * n - 1
  PROVE  x % n = Reduced(x, n)
<1> DEFINE q == x \div n
           r == x % n
<1>1. r \in 0 .. n - 1 /\ q \in Int /\ x = q * n + r BY SMTT(30)
<1> HIDE DEF q, r
<1>2. CASE q <= -1
  <2>1. q * n <= -n BY <1>1, <1>2, SMTT(30)
  <2> QED BY <1>1, <2>1
<1>3. CASE q = 0 BY <1>1, <1>3 DEF r, Reduced
<1>4. CASE q = 1 BY <1>1, <1>4 DEF r, Reduced
<1>5. CASE q >= 2
  <2>1. q * n >= 2 * n BY <1>1, <1>5, SMTT(30)
  <2> QED BY <1>1, <2>1
<1> QED BY <1>1, <1>2, <1>3, <1>4, <1>5

\* Two cells at different distances from a are different.
LEMMA Apart ==
  ASSUME NEW n \in Nat \ {0}, NEW a \in 0 .. n - 1, NEW j \in 0 .. n - 1, NEW k \in 0 .. n - 1,
         j # k
  PROVE  (a + j) % n # (a + k) % n
<1>1. a + j \in 0 .. 2 * n - 1 /\ a + k \in 0 .. 2 * n - 1 OBVIOUS
<1>2. (a + j) % n = Reduced(a + j, n) BY <1>1, Wrap
<1>3. (a + k) % n = Reduced(a + k, n) BY <1>1, Wrap
<1> QED BY <1>2, <1>3 DEF Reduced

\* The distance from the next cell is one less.
LEMMA Shift ==
  ASSUME NEW n \in Nat \ {0}, NEW a \in 0 .. n - 1, NEW k \in 0 .. n - 1
  PROVE  (((a + 1) % n) + k) % n = (a + 1 + k) % n
<1>1. a + 1 \in 0 .. 2 * n - 1 /\ a + 1 + k \in 0 .. 2 * n - 1 /\ k \in 0 .. 2 * n - 1 OBVIOUS
<1>2. (a + 1) % n = Reduced(a + 1, n) BY <1>1, Wrap
<1>3. (a + 1 + k) % n = Reduced(a + 1 + k, n) BY <1>1, Wrap
<1>4. k % n = Reduced(k, n) BY <1>1, Wrap
<1>5. CASE a + 1 < n
  <2>1. (a + 1) % n = a + 1 BY <1>2, <1>5 DEF Reduced
  <2> QED BY <2>1
<1>6. CASE a + 1 = n
  <2>1. (a + 1) % n = 0 BY <1>2, <1>6 DEF Reduced
  <2>2. (a + 1 + k) % n = k BY <1>3, <1>6 DEF Reduced
  <2>3. k % n = k BY <1>4 DEF Reduced
  <2>4. 0 + k = k OBVIOUS
  <2> QED BY <2>1, <2>2, <2>3, <2>4
<1> QED BY <1>5, <1>6

LEMMA Zero ==
  ASSUME NEW n \in Nat \ {0}, NEW a \in 0 .. n - 1
  PROVE  a % n = a /\ (a + 0) % n = a
<1>1. a \in 0 .. 2 * n - 1 /\ a + 0 = a OBVIOUS
<1>2. a % n = Reduced(a, n) BY <1>1, Wrap
<1> QED BY <1>1, <1>2 DEF Reduced

LEMMA InRing ==
  ASSUME NEW n \in Nat \ {0}, NEW a \in 0 .. n - 1, NEW k \in 0 .. n
  PROVE  (a + k) % n \in 0 .. n - 1
<1>1. a + k \in 0 .. 2 * n - 1 OBVIOUS
<1>2. (a + k) % n = Reduced(a + k, n) BY <1>1, Wrap
<1> QED BY <1>2 DEF Reduced

----------------------------------------------------------------------------
(* The invariant.                                                          *)

Typed ==
  /\ queue \in [Cell -> Records \cup {NoRecord}]
  /\ head \in Cell /\ tail \in Cell /\ count \in 0 .. Capacity /\ stop \in BOOLEAN
  /\ wpc \in {"lock", "locked", "wait", "write", "exited"}
  /\ life \in {"closed", "open", "crashed"}

\* From head on, count cells hold records, and the next one is tail.
InStep ==
  /\ tail = (head + count) % Capacity
  /\ \A k \in 0 .. count - 1 : queue[(head + k) % Capacity] \in Records

\* The writer has a record in hand exactly while it writes, and has ended only
\* with nothing left, told to stop.
WriterInv ==
  /\ IF wpc = "write" THEN \E r \in Records : hand = <<r>> ELSE hand = <<>>
  /\ wpc = "exited" => count = 0 /\ (life = "open" => stop)
  /\ life # "open" => wpc = "exited"

LoggerInv == Typed /\ InStep /\ WriterInv

USE LoggerAssumption DEF Cell

LEMMA InitInv == LoggerInit => LoggerInv
<1> SUFFICES ASSUME LoggerInit PROVE LoggerInv OBVIOUS
<1>1. 0 % Capacity = 0 BY Zero
<1> QED BY <1>1 DEF LoggerInit, Fresh, LoggerInv, Typed, InStep, WriterInv

\* The ring as it is made.
LEMMA RenewInv ==
  ASSUME NEW where \in {"lock", "exited"}, Renew(where), life' \in {"closed", "open", "crashed"},
         life' # "open" => where = "exited"
  PROVE  LoggerInv'
<1>1. 0 % Capacity = 0 BY Zero
<1> QED BY <1>1 DEF Renew, LoggerInv, Typed, InStep, WriterInv

\* A record put at the tail.
LEMMA EnqueueInv ==
  ASSUME LoggerInv, NEW r \in Records, life = "open", ~Refused, Enqueue(r),
         UNCHANGED <<head, stop, hand, life>>
  PROVE  /\ LoggerInv'
         /\ \A k \in 0 .. count - 1 : queue'[(head + k) % Capacity] = queue[(head + k) % Capacity]
         /\ queue'[(head + count) % Capacity] = r
<1> USE DEF LoggerInv
<1>1. count \in 0 .. Capacity - 1 /\ wpc # "locked" /\ tail \in Cell BY DEF Refused, Typed
<1>2. ASSUME NEW k \in 0 .. count - 1
      PROVE  queue'[(head + k) % Capacity] = queue[(head + k) % Capacity]
  <2>a. /\ head \in 0 .. Capacity - 1 /\ k \in 0 .. Capacity - 1 /\ k \in 0 .. Capacity
        /\ count \in 0 .. Capacity - 1 /\ k # count
    BY <1>1 DEF Typed
  <2>1. (head + k) % Capacity # tail
    <3>1. (head + k) % Capacity # (head + count) % Capacity BY <2>a, Apart
    <3> QED BY <3>1 DEF InStep
  <2>2. (head + k) % Capacity \in Cell BY <2>a, InRing
  <2> QED BY <2>1, <2>2 DEF Enqueue, Typed
<1>3. queue'[(head + count) % Capacity] = r BY <1>1 DEF Enqueue, Typed, InStep
<1>4. tail' = (head + count + 1) % Capacity
  <2>0. /\ head \in Cell /\ head + count \in 0 .. 2 * Capacity - 1
        /\ tail + 1 \in 0 .. 2 * Capacity - 1 /\ head + count + 1 \in 0 .. 2 * Capacity - 1
    BY <1>1 DEF Typed
  <2>1. tail = Reduced(head + count, Capacity)
    BY <1>1, <2>0, Wrap DEF InStep
  <2>2. (tail + 1) % Capacity = Reduced(tail + 1, Capacity)
    BY <2>0, Wrap
  <2>3. (head + count + 1) % Capacity
          = Reduced(head + count + 1, Capacity)
    BY <2>0, Wrap
  <2>4. Reduced(tail + 1, Capacity) = Reduced(head + count + 1, Capacity)
    BY <1>1, <2>0, <2>1 DEF Reduced
  <2> QED BY <2>2, <2>3, <2>4 DEF Enqueue
<1>5. Typed'
  <2>1. (tail + 1) % Capacity \in Cell
    <3>1. tail \in 0 .. Capacity - 1 /\ 1 \in 0 .. Capacity BY <1>1
    <3> QED BY <3>1, InRing
  <2>2. queue' \in [Cell -> Records \cup {NoRecord}] BY DEF Enqueue, Typed
  <2>3. count' \in 0 .. Capacity BY <1>1 DEF Enqueue
  <2>4. wpc' \in {"lock", "locked", "wait", "write", "exited"} BY DEF Enqueue, Signalled, Typed
  <2> QED BY <2>1, <2>2, <2>3, <2>4 DEF Enqueue, Typed
<1>6. InStep'
  <2>1. count' = count + 1 /\ head' = head /\ count \in Nat /\ head \in Nat
    BY <1>1 DEF Enqueue, Typed
  <2>2. tail' = (head' + count') % Capacity
    <3>1. head + (count + 1) = head + count + 1 BY <2>1
    <3> QED BY <1>4, <2>1, <3>1
  <2>3. ASSUME NEW k \in 0 .. count' - 1 PROVE queue'[(head' + k) % Capacity] \in Records
    <3>1. k = count \/ k \in 0 .. count - 1 BY <2>1
    <3> QED BY <1>2, <1>3, <2>1, <3>1 DEF InStep
  <2> QED BY <2>2, <2>3 DEF InStep
<1>7. WriterInv'
  <2>1. wpc # "exited" /\ life' = "open" BY DEF WriterInv, Refused
  <2>2. (wpc' = "write" <=> wpc = "write") /\ wpc' # "exited" BY <2>1 DEF Enqueue, Signalled
  <2>3. CASE wpc = "write" BY <2>1, <2>2, <2>3 DEF WriterInv
  <2>4. CASE wpc # "write" BY <2>1, <2>2, <2>4 DEF WriterInv
  <2> QED BY <2>3, <2>4
<1> QED BY <1>2, <1>3, <1>5, <1>6, <1>7

\* A record taken from the head.
LEMMA PopInv ==
  ASSUME LoggerInv, WriterPops
  PROVE  /\ LoggerInv'
         /\ queue[head] \in Records /\ hand = <<>> /\ hand' = <<queue[head]>>
         /\ \A k \in 0 .. count' - 1 :
              queue'[(head' + k) % Capacity] = queue[(head + (k + 1)) % Capacity]
<1> USE DEF LoggerInv
<1>1. count \in 1 .. Capacity /\ count' = count - 1 /\ head \in Cell BY DEF WriterPops, Typed
<1>2. head' = (head + 1) % Capacity /\ head' \in Cell BY <1>1, InRing DEF WriterPops
<1>3. queue[head] \in Records
  <2>1. (head + 0) % Capacity = head BY <1>1, Zero
  <2>2. 0 \in 0 .. count - 1 BY <1>1
  <2>3. queue[(head + 0) % Capacity] \in Records BY <2>2 DEF InStep
  <2> QED BY <2>1, <2>3
<1>4. ASSUME NEW k \in 0 .. count' - 1
      PROVE  /\ queue'[(head' + k) % Capacity] = queue[(head + (k + 1)) % Capacity]
             /\ queue[(head + (k + 1)) % Capacity] \in Records
  <2>1. k + 1 \in 1 .. count - 1 /\ k \in 0 .. Capacity - 1 /\ k + 1 \in 0 .. Capacity - 1
    BY <1>1
  <2>2. (head' + k) % Capacity = (head + 1 + k) % Capacity BY <1>1, <1>2, <2>1, Shift
  <2>3. head + 1 + k = head + (k + 1) BY <1>1, <2>1
  <2>4. (head + (k + 1)) % Capacity \in Cell BY <1>1, <2>1, InRing
  <2>5. (head + (k + 1)) % Capacity # (head + 0) % Capacity BY <1>1, <2>1, Apart
  <2>6. (head + 0) % Capacity = head BY <1>1, Zero
  <2>7. queue[(head + (k + 1)) % Capacity] \in Records BY <2>1 DEF InStep
  <2> QED BY <2>2, <2>3, <2>4, <2>5, <2>6, <2>7 DEF WriterPops, Typed
<1>5. tail' = (head' + count') % Capacity
  <2>1. count' \in 0 .. Capacity - 1 BY <1>1
  <2>2. (head' + count') % Capacity = (head + 1 + count') % Capacity BY <1>1, <1>2, <2>1, Shift
  <2>3. head + 1 + count' = head + count BY <1>1
  <2> QED BY <2>2, <2>3 DEF WriterPops, InStep
<1>6. Typed' BY <1>1, <1>2 DEF WriterPops, Typed
<1>7. InStep' BY <1>4, <1>5 DEF InStep
<1>8. WriterInv' BY <1>3 DEF WriterPops, WriterInv
<1>9. hand = <<>> BY DEF WriterPops, WriterInv
<1> QED BY <1>3, <1>4, <1>6, <1>7, <1>8, <1>9 DEF WriterPops

\* Every other step leaves the ring alone.
LEMMA NextInv == LoggerInv /\ [LoggerNext]_loggerVars => LoggerInv'
<1> SUFFICES ASSUME LoggerInv, [LoggerNext]_loggerVars PROVE LoggerInv' OBVIOUS
<1>1. CASE StartLogger BY <1>1, RenewInv DEF StartLogger
<1>2. ASSUME NEW r \in Records, Log(r) PROVE LoggerInv'
  <2>1. CASE Refused
    BY <1>2, <2>1 DEF Log, LoggerInv, Typed, InStep, WriterInv
  <2>2. CASE ~Refused BY <1>2, <2>2, EnqueueInv DEF Log
  <2> QED BY <2>1, <2>2
<1>3. CASE StopRequest
  BY <1>3 DEF StopRequest, Signalled, LoggerInv, Typed, InStep, WriterInv
<1>4. CASE Cleanup BY <1>4, RenewInv DEF Cleanup
<1>5. CASE CrashLogger BY <1>5, RenewInv DEF CrashLogger
<1>6. CASE WriterPops BY <1>6, PopInv
<1>7. CASE WriterLocks BY <1>7 DEF WriterLocks, ring, LoggerInv, Typed, InStep, WriterInv
<1>8. CASE WriterWaits BY <1>8 DEF WriterWaits, ring, LoggerInv, Typed, InStep, WriterInv
<1>9. CASE WriterWrites BY <1>9 DEF WriterWrites, ring, LoggerInv, Typed, InStep, WriterInv
<1>10. CASE WriterEnds BY <1>10 DEF WriterEnds, ring, LoggerInv, Typed, InStep, WriterInv
<1>11. CASE WriterWakes BY <1>11 DEF WriterWakes, ring, LoggerInv, Typed, InStep, WriterInv
<1>12. CASE UNCHANGED loggerVars
  BY <1>12 DEF loggerVars, ring, LoggerInv, Typed, InStep, WriterInv
<1> QED
  BY <1>1, <1>2, <1>3, <1>4, <1>5, <1>6, <1>7, <1>8, <1>9, <1>10, <1>11, <1>12
  DEF LoggerNext, Writer

----------------------------------------------------------------------------
(* What the ring says to EventLog.                                         *)

\* The records waiting in the ring are a sequence.
LEMMA QueuedSeq == LoggerInv => Queued \in Seq(Records) /\ Len(Queued) = count
<1> SUFFICES ASSUME LoggerInv PROVE Queued \in Seq(Records) /\ Len(Queued) = count OBVIOUS
<1>1. count \in Nat BY DEF LoggerInv, Typed
<1>2. ASSUME NEW i \in 1 .. count PROVE queue[(head + i - 1) % Capacity] \in Records
  <2>1. i - 1 \in 0 .. count - 1 /\ head + i - 1 = head + (i - 1)
    BY <1>1 DEF LoggerInv, Typed
  <2> QED BY <2>1 DEF LoggerInv, InStep
<1>3. Queued \in [1 .. count -> Records] BY <1>2 DEF Queued
<1> QED BY <1>1, <1>3

LEMMA HandSeq == LoggerInv => hand \in Seq(Records)
<1> SUFFICES ASSUME LoggerInv PROVE hand \in Seq(Records) OBVIOUS
<1>1. CASE wpc = "write"
  <2>1. PICK r \in Records : hand = <<r>> BY <1>1 DEF LoggerInv, WriterInv
  <2> QED BY <2>1
<1>2. CASE wpc # "write"
  <2>1. hand = <<>> BY <1>2 DEF LoggerInv, WriterInv
  <2> QED BY <2>1
<1> QED BY <1>1, <1>2

Waiting == hand \o Queued

\* A new logger has nothing waiting.
LEMMA RenewWaits == ASSUME NEW where, Renew(where) PROVE Waiting' = <<>>
<1>1. count' = 0 /\ hand' = <<>> BY DEF Renew
<1>2. Queued' = <<>> BY <1>1 DEF Queued
<1> QED BY <1>1, <1>2 DEF Waiting

\* A record that is accepted comes last.
LEMMA EnqueueWaits ==
  ASSUME LoggerInv, NEW r \in Records, life = "open", ~Refused, Enqueue(r),
         UNCHANGED <<head, stop, hand, life>>
  PROVE  Waiting' = Append(Waiting, r)
<1>1. count \in Nat /\ head \in Nat /\ count' = count + 1 BY DEF LoggerInv, Typed, Enqueue
<1>2. LoggerInv' BY EnqueueInv
<1>3. Queued' = Append(Queued, r)
  <2>1. Queued \in Seq(Records) /\ Len(Queued) = count BY QueuedSeq
  <2>2. Queued' \in Seq(Records) /\ Len(Queued') = count + 1
    <3>1. (Queued \in Seq(Records) /\ Len(Queued) = count)' BY <1>2, QueuedSeq, PTL
    <3> QED BY <1>1, <3>1
  <2>3. ASSUME NEW i \in 1 .. count + 1 PROVE Queued'[i] = Append(Queued, r)[i]
    <3>1. Queued'[i] = queue'[(head + (i - 1)) % Capacity]
      <4>1. head' = head /\ head + i - 1 = head + (i - 1) BY <1>1
      <4> QED BY <1>1, <4>1 DEF Queued
    <3>2. CASE i = count + 1
      <4>1. i - 1 = count BY <1>1, <3>2
      <4>2. queue'[(head + count) % Capacity] = r BY EnqueueInv
      <4> QED BY <2>1, <3>1, <3>2, <4>1, <4>2
    <3>3. CASE i \in 1 .. count
      <4>1. i - 1 \in 0 .. count - 1 /\ head + i - 1 = head + (i - 1) BY <1>1, <3>3
      <4>2. queue'[(head + (i - 1)) % Capacity] = queue[(head + (i - 1)) % Capacity]
        BY <4>1, EnqueueInv
      <4>3. Queued[i] = queue[(head + (i - 1)) % Capacity] BY <3>3, <4>1 DEF Queued
      <4> QED BY <2>1, <3>1, <3>3, <4>2, <4>3
    <3>4. i = count + 1 \/ i \in 1 .. count BY <1>1
    <3> QED BY ONLY <3>2, <3>3, <3>4
  <2> HIDE DEF Queued
  <2> QED BY <1>1, <2>1, <2>2, <2>3
<1>4. hand' = hand /\ hand \in Seq(Records) /\ Queued \in Seq(Records)
  BY HandSeq, QueuedSeq
<1> HIDE DEF Queued
<1> QED BY <1>3, <1>4 DEF Waiting

\* To take a record in hand is no step of EventLog.
LEMMA PopWaits == ASSUME LoggerInv, WriterPops PROVE Waiting' = Waiting
<1>1. count \in Nat \ {0} /\ head \in Nat /\ count' = count - 1 /\ head' \in Nat
  BY PopInv DEF LoggerInv, Typed, WriterPops
<1>2. LoggerInv' /\ queue[head] \in Records /\ hand = <<>> /\ hand' = <<queue[head]>> BY PopInv
<1>3. Queued \in Seq(Records) /\ Len(Queued) = count BY QueuedSeq
<1>4. Queued' \in Seq(Records) /\ Len(Queued') = count - 1
  <2>1. (Queued \in Seq(Records) /\ Len(Queued) = count)' BY <1>2, QueuedSeq, PTL
  <2> QED BY <1>1, <2>1
<1>5. Queued[1] = queue[head]
  <2>1. (head + 0) % Capacity = head BY Zero DEF LoggerInv, Typed
  <2>2. head + 1 - 1 = head + 0 /\ 1 \in 1 .. count BY <1>1
  <2> QED BY <2>1, <2>2 DEF Queued
<1>6. ASSUME NEW i \in 1 .. count - 1 PROVE Queued'[i] = Queued[i + 1]
  <2>1. i - 1 \in 0 .. count' - 1 /\ (i - 1) + 1 = i BY <1>1
  <2>2. Queued'[i] = queue'[(head' + (i - 1)) % Capacity]
    <3>1. head' + i - 1 = head' + (i - 1) BY <1>1
    <3> QED BY <1>1, <3>1 DEF Queued
  <2>3. Queued[i + 1] = queue[(head + i) % Capacity]
    <3>1. head + (i + 1) - 1 = head + i /\ i + 1 \in 1 .. count BY <1>1
    <3> QED BY <3>1 DEF Queued
  <2>4. queue'[(head' + (i - 1)) % Capacity] = queue[(head + ((i - 1) + 1)) % Capacity]
    BY <2>1, PopInv
  <2> QED BY <2>1, <2>2, <2>3, <2>4
<1> HIDE DEF Queued
<1>7. <<queue[head]>> \o Queued' = Queued BY <1>1, <1>2, <1>3, <1>4, <1>5, <1>6
<1>8. <<>> \o Queued = Queued BY <1>3
<1> QED BY <1>2, <1>7, <1>8 DEF Waiting

\* The record in hand is the first to wait.
LEMMA WriteWaits ==
  ASSUME LoggerInv, WriterWrites
  PROVE  Waiting # <<>> /\ Waiting' = Tail(Waiting)
<1>1. PICK r \in Records : hand = <<r>> BY DEF LoggerInv, WriterInv, WriterWrites
<1>2. Queued \in Seq(Records) BY QueuedSeq
<1>3. Queued' = Queued /\ hand' = <<>> BY DEF WriterWrites, ring, Queued
<1> HIDE DEF Queued
<1> QED BY <1>1, <1>2, <1>3 DEF Waiting

LEMMA Unchanged ==
  ASSUME UNCHANGED <<queue, head, count, hand>> PROVE Waiting' = Waiting
BY DEF Waiting, Queued

LEMMA Implements == LoggerInv /\ [LoggerNext]_loggerVars => [E!Next]_(E!vars)
<1> SUFFICES ASSUME LoggerInv, [LoggerNext]_loggerVars PROVE E!Next \/ UNCHANGED <<life, Waiting>>
  BY DEF E!vars, Waiting
<1> USE DEF E!Next
<1>1. CASE StartLogger
  <2>1. Waiting' = <<>> BY <1>1, RenewWaits DEF StartLogger
  <2> QED BY <1>1, <2>1 DEF StartLogger, E!Open, Waiting
<1>2. ASSUME NEW r \in Records, Log(r) PROVE E!Next \/ UNCHANGED <<life, Waiting>>
  <2>1. CASE Refused
    <3>1. Waiting' = Waiting BY <1>2, <2>1, Unchanged DEF Log
    <3> QED BY <1>2, <3>1 DEF Log
  <2>2. CASE ~Refused
    <3>1. Waiting' = Append(Waiting, r) BY <1>2, <2>2, EnqueueWaits DEF Log
    <3> QED BY <1>2, <3>1 DEF Log, E!Accept, Waiting
  <2> QED BY <2>1, <2>2
<1>3. CASE StopRequest
  <2>1. Waiting' = Waiting BY <1>3, Unchanged DEF StopRequest
  <2> QED BY <1>3, <2>1 DEF StopRequest
<1>4. CASE Cleanup
  <2>1. Waiting' = <<>> BY <1>4, RenewWaits DEF Cleanup
  <2>2. Waiting = <<>>
    <3>1. count = 0 /\ hand = <<>> BY <1>4 DEF Cleanup, LoggerInv, WriterInv
    <3>2. Queued = <<>> BY <3>1 DEF Queued
    <3> QED BY <3>1, <3>2 DEF Waiting
  <2> QED BY <1>4, <2>1, <2>2 DEF Cleanup, E!Close, Waiting
<1>5. CASE CrashLogger
  <2>1. Waiting' = <<>> BY <1>5, RenewWaits DEF CrashLogger
  <2> QED BY <1>5, <2>1 DEF CrashLogger, E!Crash, Waiting
<1>6. CASE WriterPops
  <2>1. Waiting' = Waiting BY <1>6, PopWaits
  <2> QED BY <1>6, <2>1 DEF WriterPops
<1>7. CASE WriterWrites
  <2>1. Waiting # <<>> /\ Waiting' = Tail(Waiting) BY <1>7, WriteWaits
  <2>2. life = "open" BY <1>7 DEF WriterWrites, LoggerInv, WriterInv
  <2> QED BY <1>7, <2>1, <2>2 DEF WriterWrites, E!Write, Waiting
<1>8. CASE WriterLocks \/ WriterWaits \/ WriterEnds \/ WriterWakes \/ UNCHANGED loggerVars
  <2>1. UNCHANGED <<queue, head, count, hand, life>>
    BY <1>8 DEF WriterLocks, WriterWaits, WriterEnds, WriterWakes, loggerVars, ring
  <2>2. Waiting' = Waiting BY <2>1, Unchanged
  <2> QED BY <2>1, <2>2
<1> QED BY <1>1, <1>2, <1>3, <1>4, <1>5, <1>6, <1>7, <1>8 DEF LoggerNext, Writer

\* The logger implements EventLog for every capacity: a record that was
\* accepted is written once and in its turn, and the log is closed only when
\* all of them are, in whatever order the two threads come to the mutex.
THEOREM LoggerImplements == LoggerSpec => LogSpec
<1>1. LoggerInit => E!Init BY DEF LoggerInit, Fresh, E!Init, Queued
<1>2. LoggerSpec => []LoggerInv BY InitInv, NextInv, PTL DEF LoggerSpec
<1> QED BY <1>1, <1>2, Implements, PTL DEF LoggerSpec, LogSpec, E!Spec

----------------------------------------------------------------------------
(* The training program.                                                    *)

\* A nonempty set of naturals has a least element.
LEMMA LeastElement == ASSUME NEW T, T \subseteq Nat, T # {} PROVE \E x \in T : \A y \in T : x <= y
<1>1. PICK x \in T : \A y \in T : ~ (<<y, x>> \in OpToRel(<, Nat)) BY NatLessThanWellFounded, WFMin
<1>2. \A y \in T : ~ (y < x) BY <1>1 DEF OpToRel
<1> QED BY <1>2

----------------------------------------------------------------------------
(* Steps of the shards, summed up.                                         *)

Shards == Len(ShardSteps)

\* f sums up the first n shards.
SumsUp(f, n) ==
  /\ f \in [0 .. n -> Nat]
  /\ \A i \in 0 .. n : f[i] = IF i = 0 THEN 0 ELSE f[i - 1] + ShardSteps[i]

\* The shards are a finite list of step counts.
LEMMA ShardsTyped == Shards \in Nat /\ \A i \in 1 .. Shards : ShardSteps[i] \in Nat
BY RunAssumption DEF Shards

\* Some function sums up all the shards: if not, take the least prefix without one.
LEMMA SumsExist == \E f : SumsUp(f, Shards)
<1> DEFINE T == {n \in 0 .. Shards : ~ \E f : SumsUp(f, n)}
<1>1. ASSUME T # {} PROVE FALSE
  <2>0. T \subseteq Nat BY ShardsTyped
  <2>1. PICK n \in T : \A k \in T : n <= k
    <3> HIDE DEF T
    <3> QED BY <1>1, <2>0, LeastElement
  <2>2. CASE n = 0
    <3>1. SumsUp([i \in 0 .. 0 |-> 0], 0) BY DEF SumsUp
    <3> QED BY <2>1, <2>2, <3>1
  <2>3. CASE n # 0
    <3>1. n - 1 \in 0 .. Shards /\ n - 1 \notin T BY <2>1, <2>3, ShardsTyped
    <3>2. PICK f : SumsUp(f, n - 1) BY <3>1
    <3> DEFINE g == [i \in 0 .. n |-> IF i = n THEN f[n - 1] + ShardSteps[n] ELSE f[i]]
    <3>3. n \in 1 .. Shards BY <2>3, ShardsTyped
    <3>4. ShardSteps[n] \in Nat BY <3>3, ShardsTyped
    <3>5. SumsUp(g, n)
      <4>1. \A i \in 0 .. n - 1 : f[i] \in Nat /\ f[i] = IF i = 0 THEN 0 ELSE f[i - 1] + ShardSteps[i]
        BY <3>2 DEF SumsUp
      <4>2. \A i \in 0 .. n : g[i] \in Nat BY <3>3, <3>4, <4>1
      <4>3. ASSUME NEW i \in 0 .. n PROVE g[i] = IF i = 0 THEN 0 ELSE g[i - 1] + ShardSteps[i]
        <5>1. CASE i = n BY <3>3, <5>1
        <5>2. CASE i # n BY <3>3, <4>1, <5>2
        <5> QED BY <5>1, <5>2
      <4> QED BY <4>2, <4>3 DEF SumsUp
    <3> QED BY <2>1, <3>5
  <2> QED BY <2>2, <2>3
<1> QED BY <1>1, ShardsTyped

\* Hence StepsUpTo does, and its values are numbers.
LEMMA StepsUpToSums == SumsUp(StepsUpTo, Shards)
<1>1. PICK f : SumsUp(f, Shards) BY SumsExist
<1>2. f = [i \in 0 .. Shards |-> IF i = 0 THEN 0 ELSE f[i - 1] + ShardSteps[i]]
  BY <1>1 DEF SumsUp
<1>3. StepsUpTo = [i \in 0 .. Shards |-> IF i = 0 THEN 0 ELSE StepsUpTo[i - 1] + ShardSteps[i]]
  BY <1>2 DEF StepsUpTo, Shards
<1> DEFINE T == {n \in 0 .. Shards : StepsUpTo[n] \notin Nat}
<1>4. ASSUME T # {} PROVE FALSE
  <2>0. T \subseteq Nat BY ShardsTyped
  <2>1. PICK n \in T : \A k \in T : n <= k
    <3> HIDE DEF T
    <3> QED BY <1>4, <2>0, LeastElement
  <2>2. CASE n = 0 BY <1>3, <2>1, <2>2
  <2>3. CASE n # 0
    <3>1. n - 1 \in 0 .. Shards /\ n \in 1 .. Shards BY <2>1, <2>3, ShardsTyped
    <3>2. StepsUpTo[n - 1] \in Nat BY <2>1, <3>1
    <3>3. StepsUpTo[n] = StepsUpTo[n - 1] + ShardSteps[n] BY <1>3, <2>3
    <3>4. ShardSteps[n] \in Nat BY <3>1, ShardsTyped
    <3> QED BY <2>1, <3>2, <3>3, <3>4
  <2> QED BY <2>2, <2>3
<1> QED BY <1>3, <1>4 DEF SumsUp

\* The shards one after the other, none beyond the end of the epoch.
LEMMA BeforeShards ==
  /\ Steps \in Nat \ {0} /\ Before(1) = 0
  /\ \A i \in 1 .. Shards + 1 : Before(i) \in 0 .. Steps
  /\ \A i \in 1 .. Shards : Before(i + 1) = Before(i) + ShardSteps[i]
<1>1. /\ \A i \in 0 .. Shards : StepsUpTo[i] \in Nat
      /\ StepsUpTo[0] = 0
      /\ \A i \in 1 .. Shards : StepsUpTo[i] = StepsUpTo[i - 1] + ShardSteps[i]
  BY StepsUpToSums, ShardsTyped DEF SumsUp
<1>2. Steps \in Nat \ {0} BY <1>1, ShardsTyped, RunAssumption DEF Steps, Shards
<1> DEFINE T == {n \in 0 .. Shards : ~ (StepsUpTo[Shards - n] <= Steps)}
<1>3. ASSUME T # {} PROVE FALSE
  <2>0. T \subseteq Nat BY ShardsTyped
  <2>1. PICK n \in T : \A k \in T : n <= k
    <3> HIDE DEF T
    <3> QED BY <1>3, <2>0, LeastElement
  <2>2. n # 0 BY <1>2, <2>1, ShardsTyped DEF Steps, Shards
  <2>3. n - 1 \in 0 .. Shards /\ n - 1 \notin T BY <2>1, <2>2, ShardsTyped
  <2>4. StepsUpTo[Shards - (n - 1)] <= Steps BY <2>3
  <2>5. Shards - n + 1 \in 1 .. Shards /\ Shards - (n - 1) = Shards - n + 1
        /\ Shards - n + 1 - 1 = Shards - n /\ Shards - n \in 0 .. Shards
    BY <2>1, <2>2, ShardsTyped
  <2>6. StepsUpTo[Shards - n + 1] = StepsUpTo[Shards - n] + ShardSteps[Shards - n + 1]
    BY <1>1, <2>5
  <2>7. ShardSteps[Shards - n + 1] \in Nat /\ StepsUpTo[Shards - n] \in Nat
    BY <1>1, <2>5, ShardsTyped
  <2> QED BY <1>2, <2>1, <2>4, <2>5, <2>6, <2>7
<1>4. ASSUME NEW i \in 0 .. Shards PROVE StepsUpTo[i] <= Steps
  <2>1. Shards - i \in 0 .. Shards /\ Shards - (Shards - i) = i BY ShardsTyped
  <2> QED BY <1>3, <2>1
<1>5. \A i \in 1 .. Shards + 1 : i - 1 \in 0 .. Shards BY ShardsTyped
<1> QED BY <1>1, <1>2, <1>4, <1>5, ShardsTyped DEF Before

----------------------------------------------------------------------------
(* Sequences of batches.                                                   *)

\* The next batch of a run that is never interrupted.
LEMMA UptoAppend == ASSUME NEW n \in Nat PROVE Append(Upto(n), n + 1) = Upto(n + 1)
BY DEF Upto

\* A batch more has been seen.
LEMMA SeenAppend ==
  ASSUME NEW s \in Seq(Int), NEW b \in Int
  PROVE  Seen(Append(s, b)) = Seen(s) \cup {b}
<1>1. Append(s, b) \in Seq(Int) /\ DOMAIN Append(s, b) = 1 .. Len(s) + 1 /\ Len(s) \in Nat
      /\ DOMAIN s = 1 .. Len(s)
  OBVIOUS
<1>2. \A i \in 1 .. Len(s) : Append(s, b)[i] = s[i] OBVIOUS
<1>3. Append(s, b)[Len(s) + 1] = b OBVIOUS
<1>4. 1 .. Len(s) + 1 = (1 .. Len(s)) \cup {Len(s) + 1} BY <1>1
<1> QED BY <1>1, <1>2, <1>3, <1>4 DEF Seen

----------------------------------------------------------------------------
(* Where the program is, against the batches it has trained on.            *)

\* Steps of the epochs before epoch e.
Done(e) == (e - 1) * Steps

\* An epoch more is done.
LEMMA DoneNext ==
  ASSUME NEW e \in Int
  PROVE  Done(e) \in Int /\ Done(e + 1) = Done(e) + Steps /\ Done(1) = 0 /\ Done(0) + Steps = 0
<1>1. Steps \in Nat BY BeforeShards
<1> HIDE DEF Steps
<1>2. (e + 1 - 1) * Steps = (e - 1) * Steps + Steps BY <1>1
<1> QED BY <1>1, <1>2 DEF Done

Positions == [epoch : Nat, step : 0 .. Steps, gstep : Nat, stale : Nat]

\* A position that an uninterrupted run comes to.
OnCourse(s) == s \in Positions /\ s.gstep = Done(s.epoch) + s.step

Where == {"off", "load", "refused", "epoch", "shard", "train", "finish", "stop", "join"}

Counters ==
  /\ pc \in Where
  /\ epoch \in Nat /\ first \in Nat /\ shard \in Nat /\ local \in Nat /\ served \in Nat
  /\ epochStep \in Nat /\ gstep \in Nat /\ stale \in Nat
  /\ model \in Seq(Int) /\ optim \in Seq(Int)
  /\ resume \in Paths \cup {Afresh} /\ synced \in BOOLEAN /\ backwards \in BOOLEAN

\* The step of the epoch comes after the shards that are done and after what was
\* trained before the run was resumed.
Course ==
  /\ pc = "epoch" => first \in 1 .. Steps /\ (epoch <= Epochs => gstep = Done(epoch) + first - 1)
  /\ pc \in {"shard", "train", "finish"} =>
       gstep = Done(epoch) + epochStep - 1 /\ first \in 1 .. Steps
  /\ pc = "shard" =>
       /\ shard \in 1 .. Shards + 1
       /\ epochStep = IF first > Before(shard) + 1 THEN first ELSE Before(shard) + 1
  /\ pc = "train" =>
       /\ shard \in 1 .. Shards /\ local \in 1 .. ShardSteps[shard] + 1 /\ served = local - 1
       /\ epochStep = Before(shard) + local
       /\ first <= Before(shard + 1)
  /\ pc = "finish" => epochStep = Steps + 1

----------------------------------------------------------------------------
(* The files, and the saves that are due.                                  *)

Halves == {"model", "optim"}
Trained(part) == IF part = "model" THEN model ELSE optim

Contents == {NoFile, Torn} \cup {Whole(c) : c \in Seq(Int) \cup Positions}

AnyTask ==
  [do : {"log"}, what : Records] \cup [do : {"write"}]
  \cup [do : {"rename"}, at : Paths, part : Halves]
  \cup [do : {"open"}, at : Paths] \cup [do : {"close"}, at : Paths, state : Positions]

Renames(t, p, part) == t.do = "rename" /\ t.at = p /\ t.part = part

\* A save of the position is of a run on its course.
Close(t, g) == OnCourse(t.state) /\ t.state.gstep = g

\* The part of the checkpoint is of the run as it is, which may itself be of a
\* mixture.
Renamed(p, part) ==
  file[p][part] = Whole(Trained(part)) /\ ("run" \in mixed => p \in mixed)

\* A file is synced before it is renamed, and the position is written when model
\* and optimizer are: a rename that is still to come is in front of it.
Saves ==
  /\ todo \in Seq(AnyTask)
  /\ \A i \in 1 .. Len(todo) :
       /\ todo[i].do = "rename" => IF i = 1 THEN synced ELSE todo[i - 1].do = "write"
       /\ todo[i].do = "close" =>
            /\ Close(todo[i], gstep)
            /\ \A part \in Halves :
                 \/ Renamed(todo[i].at, part)
                 \/ \E j \in 1 .. i - 1 : Renames(todo[j], todo[i].at, part)
  /\ ~ Training => todo = <<>>

Files ==
  /\ file \in [Paths -> [Parts -> Contents]]
  /\ loose \subseteq Paths \X {"state"}
  /\ \A p \in Paths, part \in Halves :
       file[p][part] # Torn /\ (IsWhole(p, part) => Of(p, part) \in Seq(Int))
  /\ \A p \in Paths : IsWhole(p, "state") =>
       OnCourse(Of(p, "state")) /\ \A part \in Halves : IsWhole(p, part)

Clean ==
  /\ Training /\ "run" \notin mixed => \A part \in Halves : Trained(part) = Upto(gstep)
  /\ \A p \in Paths \ mixed : IsWhole(p, "state") =>
       \A part \in Halves : Of(p, part) = Upto(Of(p, "state").gstep)

\* No position is ahead of the batches that the files beside it have seen, nor of
\* the run that goes on.
Behind ==
  ~ backwards =>
    /\ Training => \A part \in Halves : 1 .. gstep \subseteq Seen(Trained(part))
    /\ \A p \in Paths : IsWhole(p, "state") =>
         /\ Training => Of(p, "state").gstep <= gstep
         /\ \A part \in Halves : 1 .. Of(p, "state").gstep \subseteq Seen(Of(p, part))

TrainingInv == Counters /\ Course /\ Saves /\ Files /\ Clean /\ Behind

----------------------------------------------------------------------------
(* What is due when something new is.                                      *)

\* What a task of each kind has.
LEMMA TaskFields ==
  ASSUME NEW t \in AnyTask
  PROVE  /\ t.do \in {"log", "write", "rename", "open", "close"}
         /\ t.do = "log" => t.what \in Records
         /\ t.do = "rename" => t.at \in Paths /\ t.part \in Halves
         /\ t.do = "open" => t.at \in Paths
         /\ t.do = "close" => t.at \in Paths /\ t.state \in Positions
BY DEF AnyTask

\* A sequence that can be carried out from its beginning, g steps into the run.
Sound(s, g) ==
  /\ s \in Seq(AnyTask)
  /\ \A i \in 1 .. Len(s) :
       /\ s[i].do = "rename" => i > 1 /\ s[i - 1].do = "write"
       /\ s[i].do = "close" =>
            /\ Close(s[i], g)
            /\ \A part \in Halves : \E j \in 1 .. i - 1 : Renames(s[j], s[i].at, part)

\* Nothing is due: nothing is out of order.
LEMMA SoundNothing == ASSUME NEW g PROVE Sound(<<>>, g)
BY DEF Sound

\* A record can be logged at any time.
LEMMA SoundLog ==
  ASSUME NEW g, NEW r \in Records PROVE Sound(<< ToLog(r) >>, g)
<1>1. ToLog(r) \in AnyTask /\ ToLog(r).do = "log" BY DEF ToLog, AnyTask
<1> QED BY <1>1 DEF Sound

\* So can what is due on a condition.
LEMMA SoundIf ==
  ASSUME NEW g, NEW s, NEW c \in BOOLEAN, c => Sound(s, g) PROVE Sound(If(c, s), g)
BY SoundNothing DEF If

\* One thing after another: the two parts keep their order.
LEMMA SoundConcat ==
  ASSUME NEW g, NEW s, NEW t, Sound(s, g), Sound(t, g) PROVE Sound(s \o t, g)
<1> DEFINE u == s \o t
           m == Len(s)
<1>1. s \in Seq(AnyTask) /\ t \in Seq(AnyTask) BY DEF Sound
<1>2. u \in Seq(AnyTask) /\ Len(u) = m + Len(t) /\ m \in Nat /\ Len(t) \in Nat BY <1>1
<1>3. \A i \in 1 .. m : u[i] = s[i] BY <1>1
<1>4. \A i \in 1 .. Len(t) : u[m + i] = t[i] BY <1>1
<1> HIDE DEF u, m
<1>5. ASSUME NEW i \in 1 .. Len(u)
      PROVE  /\ u[i].do = "rename" => i > 1 /\ u[i - 1].do = "write"
             /\ u[i].do = "close" =>
                  /\ Close(u[i], g)
                  /\ \A part \in Halves : \E j \in 1 .. i - 1 : Renames(u[j], u[i].at, part)
  <2>1. CASE i <= m
    <3>1. i \in 1 .. m /\ u[i] = s[i] /\ \A j \in 1 .. i - 1 : u[j] = s[j] BY <1>2, <1>3, <2>1
    <3>2. s[i].do = "rename" => i > 1 /\ i - 1 \in 1 .. i - 1 /\ s[i - 1].do = "write"
      BY <1>2, <3>1 DEF Sound, m
    <3>3. s[i].do = "close" =>
            /\ Close(s[i], g)
            /\ \A part \in Halves : \E j \in 1 .. i - 1 : Renames(s[j], s[i].at, part)
      BY <3>1 DEF Sound, m
    <3> QED BY <3>1, <3>2, <3>3
  <2>2. CASE i > m
    <3> DEFINE k == i - m
    <3>1. k \in 1 .. Len(t) /\ i = m + k BY <1>2, <2>2
    <3>2. u[i] = t[k] BY <1>4, <3>1
    <3>3. \A j \in 1 .. k - 1 : u[m + j] = t[j] /\ m + j \in 1 .. i - 1 BY <1>2, <1>4, <3>1
    <3>4. t[k].do = "rename" => k > 1 /\ t[k - 1].do = "write" BY <3>1 DEF Sound
    <3>5. t[k].do = "close" =>
            /\ Close(t[k], g)
            /\ \A part \in Halves : \E j \in 1 .. k - 1 : Renames(t[j], t[k].at, part)
      BY <3>1 DEF Sound
    <3> HIDE DEF k
    <3>6. t[k].do = "rename" => i > 1 /\ u[i - 1].do = "write"
      <4>1. k > 1 => k - 1 \in 1 .. k - 1 /\ m + (k - 1) = i - 1 /\ i > 1 BY <1>2, <3>1
      <4> QED BY <3>3, <3>4, <4>1
    <3>7. t[k].do = "close" => \A part \in Halves : \E j \in 1 .. i - 1 : Renames(u[j], t[k].at, part)
      BY <3>3, <3>5
    <3> QED BY <3>2, <3>5, <3>6, <3>7
  <2> QED BY <1>2, <2>1, <2>2
<1> QED BY <1>2, <1>5 DEF Sound, u

\* A checkpoint of a position on its course.
LEMMA SoundBundle ==
  ASSUME NEW p \in Paths, NEW s, OnCourse(s) PROVE Sound(Bundle(p, s), s.gstep)
<1>1. s \in Positions BY DEF OnCourse
<1> DEFINE w == [do |-> "write"]
           r(part) == [do |-> "rename", at |-> p, part |-> part]
           o == [do |-> "open", at |-> p]
           c == [do |-> "close", at |-> p, state |-> s]
           l == ToLog("checkpoint")
           b == << w, r("model"), w, r("optim"), o, c, l >>
<1>2. w \in AnyTask /\ w.do = "write" BY DEF AnyTask
<1>3. r("model") \in AnyTask /\ r("model").do = "rename" /\ Renames(r("model"), p, "model")
  BY DEF AnyTask, Halves, Renames
<1>4. r("optim") \in AnyTask /\ r("optim").do = "rename" /\ Renames(r("optim"), p, "optim")
  BY DEF AnyTask, Halves, Renames
<1>5. o \in AnyTask /\ o.do = "open" BY DEF AnyTask
<1>6. c \in AnyTask /\ c.do = "close" /\ c.at = p /\ Close(c, s.gstep) BY <1>1 DEF AnyTask, Close
<1>7. l \in AnyTask /\ l.do = "log" BY RunAssumption DEF AnyTask, ToLog
<1>8. Bundle(p, s) = b BY DEF Bundle
<1> HIDE DEF w, r, o, c, l
<1>9. b \in Seq(AnyTask) /\ Len(b) = 7 BY <1>2, <1>3, <1>4, <1>5, <1>6, <1>7
<1>10. /\ b[1] = w /\ b[2] = r("model") /\ b[3] = w /\ b[4] = r("optim")
       /\ b[5] = o /\ b[6] = c /\ b[7] = l
  OBVIOUS
<1> HIDE DEF b
<1>11. ASSUME NEW i \in 1 .. Len(b), b[i].do = "rename" PROVE i > 1 /\ b[i - 1].do = "write"
  <2>1. i \in {1, 2, 3, 4, 5, 6, 7} BY <1>9
  <2>2. i = 2 \/ i = 4 BY <1>2, <1>5, <1>6, <1>7, <1>10, <1>11, <2>1
  <2> QED BY <1>2, <1>10, <2>2
<1>12. ASSUME NEW i \in 1 .. Len(b), b[i].do = "close"
       PROVE  /\ Close(b[i], s.gstep)
              /\ \A part \in Halves : \E j \in 1 .. i - 1 : Renames(b[j], b[i].at, part)
  <2>1. i \in {1, 2, 3, 4, 5, 6, 7} BY <1>9
  <2>2. i = 6 BY <1>2, <1>3, <1>4, <1>5, <1>7, <1>10, <1>12, <2>1
  <2>3. 2 \in 1 .. 6 - 1 /\ 4 \in 1 .. 6 - 1 OBVIOUS
  <2>4. Renames(b[2], p, "model") /\ Renames(b[4], p, "optim") BY <1>3, <1>4, <1>10
  <2> QED BY <1>6, <1>10, <2>2, <2>3, <2>4 DEF Halves
<1> QED BY <1>8, <1>9, <1>11, <1>12 DEF Sound

\* What is due anew is due with nothing left.
LEMMA SoundSaves ==
  ASSUME Sound(todo', gstep'), Training' PROVE Saves'
<1>1. ASSUME NEW i \in 1 .. Len(todo') PROVE
        /\ todo'[i].do = "rename" => IF i = 1 THEN synced' ELSE todo'[i - 1].do = "write"
        /\ todo'[i].do = "close" =>
            /\ Close(todo'[i], gstep')
            /\ \A part \in Halves : \E j \in 1 .. i - 1 : Renames(todo'[j], todo'[i].at, part)
  BY <1>1 DEF Sound
<1>2. todo' \in Seq(AnyTask) BY DEF Sound
<1> QED BY <1>1, <1>2 DEF Saves

----------------------------------------------------------------------------
(* Steps that touch neither the files nor what was trained.                *)

\* Missing, torn and whole files are told apart.
LEMMA ContentFacts ==
  ASSUME NEW c
  PROVE  /\ Whole(c).is = "whole" /\ Whole(c).of = c /\ Whole(c) # Torn /\ NoFile # Torn
         /\ Torn.is # "whole" /\ NoFile.is # "whole"
<1>1. Whole(c).is = "whole" /\ Whole(c).of = c BY DEF Whole
<1>2. Torn.is = "torn" /\ NoFile.is = "missing" BY DEF Torn, NoFile
<1> QED BY <1>1, <1>2

\* Nothing that Files, Clean and Behind speak of changes.
LEMMA KeptFiles ==
  ASSUME Files, Clean, Behind,
         UNCHANGED <<file, loose, model, optim, gstep, mixed, backwards>>, Training' => Training
  PROVE  Files' /\ Clean' /\ Behind'
<1>1. Files' BY DEF Files, IsWhole, Of
<1>2. Clean' BY DEF Clean, IsWhole, Of, Trained
<1>3. Behind' BY DEF Behind, IsWhole, Of, Trained
<1> QED BY <1>1, <1>2, <1>3

\* Nor anything that is due.
LEMMA Kept ==
  ASSUME Saves, Files, Clean, Behind,
         UNCHANGED <<disk, todo, model, optim, gstep, mixed, backwards>>,
         Training' => Training, ~ Training' => todo = <<>>
  PROVE  Saves' /\ Files' /\ Clean' /\ Behind'
<1>1. Files' /\ Clean' /\ Behind' BY KeptFiles DEF disk
<1>2. Saves' BY DEF Saves, Trained, Renamed, disk
<1> QED BY <1>1, <1>2

\* No run has begun, and nothing is on the disk.
LEMMA TrainingInit == Init => TrainingInv
<1> SUFFICES ASSUME Init PROVE TrainingInv OBVIOUS
<1>1. Counters
  <2>1. model \in Seq(Int) /\ optim \in Seq(Int) BY DEF Init
  <2>2. resume \in Paths \cup {Afresh} /\ pc \in Where BY DEF Init, Where
  <2> QED BY <2>1, <2>2 DEF Init, Counters
<1>2. Course BY DEF Init, Course
<1>3. Saves BY DEF Init, Saves, Training
<1>4. Files
  <2>1. \A p \in Paths, part \in Parts : file[p][part] = NoFile BY DEF Init
  <2>2. file \in [Paths -> [Parts -> Contents]] BY DEF Init, Contents
  <2>3. \A p \in Paths, part \in Parts : ~ IsWhole(p, part) BY <2>1, ContentFacts DEF IsWhole
  <2>4. Halves \subseteq Parts /\ "state" \in Parts BY DEF Halves, Parts
  <2>5. loose = {} BY DEF Init
  <2> QED BY <2>1, <2>2, <2>3, <2>4, <2>5, ContentFacts DEF Files
<1>5. Clean BY <1>4, ContentFacts DEF Init, Clean, Training, IsWhole, Parts
<1>6. Behind BY ContentFacts DEF Init, Behind, Training, IsWhole, Parts
<1> QED BY <1>1, <1>2, <1>3, <1>4, <1>5, <1>6 DEF TrainingInv

\* The steps of the loop that only move on.
LEMMA LoopInv ==
  ASSUME TrainingInv, NextEpoch \/ SkipShard \/ OpenShard \/ ShardDone \/ EpochDone
  PROVE  TrainingInv'
<1> USE DEF TrainingInv, At
<1> USE BeforeShards, ShardsTyped
<1>0. gstep \in Nat /\ Done(epoch) \in Int BY DoneNext DEF Counters
<1> HIDE DEF Steps
<1>1. CASE NextEpoch
  <2>1. Counters' BY <1>1 DEF NextEpoch, Counters, Where, disk, past
  <2>2. Course' BY <1>1, <1>0 DEF NextEpoch, Course, Counters, Shards
  <2>3. Saves' /\ Files' /\ Clean' /\ Behind' BY <1>1, Kept DEF NextEpoch, Training, past
  <2> QED BY <2>1, <2>2, <2>3
<1>2. CASE SkipShard
  <2>1. Counters' BY <1>2 DEF SkipShard, Counters, disk, past
  <2>0. shard \in 1 .. Shards /\ ShardSteps[shard] \in Nat /\ Before(shard) \in Nat
    BY <1>2 DEF SkipShard, Course, Shards
  <2>4. Before(shard + 1) = Before(shard) + ShardSteps[shard] /\ first \in Nat /\ first >= 1
    BY <1>2, <2>0 DEF SkipShard, Course, Counters
  <2>5. epochStep = IF first > Before(shard) + 1 THEN first ELSE Before(shard) + 1
    BY <1>2 DEF SkipShard, Course
  <2>6. epochStep = IF first > Before(shard + 1) + 1 THEN first ELSE Before(shard + 1) + 1
    <3>1. ShardSteps[shard] = 0 \/ Before(shard) + ShardSteps[shard] < first
      BY <1>2 DEF SkipShard, PassedOver
    <3> QED BY <2>0, <2>4, <2>5, <3>1
  <2>7. gstep = Done(epoch) + epochStep - 1 /\ shard + 1 \in 1 .. Shards + 1
    BY <1>2, <2>0 DEF SkipShard, Course
  <2>2. Course' BY <1>2, <2>4, <2>6, <2>7 DEF SkipShard, Course
  <2>3. Saves' /\ Files' /\ Clean' /\ Behind' BY <1>2, Kept DEF SkipShard, Training, past
  <2> QED BY <2>1, <2>2, <2>3
<1>3. CASE OpenShard
  <2>0. shard \in 1 .. Shards /\ LocalFirst(shard) \in Nat /\ LocalFirst(shard) - 1 \in Nat
    BY <1>3 DEF OpenShard, Course, Counters, Shards, LocalFirst
  <2>1. Counters' BY <1>3, <2>0 DEF OpenShard, Counters, Where, disk, past
  <2>4. ShardSteps[shard] \in Nat /\ Before(shard) \in Nat BY <2>0
  <2>5. Before(shard + 1) = Before(shard) + ShardSteps[shard] /\ first \in Nat /\ first >= 1
        /\ gstep = Done(epoch) + epochStep - 1
        /\ epochStep = IF first > Before(shard) + 1 THEN first ELSE Before(shard) + 1
    BY <1>3, <2>0 DEF OpenShard, Course, Counters
  <2>6. /\ first <= Before(shard + 1) /\ epochStep = Before(shard) + LocalFirst(shard)
        /\ LocalFirst(shard) \in 1 .. ShardSteps[shard] + 1
    <3>1. first <= Before(shard) + ShardSteps[shard] /\ ShardSteps[shard] # 0
      BY <1>3, <2>4, <2>5 DEF OpenShard, PassedOver
    <3>2. CASE first > Before(shard) + 1 BY <2>4, <2>5, <3>1, <3>2 DEF LocalFirst
    <3>3. CASE ~ (first > Before(shard) + 1) BY <2>4, <2>5, <3>1, <3>3 DEF LocalFirst
    <3> QED BY <3>2, <3>3
  <2>2. Course' BY <1>3, <2>0, <2>5, <2>6 DEF OpenShard, Course
  <2>3. Saves' /\ Files' /\ Clean' /\ Behind' BY <1>3, Kept DEF OpenShard, Training, past
  <2> QED BY <2>1, <2>2, <2>3
<1>4. CASE ShardDone
  <2>1. Counters' BY <1>4 DEF ShardDone, Counters, Where, disk, past
  <2>4. shard \in 1 .. Shards /\ ShardSteps[shard] \in Nat /\ Before(shard) \in Nat
    BY <1>4 DEF ShardDone, Course
  <2>5. /\ Before(shard + 1) = Before(shard) + ShardSteps[shard] /\ local = ShardSteps[shard] + 1
        /\ epochStep = Before(shard) + local /\ first <= Before(shard + 1) /\ first \in Nat /\ first >= 1
        /\ gstep = Done(epoch) + epochStep - 1
    <3>1. local > ShardSteps[shard] /\ local \in 1 .. ShardSteps[shard] + 1 /\ first \in Nat
          /\ first >= 1 /\ first <= Before(shard + 1) /\ epochStep = Before(shard) + local
          /\ gstep = Done(epoch) + epochStep - 1
      BY <1>4 DEF ShardDone, Course, Counters
    <3>2. Before(shard + 1) = Before(shard) + ShardSteps[shard] BY <2>4
    <3>3. local = ShardSteps[shard] + 1 BY <2>4, <3>1
    <3> QED BY <3>1, <3>2, <3>3
  <2>6. epochStep = IF first > Before(shard + 1) + 1 THEN first ELSE Before(shard + 1) + 1
    BY <2>4, <2>5
  <2>2. Course' BY <1>4, <2>4, <2>5, <2>6 DEF ShardDone, Course
  <2>3. Saves' /\ Files' /\ Clean' /\ Behind' BY <1>4, Kept DEF ShardDone, Training, past
  <2> QED BY <2>1, <2>2, <2>3
<1>5. CASE EpochDone
  <2>1. Counters' BY <1>5 DEF EpochDone, Counters, Where, disk, past, process
  <2>2. Course' BY <1>5, <1>0 DEF EpochDone, Course, Counters, Shards, process
  <2>3. Saves' /\ Files' /\ Clean' /\ Behind' BY <1>5, Kept DEF EpochDone, Training, past, process
  <2> QED BY <2>1, <2>2, <2>3
<1> QED BY <1>1, <1>2, <1>3, <1>4, <1>5

\* A process that ends leaves what is on the disk.
LEMMA GoneInv ==
  ASSUME TrainingInv, Gone, file' \in [Paths -> [Parts -> Contents]], loose' \subseteq loose,
         \A p \in Paths, part \in Halves : file'[p][part] = file[p][part],
         \A p \in Paths : file'[p]["state"] \in {Torn, file[p]["state"]}
  PROVE  TrainingInv'
<1> USE DEF TrainingInv, Gone
<1>1. Counters'
  <2>1. model' \in Seq(Int) /\ optim' \in Seq(Int) OBVIOUS
  <2>2. resume' \in Paths \cup {Afresh} /\ pc' \in Where BY DEF Where
  <2> QED BY <2>1, <2>2 DEF Counters
<1>2. Course' BY DEF Course
<1>3. Saves' BY DEF Saves, Training
<1>4. \A p \in Paths : IsWhole(p, "state")' => IsWhole(p, "state") /\ Of(p, "state")' = Of(p, "state")
  BY ContentFacts DEF IsWhole, Of
<1>5. \A p \in Paths, part \in Halves :
        IsWhole(p, part)' = IsWhole(p, part) /\ Of(p, part)' = Of(p, part)
  BY DEF IsWhole, Of
<1>6. Files' BY <1>4, <1>5 DEF Files
<1>7. Clean'
  <2>1. \A p \in Paths \ mixed' : p \in Paths \ mixed BY RunAssumption
  <2> QED BY <1>4, <1>5, <2>1 DEF Clean, Training
<1>8. Behind' BY <1>4, <1>5 DEF Behind, Training
<1> QED BY <1>1, <1>2, <1>3, <1>6, <1>7, <1>8

----------------------------------------------------------------------------
(* What is due, carried out.                                               *)

\* What is left when the first of what is due is done: a rename that is not to
\* come any more has happened.
LEMMA TailSaves ==
  ASSUME Saves, todo # <<>>, todo' = Tail(todo), UNCHANGED <<pc, gstep, model, optim>>,
         Head(todo).do = "write" => synced',
         \A p \in Paths, part \in Halves :
           Renamed(p, part) \/ Renames(Head(todo), p, part) => Renamed(p, part)'
  PROVE  Saves'
<1> DEFINE n == Len(todo)
<1>0. todo \in Seq(AnyTask) BY DEF Saves
<1>1. n \in Nat \ {0} /\ todo' \in Seq(AnyTask) /\ Len(todo') = n - 1 /\ Head(todo) = todo[1]
      /\ \A i \in 1 .. n - 1 : todo'[i] = todo[i + 1]
  BY <1>0
<1>2. \A i \in 1 .. n : todo[i] \in AnyTask BY <1>0
<1> HIDE DEF n
<1>4. ASSUME NEW i \in 1 .. n - 1, todo'[i].do = "rename"
      PROVE  IF i = 1 THEN synced' ELSE todo'[i - 1].do = "write"
  <2>1. i + 1 \in 1 .. n /\ i + 1 # 1 /\ i + 1 - 1 = i BY <1>1
  <2>2. todo[i].do = "write" BY <1>1, <1>4, <2>1 DEF Saves, n
  <2>3. CASE i = 1 BY <1>1, <2>2, <2>3
  <2>4. CASE i # 1
    <3>1. i - 1 \in 1 .. n - 1 /\ i - 1 + 1 = i BY <1>1, <2>4
    <3> QED BY <1>1, <2>2, <2>4, <3>1
  <2> QED BY <2>3, <2>4
<1>5. ASSUME NEW i \in 1 .. n - 1, todo'[i].do = "close"
      PROVE  /\ Close(todo'[i], gstep')
             /\ \A p \in Paths, part \in Halves : p = todo'[i].at =>
                 \/ Renamed(p, part)'
                 \/ \E j \in 1 .. i - 1 : Renames(todo'[j], p, part)
  <2>1. i + 1 \in 1 .. n /\ i + 1 - 1 = i /\ todo'[i] = todo[i + 1] BY <1>1
  <2>2. todo[i + 1].at \in Paths BY <1>2, <1>5, <2>1, TaskFields
  <2>3. Close(todo[i + 1], gstep) BY <1>5, <2>1 DEF Saves, n
  <2>4. ASSUME NEW p \in Paths, NEW part \in Halves, p = todo'[i].at
        PROVE  \/ Renamed(p, part)'
               \/ \E j \in 1 .. i - 1 : Renames(todo'[j], p, part)
    <3>1. \/ Renamed(p, part)
          \/ \E j \in 1 .. i : Renames(todo[j], p, part)
      BY <1>5, <2>1, <2>4 DEF Saves, n
    <3>2. CASE Renamed(p, part) BY <3>2
    <3>3. ASSUME NEW j \in 1 .. i, Renames(todo[j], p, part)
          PROVE  \/ Renamed(p, part)'
                 \/ \E k \in 1 .. i - 1 : Renames(todo'[k], p, part)
      <4>1. CASE j = 1 BY <1>1, <3>3, <4>1
      <4>2. CASE j # 1
        <5>1. j - 1 \in 1 .. i - 1 /\ j - 1 \in 1 .. n - 1 /\ j - 1 + 1 = j BY <1>1, <4>2
        <5>2. todo'[j - 1] = todo[j] BY <1>1, <5>1
        <5> QED BY <3>3, <5>1, <5>2
      <4> QED BY <4>1, <4>2
    <3> QED BY <3>1, <3>2, <3>3
  <2> QED BY <2>1, <2>3, <2>4
<1>6. ~ Training' => todo' = <<>> BY DEF Saves, Training
<1>7. 1 .. Len(todo') = 1 .. n - 1 BY <1>1
<1>8. \A i \in 1 .. Len(todo') :
        /\ todo'[i].do = "rename" => IF i = 1 THEN synced' ELSE todo'[i - 1].do = "write"
        /\ todo'[i].do = "close" =>
             /\ Close(todo'[i], gstep')
             /\ \A p \in Paths, part \in Halves : p = todo'[i].at =>
                  \/ Renamed(p, part)'
                  \/ \E j \in 1 .. i - 1 : Renames(todo'[j], p, part)
  BY <1>4, <1>5, <1>7
<1>9. \A i \in 1 .. Len(todo') : todo'[i].do = "close" => todo'[i].at \in Paths
  BY <1>1, <1>2, <1>7, TaskFields
<1>10. \A i \in 1 .. Len(todo') : todo'[i].do = "close" => \A part \in Halves :
         \/ Renamed(todo[i].at, part)'
         \/ \E j \in 1 .. i - 1 : Renames(todo'[j], todo'[i].at, part)
  BY <1>8, <1>9 DEF Renamed, Trained
<1>11. todo' \in Seq(AnyTask) BY <1>1
<1> HIDE DEF n
<1> QED BY <1>6, <1>8, <1>10, <1>11 DEF Saves

\* What is due first.
LEMMA HeadTask ==
  ASSUME Saves, todo # <<>>
  PROVE  /\ Head(todo) \in AnyTask /\ Training
         /\ Head(todo).do = "rename" => synced
         /\ Head(todo).do = "close" =>
              /\ Close(Head(todo), gstep)
              /\ \A part \in Halves : Renamed(Head(todo).at, part)
<1>1. todo \in Seq(AnyTask) BY DEF Saves
<1>2. 1 \in 1 .. Len(todo) /\ Head(todo) = todo[1] /\ todo[1] \in AnyTask BY <1>1
<1>3. 1 .. 1 - 1 = {} OBVIOUS
<1> QED BY <1>2, <1>3 DEF Saves

\* A record, or a temporary file: no file of a checkpoint changes.
LEMMA LogInv ==
  ASSUME TrainingInv, LogRecord \/ WriteTemporary
  PROVE  TrainingInv'
<1> USE DEF TrainingInv, Due
<1>1. UNCHANGED <<pc, process, past, file, loose>> /\ todo # <<>> /\ todo' = Tail(todo)
      /\ synced' \in BOOLEAN /\ (Head(todo).do = "write" => synced')
      /\ Head(todo).do # "rename"
  BY DEF LogRecord, WriteTemporary, disk, Counters
<1>2. Counters' /\ Course' BY <1>1 DEF Counters, Course, process, past
<1>3. Files' /\ Clean' /\ Behind' BY <1>1, KeptFiles DEF process, past, Training
<1>4. \A p \in Paths, part \in Halves :
        Renamed(p, part) \/ Renames(Head(todo), p, part) => Renamed(p, part)'
  BY <1>1 DEF Renamed, Renames, Trained, process, past
<1>5. Saves' BY <1>1, <1>4, TailSaves DEF process
<1> QED BY <1>2, <1>3, <1>5

\* The three parts of a checkpoint.
LEMMA PartNames == Parts = Halves \cup {"state"} /\ "state" \notin Halves /\ "run" \notin Paths
BY RunAssumption DEF Parts, Halves

\* A half of the checkpoint is replaced by what the run has trained.
LEMMA RenameInv == ASSUME TrainingInv, Rename PROVE TrainingInv'
<1> USE DEF TrainingInv
<1> DEFINE t == Head(todo)
<1>1. /\ t.do = "rename" /\ todo # <<>> /\ todo' = Tail(todo) /\ synced' = FALSE
      /\ UNCHANGED <<pc, process, backwards>> /\ mixed' = mixed \cup {t.at}
      /\ t.at \in Paths /\ t.part \in Halves /\ Training /\ synced
  BY HeadTask, TaskFields DEF Rename, Due
<1>2. file' = [file EXCEPT ![t.at][t.part] = Whole(Trained(t.part))] BY DEF Rename, Trained
<1>3. loose' \subseteq loose BY <1>1 DEF Rename
<1>4. Trained(t.part) \in Seq(Int) /\ Whole(Trained(t.part)) \in Contents
  BY DEF Counters, Trained, Contents
<1> HIDE DEF t
<1>5. /\ file' \in [Paths -> [Parts -> Contents]]
      /\ file'[t.at][t.part] = Whole(Trained(t.part))
      /\ \A q \in Paths, h \in Parts : (q # t.at \/ h # t.part) => file'[q][h] = file[q][h]
  BY <1>1, <1>2, <1>4, PartNames DEF Files
<1>6. /\ \A p \in Paths : file'[p]["state"] = file[p]["state"]
      /\ \A p \in Paths : IsWhole(p, "state")' = IsWhole(p, "state")
                       /\ Of(p, "state")' = Of(p, "state")
  BY <1>1, <1>5, PartNames DEF IsWhole, Of
<1>7. \A p \in Paths, h \in Halves :
        \/ p = t.at /\ h = t.part /\ IsWhole(p, h)' /\ Of(p, h)' = Trained(h) /\ file'[p][h] # Torn
        \/ file'[p][h] = file[p][h] /\ IsWhole(p, h)' = IsWhole(p, h) /\ Of(p, h)' = Of(p, h)
  BY <1>5, PartNames, ContentFacts DEF IsWhole, Of
<1>8. \A h \in Halves : Trained(h)' = Trained(h) BY <1>1 DEF process, Trained
<1>9. Counters' BY <1>1 DEF Counters, process
<1>10. Course' BY <1>1 DEF Course, process
<1>11. Saves'
  <2>1. \A p \in Paths, h \in Halves :
          Renamed(p, h) \/ Renames(t, p, h) => Renamed(p, h)'
    BY <1>1, <1>5, <1>8, PartNames DEF Renamed, Renames
  <2> QED BY <1>1, <2>1, TailSaves DEF process, t
<1>12. Files'
  <2>1. loose' \subseteq Paths \X {"state"} BY <1>3 DEF Files
  <2>2. \A p \in Paths, h \in Halves :
          file'[p][h] # Torn /\ (IsWhole(p, h)' => Of(p, h)' \in Seq(Int))
    BY <1>4, <1>7 DEF Files
  <2>3. \A p \in Paths : IsWhole(p, "state")' =>
          OnCourse(Of(p, "state")') /\ \A h \in Halves : IsWhole(p, h)'
    BY <1>6, <1>7 DEF Files
  <2> QED BY <1>5, <2>1, <2>2, <2>3 DEF Files, OnCourse
<1>13. Clean'
  <2>1. Training' = Training /\ gstep' = gstep /\ ("run" \in mixed' <=> "run" \in mixed)
    BY <1>1, PartNames DEF Training, process
  <2>2. \A p \in Paths \ mixed' : p \in Paths \ mixed /\ p # t.at BY <1>1
  <2> QED BY <1>6, <1>7, <1>8, <2>1, <2>2 DEF Clean
<1>14. Behind'
  <2>1. Training' = Training /\ gstep' = gstep /\ backwards' = backwards /\ gstep \in Nat
    BY <1>1 DEF Training, process, Counters
  <2>2. \A p \in Paths : IsWhole(p, "state") => Of(p, "state").gstep \in Nat
    BY DEF Files, OnCourse, Positions
  <2>3. ASSUME ~ backwards, NEW p \in Paths, IsWhole(p, "state"), NEW h \in Halves
        PROVE  1 .. Of(p, "state").gstep \subseteq Seen(Of(p, h)')
    <3>1. /\ Of(p, "state").gstep <= gstep /\ 1 .. gstep \subseteq Seen(Trained(h))
          /\ 1 .. Of(p, "state").gstep \subseteq Seen(Of(p, h))
      BY <1>1, <2>3 DEF Behind
    <3>2. 1 .. Of(p, "state").gstep \subseteq 1 .. gstep BY <2>1, <2>2, <2>3, <3>1
    <3> QED BY <1>7, <3>1, <3>2
  <2> QED BY <1>6, <1>8, <2>1, <2>3 DEF Behind
<1> QED BY <1>9, <1>10, <1>11, <1>12, <1>13, <1>14

\* The position is truncated: there is nothing to resume from meanwhile.
LEMMA OpenInv == ASSUME TrainingInv, OpenState PROVE TrainingInv'
<1> USE DEF TrainingInv
<1> DEFINE t == Head(todo)
<1>1. /\ t.do = "open" /\ todo # <<>> /\ todo' = Tail(todo)
      /\ UNCHANGED <<pc, process, past, loose, synced>>
      /\ t.at \in Paths /\ Torn \in Contents
  BY HeadTask, TaskFields DEF OpenState, Due, Contents
<1>2. file' = [file EXCEPT ![t.at]["state"] = Torn] BY DEF OpenState
<1> HIDE DEF t
<1>3. /\ file' \in [Paths -> [Parts -> Contents]]
      /\ file'[t.at]["state"] = Torn
      /\ \A q \in Paths, h \in Parts : (q # t.at \/ h # "state") => file'[q][h] = file[q][h]
  BY <1>1, <1>2, PartNames DEF Files
<1>4. \A p \in Paths : IsWhole(p, "state")' => IsWhole(p, "state") /\ Of(p, "state")' = Of(p, "state")
  BY <1>3, PartNames, ContentFacts DEF IsWhole, Of
<1>5. \A p \in Paths, h \in Halves : /\ file'[p][h] = file[p][h]
                                     /\ IsWhole(p, h)' = IsWhole(p, h) /\ Of(p, h)' = Of(p, h)
  BY <1>3, PartNames DEF IsWhole, Of
<1>6. Counters' /\ Course' BY <1>1 DEF Counters, Course, process, past
<1>7. Saves'
  <2>1. \A p \in Paths, h \in Halves :
          Renamed(p, h) \/ Renames(t, p, h) => Renamed(p, h)'
    BY <1>1, <1>5 DEF Renamed, Renames, Trained, process, past
  <2> QED BY <1>1, <2>1, TailSaves DEF process, t
<1>8. Files' BY <1>1, <1>3, <1>4, <1>5 DEF Files, OnCourse
<1>9. UNCHANGED <<gstep, mixed, backwards>> /\ Training' = Training
      /\ \A h \in Halves : Trained(h)' = Trained(h)
  BY <1>1 DEF process, past, Training, Trained
<1>10. Clean' BY <1>4, <1>5, <1>9 DEF Clean
<1>11. Behind' BY <1>4, <1>5, <1>9 DEF Behind
<1> QED BY <1>6, <1>7, <1>8, <1>10, <1>11

\* The position is written, beside the model and the optimizer of this run.
LEMMA CloseInv == ASSUME TrainingInv, CloseState PROVE TrainingInv'
<1> USE DEF TrainingInv
<1> DEFINE t == Head(todo)
<1>1. /\ t.do = "close" /\ todo # <<>> /\ todo' = Tail(todo) /\ synced' = synced
      /\ UNCHANGED <<pc, process, backwards>> /\ loose' = loose \cup {<<t.at, "state">>}
      /\ mixed' = IF "run" \in mixed THEN mixed ELSE mixed \ {t.at}
  BY DEF CloseState, Due
<1>2. /\ t.at \in Paths /\ Training /\ OnCourse(t.state) /\ t.state.gstep = gstep
      /\ \A h \in Halves : file[t.at][h] = Whole(Trained(h))
      /\ "run" \in mixed => t.at \in mixed
  <2>1. \A h \in Halves : Renamed(t.at, h) BY <1>1, HeadTask
  <2>2. "model" \in Halves BY DEF Halves
  <2> QED BY <1>1, <2>1, <2>2, HeadTask, TaskFields DEF Close, Renamed
<1>3. Whole(t.state) \in Contents BY <1>2 DEF Contents, OnCourse
<1>4. file' = [file EXCEPT ![t.at]["state"] = Whole(t.state)] BY DEF CloseState
<1> HIDE DEF t
<1>5. /\ file' \in [Paths -> [Parts -> Contents]]
      /\ file'[t.at]["state"] = Whole(t.state)
      /\ \A q \in Paths, h \in Parts : (q # t.at \/ h # "state") => file'[q][h] = file[q][h]
  BY <1>2, <1>3, <1>4, PartNames DEF Files
<1>6. \A p \in Paths :
        \/ p = t.at /\ Of(p, "state")' = t.state
        \/ p # t.at /\ IsWhole(p, "state")' = IsWhole(p, "state") /\ Of(p, "state")' = Of(p, "state")
  BY <1>5, PartNames, ContentFacts DEF IsWhole, Of
<1>7. \A p \in Paths, h \in Halves : /\ file'[p][h] = file[p][h]
                                     /\ IsWhole(p, h)' = IsWhole(p, h) /\ Of(p, h)' = Of(p, h)
  BY <1>5, PartNames DEF IsWhole, Of
<1>8. \A h \in Halves : IsWhole(t.at, h) /\ Of(t.at, h) = Trained(h)
  BY <1>2, ContentFacts DEF IsWhole, Of
<1>9. UNCHANGED <<gstep, backwards>> /\ Training' = Training /\ gstep \in Nat
      /\ (\A h \in Halves : Trained(h)' = Trained(h)) /\ ("run" \in mixed' <=> "run" \in mixed)
  BY <1>1, <1>2, PartNames DEF process, Training, Trained, Counters
<1>10. Counters' /\ Course' BY <1>1 DEF Counters, Course, process
<1>11. Saves'
  <2>1. \A p \in Paths, h \in Halves :
          Renamed(p, h) \/ Renames(t, p, h) => Renamed(p, h)'
    BY <1>1, <1>7, <1>9 DEF Renamed, Renames
  <2> QED BY <1>1, <2>1, TailSaves DEF process, t
<1>12. Files'
  <2>1. loose' \subseteq Paths \X {"state"} BY <1>1, <1>2 DEF Files
  <2>2. \A p \in Paths : IsWhole(p, "state")' =>
          OnCourse(Of(p, "state")') /\ \A h \in Halves : IsWhole(p, h)'
    BY <1>2, <1>6, <1>7, <1>8 DEF Files
  <2> QED BY <1>5, <1>7, <2>1, <2>2 DEF Files, OnCourse
<1>13. Clean'
  <2>1. ASSUME NEW p \in Paths \ mixed', IsWhole(p, "state")', NEW h \in Halves
        PROVE  Of(p, h)' = Upto(Of(p, "state")'.gstep)
    <3>1. CASE p = t.at
      <4>1. "run" \notin mixed => Trained(h) = Upto(gstep) BY <1>2 DEF Clean
      <4>2. CASE "run" \notin mixed BY <1>2, <1>6, <1>7, <1>8, <3>1, <4>1, <4>2
      <4>3. CASE "run" \in mixed
        <5>1. p \notin mixed BY <1>1, <2>1, <4>3
        <5> QED BY <1>2, <3>1, <4>3, <5>1
      <4> QED BY <4>2, <4>3
    <3>2. CASE p # t.at
      <4>1. p \notin mixed BY <1>1, <2>1, <3>2
      <4> QED BY <1>6, <1>7, <2>1, <3>2, <4>1 DEF Clean
    <3> QED BY <3>1, <3>2
  <2> QED BY <1>9, <2>1 DEF Clean
<1>14. Behind'
  <2>1. ASSUME ~ backwards, NEW p \in Paths, IsWhole(p, "state")'
        PROVE  /\ Of(p, "state")'.gstep <= gstep
               /\ \A h \in Halves : 1 .. Of(p, "state")'.gstep \subseteq Seen(Of(p, h)')
    <3>1. CASE p = t.at BY <1>2, <1>6, <1>7, <1>8, <1>9, <2>1, <3>1 DEF Behind
    <3>2. CASE p # t.at BY <1>2, <1>6, <1>7, <2>1, <3>2 DEF Behind
    <3> QED BY <3>1, <3>2
  <2> QED BY <1>9, <2>1 DEF Behind
<1> QED BY <1>10, <1>11, <1>12, <1>13, <1>14

----------------------------------------------------------------------------
(* Start, end and the other thread.                                        *)

\* Start, the end of a run that is refused, and the writer thread.
LEMMA OtherInv ==
  ASSUME TrainingInv, Start \/ LoadFails \/ Stop \/ WriterStep \/ WriterWakesUp \/ UNCHANGED vars
  PROVE  TrainingInv'
<1> USE DEF TrainingInv
<1>1. CASE Start
  <2>1. Counters' BY <1>1 DEF Start, Counters, Where, disk
  <2>2. Course' BY <1>1 DEF Start, Course
  <2>3. Saves' /\ Files' /\ Clean' /\ Behind'
    <3>1. todo = <<>> /\ ~ Training' /\ ~ Training BY <1>1 DEF Start, Saves, Training
    <3> QED BY <1>1, <3>1, Kept DEF Start
  <2> QED BY <2>1, <2>2, <2>3
<1>2. CASE LoadFails
  <2>1. Counters' BY <1>2 DEF LoadFails, Counters, Where, disk, past, process
  <2>2. Course' BY <1>2 DEF LoadFails, Course
  <2>3. Saves' /\ Files' /\ Clean' /\ Behind'
    <3>1. todo = <<>> /\ ~ Training' BY <1>2 DEF LoadFails, Saves, Training
    <3> QED BY <1>2, <3>1, Kept DEF LoadFails, past, process
  <2> QED BY <2>1, <2>2, <2>3
<1>3. CASE Stop
  <2>1. Counters' BY <1>3 DEF Stop, Counters, Where, disk, past, process
  <2>2. Course' BY <1>3 DEF Stop, Course
  <2>3. Saves' /\ Files' /\ Clean' /\ Behind' BY <1>3, Kept DEF Stop, At, Training, past, process
  <2> QED BY <2>1, <2>2, <2>3
<1>4. CASE WriterStep \/ WriterWakesUp \/ UNCHANGED vars
  <2>1. UNCHANGED <<disk, pc, todo, process, past>> BY <1>4 DEF WriterStep, WriterWakesUp, vars
  <2>2. Counters' /\ Course' BY <2>1 DEF Counters, Course, disk, past, process
  <2>3. Saves' /\ Files' /\ Clean' /\ Behind' BY <2>1, Kept DEF Saves, Training, past, process
  <2> QED BY <2>2, <2>3
<1> QED BY <1>1, <1>2, <1>3, <1>4

\* The last records.
LEMMA FinishInv == ASSUME TrainingInv, Finish PROVE TrainingInv'
<1> USE DEF TrainingInv
<1>1. Counters' BY DEF Finish, Counters, Where, disk, past, process
<1>2. Course' BY DEF Finish, Course
<1>3. Training /\ Training' BY DEF Finish, At, Training
<1>4. Sound(todo', gstep')
  <2>1. Sound(<< ToLog("memory_watermark") >>, gstep') /\ Sound(<< ToLog("run_end") >>, gstep')
    BY SoundLog, RunAssumption
  <2>2. todo' = << ToLog("memory_watermark") >> \o << ToLog("run_end") >> BY DEF Finish
  <2> QED BY <2>1, <2>2, SoundConcat
<1>5. Saves' BY <1>3, <1>4, SoundSaves
<1>6. Files' /\ Clean' /\ Behind' BY <1>3, KeptFiles DEF Finish, disk, past, process
<1> QED BY <1>1, <1>2, <1>5, <1>6

\* The process ends, perhaps with what was not synced.
LEMMA EndInv == ASSUME TrainingInv, Return \/ GiveUp \/ Crash PROVE TrainingInv'
<1>1. Files BY DEF TrainingInv
<1>2. CASE Return \/ GiveUp
  <2>1. Gone /\ file' = file /\ loose' = loose BY <1>2 DEF Return, GiveUp
  <2> QED BY <1>1, <2>1, GoneInv, PartNames DEF Files
<1>3. CASE Crash
  <2>1. PICK lost \in SUBSET loose :
          /\ file' = [p \in Paths |-> [part \in Parts |->
                        IF <<p, part>> \in lost THEN Torn ELSE file[p][part]]]
          /\ loose' = loose \ lost
    BY <1>3 DEF Crash
  <2>2. file' \in [Paths -> [Parts -> Contents]] BY <1>1, <2>1 DEF Files, Contents
  <2>3. \A p \in Paths, part \in Halves : <<p, part>> \notin lost
    BY <1>1, <2>1, PartNames DEF Files
  <2>4. \A p \in Paths, part \in Halves : file'[p][part] = file[p][part]
    BY <2>1, <2>3, PartNames
  <2>5. \A p \in Paths : file'[p]["state"] \in {Torn, file[p]["state"]} BY <2>1, PartNames
  <2> QED BY <1>3, <2>1, <2>2, <2>4, <2>5, GoneInv DEF Crash
<1> QED BY <1>2, <1>3

----------------------------------------------------------------------------
(* A run is resumed, trains and ends an epoch.                             *)

\* The run takes up the position and what the files beside it hold.
LEMMA LoadInv == ASSUME TrainingInv, Load PROVE TrainingInv'
<1> USE DEF TrainingInv
<1> DEFINE s == IF resume = Afresh THEN [epoch |-> 0, step |-> Steps, gstep |-> 0, stale |-> 0]
                ELSE Of(resume, "state")
<1>0. Steps \in Nat \ {0} BY BeforeShards
<1> HIDE DEF Steps
<1>1. /\ pc = "load" /\ ~ Unreadable /\ pc' = "epoch"
      /\ epoch' = StartPosition(s)[1] /\ first' = StartPosition(s)[2]
      /\ gstep' = s.gstep /\ stale' = s.stale
      /\ backwards' = (backwards \/ \E p \in Paths :
                         IsWhole(p, "state") /\ Of(p, "state").gstep > s.gstep)
      /\ model' = IF resume = Afresh THEN <<>> ELSE Of(resume, "model")
      /\ optim' = IF resume = Afresh THEN <<>> ELSE Of(resume, "optim")
      /\ mixed' = IF resume \in mixed THEN mixed \cup {"run"} ELSE mixed
      /\ todo' = << ToLog("run_config") >>
      /\ UNCHANGED <<file, loose, synced, resume, shard, local, served, epochStep>>
  BY DEF Load, disk
<1>2. resume # Afresh => resume \in Paths /\ \A part \in Parts : IsWhole(resume, part)
  BY <1>1 DEF Counters, Unreadable
<1>3. OnCourse(s)
  <2>1. CASE resume = Afresh
    <3>1. 0 = Done(0) + Steps /\ s = [epoch |-> 0, step |-> Steps, gstep |-> 0, stale |-> 0]
      BY <2>1, DoneNext
    <3> QED BY <1>0, <3>1 DEF OnCourse, Positions
  <2>2. CASE resume # Afresh BY <1>2, <2>2, PartNames DEF Files
  <2> QED BY <2>1, <2>2
<1>4. /\ s.epoch \in Nat /\ s.step \in 0 .. Steps /\ s.gstep \in Nat /\ s.stale \in Nat
      /\ s.gstep = Done(s.epoch) + s.step
  BY <1>3 DEF OnCourse, Positions
<1>5. /\ epoch' \in Nat /\ first' \in 1 .. Steps /\ gstep' = Done(epoch') + first' - 1
  <2>1. /\ Done(s.epoch) \in Int /\ Done(s.epoch + 1) = Done(s.epoch) + Steps BY <1>4, DoneNext
  <2>2. CASE s.step < Steps BY <1>0, <1>1, <1>4, <2>1, <2>2 DEF StartPosition
  <2>3. CASE ~ (s.step < Steps) BY <1>0, <1>1, <1>4, <2>1, <2>3 DEF StartPosition
  <2> QED BY <2>2, <2>3
<1> HIDE DEF s
<1>6. model' \in Seq(Int) /\ optim' \in Seq(Int)
  <2>1. CASE resume = Afresh BY <1>1, <2>1
  <2>2. CASE resume # Afresh BY <1>1, <1>2, <2>2, PartNames DEF Files, Halves
  <2> QED BY <2>1, <2>2
<1>7. Counters'
  <2>1. pc' \in Where /\ backwards' \in BOOLEAN BY <1>1 DEF Where, Counters
  <2> QED BY <1>1, <1>4, <1>5, <1>6, <2>1 DEF Counters
<1>8. Course' BY <1>1, <1>5 DEF Course
<1>9. ~ Training /\ Training' BY <1>1 DEF Training
<1>10. Saves'
  <2>1. Sound(todo', gstep') BY <1>1, SoundLog, RunAssumption
  <2> QED BY <1>9, <2>1, SoundSaves
<1>11. \A p \in Paths, part \in Parts : /\ IsWhole(p, part)' = IsWhole(p, part)
                                       /\ Of(p, part)' = Of(p, part)
  BY <1>1 DEF IsWhole, Of
<1>12. Files' BY <1>1, <1>11, PartNames DEF Files, OnCourse
<1>13. resume = Afresh => \A part \in Halves : Trained(part)' = <<>> BY <1>1 DEF Halves, Trained
<1>14. resume # Afresh => \A part \in Halves : Trained(part)' = Of(resume, part)
  BY <1>1 DEF Halves, Trained
<1>15. /\ resume = Afresh => s.gstep = 0
       /\ resume # Afresh => s = Of(resume, "state")
  BY DEF s
<1>16. Clean'
  <2>1. ASSUME "run" \notin mixed', NEW part \in Halves PROVE Trained(part)' = Upto(gstep')
    <3>1. CASE resume = Afresh
      <4>1. Upto(0) = <<>> BY DEF Upto
      <4> QED BY <1>1, <1>13, <1>15, <3>1, <4>1
    <3>2. CASE resume # Afresh
      <4>1. resume \in Paths \ mixed BY <1>1, <1>2, <2>1, <3>2
      <4>2. Of(resume, part) = Upto(Of(resume, "state").gstep)
        BY <1>2, <3>2, <4>1, PartNames DEF Clean
      <4> QED BY <1>1, <1>14, <1>15, <3>2, <4>2
    <3> QED BY <3>1, <3>2
  <2>2. \A p \in Paths \ mixed' : p \in Paths \ mixed BY <1>1
  <2> QED BY <1>9, <1>11, <2>1, <2>2, PartNames DEF Clean
<1>17. Behind'
  <2>1. ASSUME ~ backwards'
        PROVE  /\ ~ backwards
               /\ \A p \in Paths : IsWhole(p, "state") => Of(p, "state").gstep <= gstep'
    <3>1. \A p \in Paths : IsWhole(p, "state") => Of(p, "state").gstep \in Nat
      BY DEF Files, OnCourse, Positions
    <3>2. ~ backwards /\ ~ \E p \in Paths : IsWhole(p, "state") /\ Of(p, "state").gstep > s.gstep
      BY <1>1, <2>1, Zenon
    <3> QED BY <1>1, <1>4, <3>1, <3>2
  <2>2. ASSUME ~ backwards', NEW part \in Halves PROVE 1 .. gstep' \subseteq Seen(Trained(part)')
    <3>1. CASE resume = Afresh
      <4>1. 1 .. gstep' = {} BY <1>1, <1>15, <3>1
      <4> QED BY <4>1
    <3>2. CASE resume # Afresh
      <4>1. 1 .. Of(resume, "state").gstep \subseteq Seen(Of(resume, part))
        BY <1>2, <2>1, <2>2, <3>2, PartNames DEF Behind
      <4> QED BY <1>1, <1>14, <1>15, <3>2, <4>1
    <3> QED BY <3>1, <3>2
  <2> QED BY <1>11, <2>1, <2>2, PartNames DEF Behind
<1> QED BY <1>7, <1>8, <1>10, <1>12, <1>16, <1>17

\* The batch trained on is the one after those of the step counter.
LEMMA TrainInv == ASSUME TrainingInv, TrainStep PROVE TrainingInv'
<1> USE DEF TrainingInv
<1>0. Steps \in Nat \ {0} BY BeforeShards
<1> HIDE DEF Steps
<1> DEFINE report == ReportEvery > 0 /\ ( \/ gstep = 0 \/ epochStep = Steps
                               \/ Multiple(gstep', ReportEvery) \/ gstep' = Epochs * Steps )
           saves  == Multiple(gstep', LatestEvery) /\ epochStep # Steps
           at     == Position(epochStep, gstep', stale)
<1>1. /\ pc = "train" /\ todo = <<>> /\ local <= ShardSteps[shard]
      /\ model' = Append(model, Batch) /\ optim' = Append(optim, Batch)
      /\ gstep' = gstep + 1 /\ epochStep' = epochStep + 1
      /\ local' = local + 1 /\ served' = served + 1
      /\ todo' = If(report, << ToLog("train") >>) \o If(saves, Bundle(Latest, at))
      /\ UNCHANGED <<file, loose, synced, pc, resume, epoch, first, shard, stale,
                     mixed, backwards>>
  BY DEF TrainStep, At, disk, past
<1> HIDE DEF report, saves, at
<1>2. /\ shard \in 1 .. Shards /\ local \in 1 .. ShardSteps[shard] + 1 /\ served = local - 1
      /\ epochStep = Before(shard) + local /\ first <= Before(shard + 1)
      /\ gstep = Done(epoch) + epochStep - 1 /\ first >= 1
  BY <1>1 DEF Course
<1>3. /\ ShardSteps[shard] \in Nat /\ Before(shard) \in Nat
      /\ Before(shard + 1) = Before(shard) + ShardSteps[shard] /\ Before(shard + 1) <= Steps
  <2>1. shard + 1 \in 1 .. Shards + 1 /\ shard \in 1 .. Shards + 1 BY <1>2, ShardsTyped
  <2>2. ShardSteps[shard] \in Nat BY <1>2, ShardsTyped
  <2>3. Before(shard) \in 0 .. Steps /\ Before(shard + 1) \in 0 .. Steps BY <2>1, BeforeShards
  <2>4. Before(shard + 1) = Before(shard) + ShardSteps[shard] BY <1>2, BeforeShards
  <2> QED BY <1>0, <2>2, <2>3, <2>4
<1>4. /\ epoch \in Nat /\ gstep \in Nat /\ stale \in Nat /\ Done(epoch) \in Int
      /\ model \in Seq(Int) /\ optim \in Seq(Int)
  BY DoneNext DEF Counters
<1>5. Batch = gstep + 1
  <2>1. Batch = Done(epoch) + Before(shard) + served + 1 BY DEF Batch, Done
  <2> HIDE DEF Batch, Done, Before
  <2>2. local \in Int /\ Before(shard) \in Int BY <1>3 DEF Counters
  <2>3. served + 1 = local BY <1>2, <2>2
  <2>4. Batch = Done(epoch) + Before(shard) + local BY <1>2, <1>3, <1>4, <2>1, <2>2
  <2>5. gstep + 1 = Done(epoch) + epochStep
    <3>1. gstep = Done(epoch) + epochStep - 1 BY <1>2
    <3>2. epochStep \in Int /\ Done(epoch) \in Int BY <1>2, <1>4, <2>2
    <3> QED BY <3>1, <3>2
  <2>6. epochStep = Before(shard) + local BY <1>2
  <2>7. Done(epoch) + Before(shard) + local = Done(epoch) + (Before(shard) + local) BY <1>4, <2>2
  <2> QED BY <2>4, <2>5, <2>6, <2>7
<1>6. local \in 1 .. ShardSteps[shard] /\ epochStep \in 1 .. Steps
  <2>1. local \in Nat /\ local >= 1 /\ local <= ShardSteps[shard] /\ epochStep \in Nat
        /\ epochStep = Before(shard) + local
    BY <1>1, <1>2, <1>3 DEF Counters
  <2> QED BY <1>0, <1>3, <2>1
<1>7. Counters'
  <2>1. model' \in Seq(Int) /\ optim' \in Seq(Int) BY <1>1, <1>4, <1>5
  <2> QED BY <1>1, <2>1 DEF Counters
<1>8. gstep = Done(epoch) + epochStep - 1 /\ epochStep \in Nat /\ local \in Nat /\ served \in Nat
       /\ first \in Nat
  BY <1>2 DEF Counters
<1>9. Course'
  <2>1. gstep' = Done(epoch) + epochStep' - 1 BY <1>1, <1>4, <1>8
  <2>2. local' \in 1 .. ShardSteps[shard] + 1 BY <1>1, <1>3, <1>6
  <2>3. served' = local' - 1 /\ epochStep' = Before(shard) + local'
    BY <1>1, <1>2, <1>3, <1>8
  <2> QED BY <1>1, <1>2, <2>1, <2>2, <2>3 DEF Course
<1>10. Training /\ Training' BY <1>1 DEF Training
<1>11. Saves'
  <2>1. OnCourse(at) /\ at.gstep = gstep'
    <3>1. at = [epoch |-> epoch, step |-> epochStep, gstep |-> gstep', stale |-> stale]
      BY DEF at, Position
    <3>2. gstep' \in Nat /\ gstep' = Done(epoch) + epochStep BY <1>1, <1>4, <1>8
    <3>3. epochStep \in 0 .. Steps BY <1>0, <1>6
    <3>4. at \in Positions BY <1>4, <3>1, <3>2, <3>3 DEF Positions
    <3> QED BY <3>1, <3>2, <3>4 DEF OnCourse
  <2>2. report \in BOOLEAN /\ saves \in BOOLEAN BY DEF report, saves
  <2>3. Sound(<< ToLog("train") >>, gstep') BY SoundLog, RunAssumption
  <2>4. Sound(Bundle(Latest, at), gstep') BY <2>1, SoundBundle DEF Paths
  <2>5. Sound(If(report, << ToLog("train") >>), gstep') BY <2>2, <2>3, SoundIf
  <2>6. Sound(If(saves, Bundle(Latest, at)), gstep') BY <2>2, <2>4, SoundIf
  <2>7. Sound(todo', gstep') BY <1>1, <2>5, <2>6, SoundConcat
  <2> QED BY <1>10, <2>7, SoundSaves
<1>12. \A p \in Paths, part \in Parts : /\ IsWhole(p, part)' = IsWhole(p, part)
                                       /\ Of(p, part)' = Of(p, part)
  BY <1>1 DEF IsWhole, Of
<1>13. Files' BY <1>1, <1>12, PartNames DEF Files, OnCourse
<1>14. \A part \in Halves : Trained(part)' = Append(Trained(part), gstep + 1)
                           /\ Trained(part) \in Seq(Int)
  BY <1>1, <1>4, <1>5 DEF Trained
<1>15. Clean'
  <2>1. "run" \notin mixed' => \A part \in Halves : Trained(part)' = Upto(gstep')
    BY <1>1, <1>4, <1>10, <1>14, UptoAppend DEF Clean
  <2> QED BY <1>1, <1>12, <2>1, PartNames DEF Clean
<1>16. Behind'
  <2>1. ASSUME ~ backwards, NEW part \in Halves PROVE 1 .. gstep' \subseteq Seen(Trained(part)')
    <3>1. Seen(Trained(part)') = Seen(Trained(part)) \cup {gstep + 1}
      <4>1. Trained(part) \in Seq(Int) /\ Trained(part)' = Append(Trained(part), gstep + 1)
        BY <1>14, <2>1
      <4>2. gstep + 1 \in Int BY <1>4
      <4> QED BY <4>1, <4>2, SeenAppend
    <3>2. 1 .. gstep \subseteq Seen(Trained(part)) BY <1>10, <2>1 DEF Behind
    <3>3. 1 .. gstep' = (1 .. gstep) \cup {gstep + 1} BY <1>1, <1>4
    <3> QED BY <3>1, <3>2, <3>3
  <2>2. ASSUME ~ backwards, NEW p \in Paths, IsWhole(p, "state") PROVE Of(p, "state").gstep <= gstep'
    <3>1. Of(p, "state").gstep \in Nat BY <2>2 DEF Files, OnCourse, Positions
    <3>2. Of(p, "state").gstep <= gstep BY <1>10, <2>2 DEF Behind
    <3> QED BY <1>1, <1>4, <3>1, <3>2
  <2> QED BY <1>1, <1>12, <2>1, <2>2, PartNames DEF Behind
<1> QED BY <1>7, <1>9, <1>11, <1>13, <1>15, <1>16

\* The next epoch, after both checkpoints.
LEMMA FinishEpochInv == ASSUME TrainingInv, FinishEpoch PROVE TrainingInv'
<1> USE DEF TrainingInv
<1>0. Steps \in Nat \ {0} BY BeforeShards
<1> HIDE DEF Steps
<1>1. PICK improved \in BOOLEAN :
       LET counts == Evaluates /\ Patience > 0
           stops  == counts /\ ~improved /\ stale + 1 >= Patience
       IN /\ stale' = IF ~counts THEN stale ELSE IF improved THEN 0 ELSE stale + 1
          /\ todo' = If(improved, Bundle(Best, Position(Steps, gstep, 0)))
                     \o If(Evaluates, << ToLog("eval") >>)
                     \o Bundle(Latest, Position(Steps, gstep, stale'))
                     \o If(stops, << ToLog("early_stopping") >>)
          /\ IF stops THEN epoch' = Epochs + 1 ELSE epoch' = epoch + 1
  BY DEF FinishEpoch
<1> DEFINE counts == Evaluates /\ Patience > 0
           stops  == counts /\ ~improved /\ stale + 1 >= Patience
           best   == Position(Steps, gstep, 0)
           latest == Position(Steps, gstep, stale')
           due1   == If(improved, Bundle(Best, best))
           due2   == If(Evaluates, << ToLog("eval") >>)
           due3   == Bundle(Latest, latest)
           due4   == If(stops, << ToLog("early_stopping") >>)
<1>2. /\ stale' = IF ~counts THEN stale ELSE IF improved THEN 0 ELSE stale + 1
      /\ todo' = due1 \o due2 \o due3 \o due4
      /\ epoch' = IF stops THEN Epochs + 1 ELSE epoch + 1
  BY <1>1
<1>3. /\ pc = "finish" /\ todo = <<>> /\ first' = 1 /\ pc' = "epoch"
      /\ UNCHANGED <<file, loose, synced, resume, shard, local, served, epochStep, gstep,
                     model, optim, mixed, backwards>>
  BY DEF FinishEpoch, At, disk, past
<1>4. counts \in BOOLEAN /\ stops \in BOOLEAN /\ Evaluates \in BOOLEAN BY DEF Evaluates
<1>5. /\ epoch \in Nat /\ gstep \in Nat /\ stale \in Nat /\ Epochs \in Nat
      /\ gstep = Done(epoch) + Steps
  <2>1. Done(epoch) \in Int BY DoneNext DEF Counters
  <2> QED BY <1>0, <1>3, <2>1, RunAssumption DEF Counters, Course
<1> HIDE DEF counts, stops, best, latest
<1>6. stale' \in Nat /\ epoch' \in Nat /\ (epoch' <= Epochs => epoch' = epoch + 1)
  BY <1>2, <1>5
<1>7. Counters' BY <1>3, <1>6 DEF Counters, Where
<1>8. Course'
  <2>1. Done(epoch + 1) = gstep BY <1>0, <1>5, DoneNext
  <2>2. first' \in 1 .. Steps /\ (epoch' <= Epochs => gstep' = Done(epoch') + first' - 1)
    BY <1>0, <1>3, <1>5, <1>6, <2>1
  <2> QED BY <1>3, <2>2 DEF Course
<1>9. Training /\ Training' BY <1>3 DEF Training
<1>10. Saves'
  <2>1. ASSUME NEW st \in Nat
        PROVE  OnCourse(Position(Steps, gstep, st)) /\ Position(Steps, gstep, st).gstep = gstep'
    BY <1>0, <1>3, <1>5 DEF Position, OnCourse, Positions
  <2>2. OnCourse(best) /\ best.gstep = gstep' /\ OnCourse(latest) /\ latest.gstep = gstep'
    BY <1>6, <2>1 DEF best, latest
  <2>3. Sound(Bundle(Best, best), gstep') /\ Sound(Bundle(Latest, latest), gstep')
    BY <2>2, SoundBundle DEF Paths
  <2>4. Sound(<< ToLog("eval") >>, gstep') /\ Sound(<< ToLog("early_stopping") >>, gstep')
    BY SoundLog, RunAssumption
  <2>5. Sound(due1, gstep') BY <2>3, SoundIf
  <2>6. Sound(due2, gstep') BY <1>4, <2>4, SoundIf
  <2>7. Sound(due4, gstep') BY <1>4, <2>4, SoundIf
  <2> HIDE DEF due1, due2, due4
  <2>8. Sound(due1 \o due2, gstep') BY <2>5, <2>6, SoundConcat
  <2>9. Sound(due1 \o due2 \o due3, gstep') BY <2>3, <2>8, SoundConcat
  <2>10. Sound(todo', gstep') BY <1>2, <2>7, <2>9, SoundConcat
  <2> QED BY <1>9, <2>10, SoundSaves
<1>11. Files' /\ Clean' /\ Behind' BY <1>3, <1>9, KeptFiles
<1> QED BY <1>7, <1>8, <1>10, <1>11

\* Every step.
LEMMA StepInv == ASSUME TrainingInv, [Next]_vars PROVE TrainingInv'
BY OtherInv, LoadInv, LoopInv, TrainInv, FinishEpochInv, LogInv, RenameInv, OpenInv, CloseInv,
   FinishInv, EndInv
DEF Next, MainStep

----------------------------------------------------------------------------
(* What the program promises.                                              *)

\* The invariant is stronger than the three properties.
LEMMA SafeInv == TrainingInv => NothingSkipped /\ WholeUnlessCut /\ StepsAddUp
<1> SUFFICES ASSUME TrainingInv PROVE NothingSkipped /\ WholeUnlessCut /\ StepsAddUp OBVIOUS
<1> USE DEF TrainingInv
<1>1. Halves = {"model", "optim"} /\ Trained("model") = model /\ Trained("optim") = optim
  BY DEF Halves, Trained
<1>2. NothingSkipped BY <1>1, PartNames DEF Behind, NothingSkipped
<1>3. WholeUnlessCut BY <1>1 DEF Clean, Files, WholeUnlessCut
<1>4. StepsAddUp
  <2>1. SUFFICES ASSUME pc = "shard", shard > Len(ShardSteps) PROVE epochStep = Steps + 1
    BY DEF StepsAddUp
  <2>2. Before(Shards + 1) = Steps /\ Shards \in Nat BY ShardsTyped DEF Before, Steps, Shards
  <2>3. Steps \in Nat BY BeforeShards
  <2> HIDE DEF Steps, Before
  <2>4. shard = Shards + 1 BY <2>1, <2>2 DEF Course, Shards
  <2> QED BY <2>1, <2>2, <2>3, <2>4 DEF Course
<1> QED BY <1>2, <1>3, <1>4

\* The inductive invariant: where the program is, what it has due, what the files
\* hold and what the weights have seen agree (train_gpt, main.c:2744, and the saves
\* of main.c:2202), wherever it died before and whatever it was resumed from.
THEOREM TrainingInvariance == Spec => []TrainingInv
BY TrainingInit, StepInv, PTL DEF Spec

\* No batch is lost: as long as no run is started from less than a checkpoint holds,
\* the step counter of the process and of every checkpoint that can be resumed is
\* never ahead of model or optimizer, though a checkpoint is three files (main.c:2251).
THEOREM NeverSkips == Spec => []NothingSkipped
BY TrainingInvariance, SafeInv, PTL

\* Model and optimizer files are never torn (module_io.c:755), and resuming is exact
\* unless a save was cut between its files and resumed from: the batches trained on
\* are those of a run that is never interrupted, each once and in order.
THEOREM AlwaysWhole == Spec => []WholeUnlessCut
BY TrainingInvariance, SafeInv, PTL

\* The program never gives up because the steps of an epoch do not add up
\* (main.c:2882), from whichever step it was resumed and whatever the shards hold.
THEOREM AlwaysAddsUp == Spec => []StepsAddUp
BY TrainingInvariance, SafeInv, PTL

\* The training program uses the metrics logger so that all it logs is written once
\* and in order, and all of it before gd_metrics_logger_stop returns (metrics.c:703).
THEOREM ProgramLogs == Spec => LogSpec
<1>1. Init => LoggerInit BY DEF Init
<1>2. TrainingInv /\ [Next]_vars => [LoggerNext]_loggerVars
  <2> SUFFICES ASSUME TrainingInv, [Next]_vars PROVE [LoggerNext]_loggerVars OBVIOUS
  <2>1. CASE LogRecord
    <3>1. Head(todo).what \in Records BY <2>1, HeadTask, TaskFields DEF LogRecord, Due, TrainingInv
    <3> QED BY <2>1, <3>1 DEF LogRecord, LoggerNext
  <2>2. CASE Start \/ Stop \/ Return \/ GiveUp \/ Crash \/ WriterStep \/ WriterWakesUp
    BY <2>2 DEF Start, Stop, Return, GiveUp, Crash, WriterStep, WriterWakesUp, LoggerNext
  <2>3. CASE UNCHANGED vars BY <2>3 DEF vars
  <2>4. CASE MainStep /\ ~ (LogRecord \/ Return \/ GiveUp)
    <3>1. UNCHANGED loggerVars
      BY <2>4 DEF MainStep, Load, LoadFails, NextEpoch, SkipShard, OpenShard, TrainStep, ShardDone,
        EpochDone, FinishEpoch, WriteTemporary, Rename, OpenState, CloseState, Finish
    <3> QED BY <3>1
  <2> QED BY <2>1, <2>2, <2>3, <2>4 DEF Next, MainStep
<1>3. Spec => LoggerSpec BY <1>1, <1>2, TrainingInvariance, PTL DEF Spec, LoggerSpec
<1> QED BY <1>3, LoggerImplements
=============================================================================
