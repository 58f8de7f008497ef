# Verification of gradients.c

gradients.c is a C training runtime for Metal: tensors in fixed arenas, a tape
autograd, an AdamW optimizer with loss scaling, a multi-threaded dataloader, a
trainer, a metrics logger and a byte-pair tokenizer, with a program that trains a
small language model on them (`examples/gpt_lm`). This directory holds TLA+ models of the parts of
it that schedule, share, recycle and keep books, their TLC configurations and the
proofs TLAPS checks.

Paths below are relative to `src/`; `memory.c` is `src/core/memory.c`.

## The system

| part | state it keeps | operations | hard because |
|---|---|---|---|
| Step context (`core/memory.c`, `transfer.c`) | fence table, scratch ring, data ring (slot states, fences, generations), two mutexes, one condition variable | begin/end of a step, slot acquire/publish/abort, download, synchronize | main thread, loader threads and device race on the same slots and on the completed fence |
| Arenas (`memory.c:200-476`) | offset, sorted free list, generation | alloc, free, reset, validate a span | best-fit splitting and merging, limited table, stale spans |
| State objects (`memory.c:860-930, 1535-1690`) | span, epoch, last fence, table of touched objects | create, acquire in a step, reset, destroy | lifetime crosses steps and fences, addresses are used again |
| Metal backend (`backends/metal`) | command queue, command buffers | encode, record a fence, poll, wait | asynchronous, may complete with an error |
| Dataloader (`dataset/dataloader.c`, `batch.c`) | batches and their states, request count, assigned and delivered numbers, epoch position, worker status | prefetch, next, release, destroy; workers fill | threads, ordering, failures, full queue, shutdown |
| Sampler (`dataloader.c:57-150`) | seed, ranges | index of a position in an epoch | one-to-one at every bound, computed and not stored |
| Autograd (`autograd/autograd.c`, `ops/*/autograd_*.c`) | tape, gradients, live spans with reference counts | record, backward, zero grad | order of release, ownership of gradients, partial failure |
| AdamW, AMP (`optim/`, `backends/metal/primitives/amp`) | moments, counts on host and device, scale | steps, sync, save and load, scaler state | skipped and failed steps, two copies of every count |
| Trainer (`train/trainer.c`) | none of its own | train batch, eval mean loss | error paths across all of the above, a second loader on the ring |
| Tokenizer (`tokenizer/`) | vocabulary, hash maps; in training counts, occurrences, a heap | add text, finish, encode, decode | counts kept and never recounted, stale entries |
| Metrics (`core/metrics.c`) | a ring of records, a mutex, a condition variable, a writer thread | log, stop | logging never waits, stop races the writer |
| Modules (`nn/`) | tree, parameters, checkpoint files | add, collect, save, load | ownership; a file replaced while the machine may go down |
| gpt_lm (`examples/gpt_lm/main.c`) | epoch, shard, step, what early stopping counts; two checkpoints of three files each | train, evaluate, save, resume, give up | dies anywhere and is started again from what is left |
| Datasets (`dataset_runtime.c`, `gdds_dataset.c`) | immutable after opening | lookup, collate | format only |
| Tensors, operators, null backend | - | - | arithmetic of one call, or numerical |

How they interact. `gd_begin_step` puts the context on one slot of the data ring
(the batch's) and one of the scratch ring. Operations encode commands and, in a
training scope, are recorded on the tape; backward walks the tape and gives scratch
spans back; the optimizer's step follows, and `gd_end_step` commits the commands,
obtains a fence and stamps both slots and the touched state objects with it. Loader
threads meanwhile take free data slots, or wait for the fence of a retired one, fill
them and publish them; the consumer receives batches through `gd_dataloader_next`. A
span names arena, slot and generation, and is refused when its generation has passed.
The trainer strings these calls together and undoes them when one fails. The
tokenizer stands apart. The training program drives one loader per shard and epoch,
saves model, optimizer and position as it goes, and logs to the metrics.

What makes each part correct, and where it is stated:

- Step context: no buffer is recycled while the device uses it; fences are never
  lost, counted twice or exceed their table; sleepers are woken; a slot has one
  user; synchronize drains; calls return (`StepContext`).
- Dataloader: batches are delivered in order, none lost or repeated, whatever order
  workers end in; no sample comes twice in an epoch; every batch owns its slot
  alone; shutdown joins every worker and returns every slot; a consumer is answered
  (`DataLoader`, `Sampler`).
- Arena: spans and free blocks are disjoint, free blocks never touch, an owner can
  free its span, nothing is forgotten but what alignment or a full table costs
  (`Arena`).
- State objects: none is moved or destroyed under the device or the open step, and no
  step is refused at its end (`StateObjects`).
- Autograd: the gradients are those of the chain rule, although storage is stolen,
  adopted and given back on the way; nothing is freed twice or too early, and what
  stays until the step ends is known (`Autograd`).
- Optimizer and scaler: no scaled step updates from a gradient that overflowed, and no
  step of either kind from one that is still scaled; the counts are those of the updates;
  a step is skipped for a reason (`AdamW`).
- Trainer: every call returns, and leaves loader, ring and context as it should
  (`Trainer`).
- Metrics: an accepted record is written, in its turn, before stop returns, and stop
  returns (`MetricsLogger`).
- Training program: wherever it dies, a later run neither skips a batch nor trains on
  one twice, but for what a cut save costs; every run ends (`TrainingRun`).
- Tokenizer: incremental counts are true, merges are greedy, what is encoded decodes to
  the same text, the encoder does what training did (`BpeTrainer`, `Tokenizer`).

## Modules

| module | models | code |
|---|---|---|
| `DeviceLease` | what the data ring promises: a buffer goes free, host, full, step, device, done, free | abstract |
| `StepContext` | fences, rings, leases, begin and end of a step, download, synchronize | `memory.c`, `transfer.c`, calls from `dataloader.c` |
| `Sampler` | the order of samples in an epoch, as operators | `dataloader.c:57-150` |
| `DataLoader` | workers, queue, delivery, batch states, destroy; EXTENDS `Sampler`, on top of a `DeviceLease` ring | `dataloader.c`, `batch.c` |
| `Trainer` | a training call and an evaluation, over two `DataLoader`s and one ring | `trainer.c` |
| `Allocator` | what an arena promises: units nobody else has, until freed or reset | abstract |
| `Arena` | a scratch arena: best fit, splitting, merging, a limited table, reset | `memory.c:200-476` |
| `StateObjects` | state objects against steps and fences | `memory.c` |
| `Autograd` | recording, backward, gradients and their storage in one step | `autograd.c`, the rules of six operators |
| `AdamW` | the optimizer's counts and the loss scaler, host and device | `adamw.c`, kernels of AdamW and AMP |
| `EventLog` | what the metrics logger promises: accepted records are written in order, and a closed log has none left | abstract |
| `MetricsLogger` | the ring, the thread that logs and the writer | `metrics.c` |
| `TrainingRun` | the training program over its checkpoints; EXTENDS `MetricsLogger` | `gpt_lm/main.c`, `module_io.c` |
| `Tokenizer` | a vocabulary, encoding, decoding, as operators | `tokenizer.c`, `tokenizer_maps.c`, `tokenizer_codec.c` |
| `BpeTrainer` | training; EXTENDS `Tokenizer` | `tokenizer_train.c` |
| `MC_*` | the TLC instance of each | |
| `StepContext_proofs`, `Trainer_proofs` (with the sampler and the loader), `BpeTrainer_proofs` (with the encoder), `Arena_proofs`, `StateObjects_proofs`, `Autograd_proofs`, `AdamW_proofs`, `TrainingRun_proofs` (with the metrics logger) | theorems, see Proofs | |

`DeviceLease` is the joint between the ring and its users: `StepContext` is proved to
implement it, and `DataLoader` INSTANCEs it as its ring, so nothing about fences,
generations or `data_cv` has to be repeated in the loader or in the trainer.

### StepContext

Threads are `Main` and `Workers`; `pc[t]` is where a thread is between two critical
sections. Every critical section of `data_mutex` is one action (the mutex is never
held across a wait). `backend_mutex` is a variable, `backendOwner`, because
`gd_backend_wait_until` holds it while it waits for the device and everybody else's
poll queues behind it. `pending`, `completedFence`, `nextFence` are
`ctx->backend`; `slotState`, `slotFence`, `slotGen` the data ring; `scratchFence`,
`scratchCurrent`, `probe` the scratch ring and the loop of `gd_ring_select`.
`inFlight`, `gpuDone` and `failed` are the device: it finishes command buffers in
commit order, and any may end in an error, which makes waits for its fence fail until
the fence is released from the table.

Abstractions. A step's operations and the bytes they touch are not there: a command
buffer is its fence and two slots. A flush or a download inside an open step is left
out. Spurious wakeups are not modelled; a woken thread only scans again. A
`gd_end_step` that fails changes nothing in the code and is a stutter. A state that
the main thread and a worker write at the same time under different locks is split
in as many actions (`RecordFence`, then `RetireSlot`). So is the end of a fill that
fails: `gd_dl_fill_slot` aborts the slot and then, through `gd_batch_clear_data_binding`,
aborts it again in a critical section of its own (`dataloader.c:463-464`, `321`), when it
may be somebody else's (`AbortFill`, `AbortAgain`). Only the generation tells the second
abort to leave it alone. Hence the bound `NotLapped`: between the two aborts of one
thread its slot is not given out again under the very same generation, for which it
would have to be reset 2^64 times. A loaded batch is its lease:
the set `ready`; how batches are numbered is `DataLoader`'s business.

### Sampler

Pure operators. `FeistelPermute` is the network of six rounds with its hash and its
xor as CONSTANTS, so that what is proved holds of any hash. The loop of
`gd_sampler_permute_bounded`, which permutes again what falls outside the bound, is
the set `Visited` of the numbers it goes through, the least set closed under one more
turn, and `PermuteBounded` its only member below the bound; that there is exactly one
is theorem `LoopEnds`. `RangeOf` is the binary search for a shard, over ranges that
follow one another (`Tiled`), `SampleAt` the choice between the three orders.

### DataLoader

`state`, `seq`, `data`, `ids` are the batches of `dl->slots`; `ids` is the epoch and
first position of a batch and the set of its samples, which `gd_dl_fill_slot` has the
sampler compute. `requested`, `nextSeq`, `deliverSeq`, `epoch`, `inEpoch`,
`workerStatus`, `stop` are the loader's fields. `filling_count` is the set `Filling`
of workers between taking a batch and reporting it. A worker checks, parks on
`work_cv`, collates (which may fail), acquires a ring slot (a free one, or a retired
one the device has finished with, well or badly), copies, publishes, and reports.
`pthread_cond_signal` wakes any one of the parked workers. The consumer is one thread;
`gd_dataloader_next` is `CallNext` followed by `Deliver`, `NextFails` or `NextWaits`
each time it has the mutex. Destroying a loader in the middle of a step on its batch
is a caller's error and is not an input.

Abstractions. The ring is `DeviceLease`: a retired slot is reclaimed in any order
where the code takes the first by index. The loader is the ring's only user here; two
loaders on a ring are `Trainer`. Metrics, `last_fence` and field contents are left
out. A call that returns an error and changes nothing (a release of a batch in a
step, a prefetch on a full queue) is a stutter.

### Trainer

The trainer's thread is the consumer of two loaders: the training loop's, and one
that `gd_eval_mean_loss` creates and destroys (`E`, a second instance of `DataLoader`
on the same `use`). `pc` and `call` say where the thread is and in which of the two
calls, `batch` what it has in hand, `open` whose step is open. Fills, begins, what
runs in the step (`Run`: loss, backward, optimizer) and ends of steps may fail. An
end that fails leaves the step open and the batch in it, so that its release is
refused and ignored, as is every later begin.

How long the ring is, is not assumed: a loader is held to the slots of the ring
(`dataloader.c:825`), not to those that another loader leaves it. `CallsReturn` has
the condition in itself. While the ring is longer than the training loader, which an
evaluation needs, and by one more slot while a step of an evaluation is left open,
every call returns. On a `Short` ring a call may hang, and then it is `Starved` for
good and for no other reason: every slot is taken by a ready batch that is not the one
the call waits for, or by the open step.

Abstractions. What the loss and the optimizer do is `Autograd`'s and `AdamW`'s
business. The refusal of malformed arguments, the module's training flag, and a
loader that cannot be created are left out; so are the samples (one suffices).

### Arena

`offset`, `free`, `generation` are the fields of `gd_arena`; `span[t]` is the storage of
tensor `t`, which keeps it, stale, over a reset. `AllocFromFree` and `AllocFromEnd`
are the two halves of `gd_arena_alloc`, `Free` is `gd_context_free_span` with
`gd_arena_free`, `Reset` is `gd_arena_reset`. `lost` is a history variable: the units
in front of an aligned span and behind a span cut out while the table was full.

Abstractions. The table is the set of its blocks, since its order is that of their
offsets; that the code's `memmove`s keep it sorted is thereby assumed. A unit stands
for a byte. Only scratch arenas have a table; the others allocate from the end and
never free, which is `AllocFromEnd` and `Reset` alone. A refused call is a stutter.
Tensors own their spans: a copy of a span that outlives it is `Autograd`'s matter.
Sealing and the alignment's validation are left out, and generations do not wrap.

### StateObjects

`objects` is `ctx->state_objects` by address, `touched` the table `ctx->touched_state`
of what the open step acquired, with the epoch it had. `jobs[q]` is what command
buffer `q` uses: it is in use while `done < q`. An address that was freed may be given
out again, which is what the epochs in the table are for. `EndStep` checks the touched
objects and stamps them with the new fence. A reset keeps the span if the new size
fits and takes another from the arena if not; `Destroy` and `Reset` need `Complete`
and are refused to a touched object.

Abstractions. Spans are numbered: the state arena only allocates from its end. The
fences of this module are those of `StepContext` in short, complete once the device
is past them. Alignment and the access mode, which nothing reads, are left out.

### Autograd

One step. A tensor is a number whose elements are one integer modulo 97, so that the
gradient that backward leaves can be compared with the chain rule, `ChainRule`, whatever
storage it went through: `core.mem` keeps what a freed span had, and a rule that
reads a span too late computes something wrong. `core` is the scratch arena, the
gradient slots and the reference counts of live spans. `Forward` records a node,
`Start` counts references and seeds, `Visit` is one turn of the walk: the rule of the
operator, then the release of the output gradients and of the forward references.
`Pass` is `gd_autograd_steal_grad_if_absent`, `CanAdopt` the choice between taking a
contribution as the accumulator and copying it. Room for gradient slots and spans may
run out in the middle of all this.

Six operators have their rules modelled: add (which steals, or sums over what was
repeated), mul (fresh contributions, summed over what was repeated in one kernel or two), dropout and
dropout_add (a saved mask), split (two outputs, one
possibly without a gradient) and reshape (a view of the same storage). The other
rules make contributions as mul or dropout do. Refused arguments, device failures and
the attribute buffer are left out.

A shape is the set of the dimensions, of two, along which a tensor is longer than one:
add and mul repeat an operand along those it lacks, and backward sums over them
(`Repeats`). `Reduces` is the comparison of shapes on which a rule decides between
stealing and summing, `Fused` the choice of `gd_mul_backward` between one kernel and
a product of full size (`full_dx`, `full_dy` of `core_mul.c:203-245`) that is then
summed. Nobody gives that product back, so it stays in scratch until the step ends; `core.full`
records it. `NothingLeft` says so: besides the gradients of leaves, the outputs and what is
off the tape, one such product at most is left for each repeated operand whose sum is
not fused. (Operands of one shape but for leading ones are one shape here.)

### AdamW

Both copies of every count are there: `device` (with its powers of beta, which are as
good as their exponent), `host`, and `dirty`; likewise `scaler` on the device and
`known` on the host. A gradient is the power of two it is still scaled by and whether
it is finite; any gradient may overflow, a plain one too. A plain step gives its kernel
no `found_inf` (`adamw.c:1885-1933`): it checks nothing and applies what overflowed, so
the first part of `UpdatesSound` is of scaled steps only. `BackwardAmp`, `StepAmp` and
`StepPlain` follow their functions, with the kernels each encodes: the unscaling that finds an overflow, the update, the commit of
the counts, the end of the scaler's step. `StepAmpFailsBefore` and `StepAmpFailsAfter`
are the errors on either side of the unscaling, after which the scaler's step stays
begun. `Sync`, `Save`, `Load`, `SyncScaler`, `SetScaler` move the copies. `made`,
`latest`, `blame`, `finished` are history variables. `Toggle` says whether the caller
may switch loss scaling on and off.

Abstractions. Reading or writing a tensor waits for the device, so its state is that
after all that was encoded. Moments and parameters have no values. Growth and backoff
are by two, a scaler has one optimizer, and a load that fails half way is left out, as
is the failure to encode the end of the scaler's step after the update was encoded,
which would leave the host's copy stale without saying so (`adamw.c:2152`).

### MetricsLogger

`queue`, `head`, `tail`, `count`, `stop` are the fields of the logger under its mutex.
`wpc` is where the writer is: about to take the mutex (`lock`), with it (`locked`), asleep
on the condition variable (`wait`), writing what it popped (`hand`) without it, or gone.
What the logging thread does under the mutex is one step; a `trylock` fails exactly
while the writer has it. The writer may wake without a signal. `life` is a history
variable that only `EventLog` needs; the mapping takes the record in hand and then the
ring for what waits to be written.

Abstractions. A record is its event. Flushing, and with it what of an open log is on the
disk when the process dies, is left out, and so are the count of the dropped, a record
too long, and a write that the file system refuses: the record is freed all the same.

### TrainingRun

One process after another on one directory. `pc` is where `main` is, `todo` the rest of
the saves and records due before it goes on, in order; `epoch`, `first`, `shard`, `local`,
`served`, `epochStep`, `gstep`, `stale` are the variables of `train_gpt`. The disk is
`file`, the three files of each of the two checkpoints, each missing, torn or whole with
what is in it. A save is write and rename (model), write and rename (optimizer), open and
close (training state, truncated in place), and the program or the machine may go down
between any two. Files that were not synced (`loose`) may then be lost; so a temporary
file renamed without `fsync` could turn up torn. A run starts afresh or from either
checkpoint, whichever is there, and gives up if a part is missing or torn.

Model and optimizer are the sequences of the batches they were trained on, and a batch
is its number in a run that is never interrupted, which is what a resumed run must go on
with. That a loader deals the same batches of a shard in the same order in every run
is `SamplesInOrder` of `DataLoader` with the seed that `train_gpt` gives the sampler;
`Batch` relies on it. `mixed` and `backwards` are history variables: the parts of a
checkpoint, or of what was resumed from one, are of different saves; a run was started
from less than some checkpoint on the disk holds.

Abstractions. The loss of an evaluation is: got better, or not. Both kinds of checkpoint
are saved, metrics are on, and the configuration is the same in every run. Renames and
truncations reach the disk in the order they were made. The loader that is not split by
shards is one shard. Generated texts and their records, the cache of shards on the local
disk, and loading weights without a position are left out; training steps succeed.

### Tokenizer and BpeTrainer

A vocabulary is a sequence of tokens, each with its bytes and its two parts; the two
hash maps say no more than that (`WithBytes`, `WithParts`). `Encode` keeps the ranks of
all positions and computes two of them again after each merge, as the code does.

`BpeTrainer` keeps what `gd_run_bpe_merges` keeps: words as nodes linked both ways,
for each pair a count and the list of the nodes where it occurs or once occurred, last
first, and a heap of pairs under counts they have or had. `PopStale`, `Choose` and
`Stop` are the three ends of `gd_train_heap_best_pair`; `Skip` and `Join` are the two
turns of the loop of `gd_train_merge_pair`, and `EndMerge` its end.

Abstractions. `Pieces` are what `gd_pretokenize` finds in texts; its splitting is left
out, and so are special tokens, which are in neither map and no part of a word. The
seed that decides between equal counts and the order in which the hash map has the
words are nondeterministic. The heap is a set: an item equal to one that is there
says nothing more. Counts do not saturate, and no piece is longer than 256 bytes.

## Runs

| run | bounds | shows |
|---|---|---|
| `step_safety` | 1 worker, 2 scratch and 3 data slots, 3 steps, table of 3, two generations of the first slot and one of the others, empty batches too | the safety properties of `StepContext`, the refinement of `DeviceLease`, and that calls return, whatever command buffers and fills fail |
| `step_download` | 1 worker, 2+2 slots, 3 steps | a violation, see below |
| `loader_safety` | 2 workers, prefetch 2 held to 2 ring slots, batches of 2 out of 5 samples in two shuffled shards, 5 batches | the safety properties of `DataLoader`, and that next and destroy return |
| `trainer_live` | two loaders of one worker each on a ring of 3 slots, 2 of which the training loader may hold, 2 batches for training, 2 for evaluation, any call failing | `CallsClean`, and that every call returns or is starved on a `Short` ring |
| `arena_safety` | 4 tensors, 7 units, table of 2 blocks, sizes 1 and 3, alignments 1, 2, 4, one reset | the properties of `Arena` and the refinement of `Allocator` |
| `state_safety` | 3 addresses, 4 spans, table of 2, epochs wrap at 2, 3 steps | the properties of `StateObjects` |
| `autograd_safety` | tapes of up to 3 nodes over 2 parameters of different shapes and 6 operators, 8 spans, 3 gradient slots, 2 scales | the properties of `Autograd` |
| `autograd_twice` | 2 nodes, two passes of backward | a violation, see below |
| `adamw_safety` | 2 parameters, 3 scales, growth after 2 steps, 3 updates, failures at both places | the properties of `AdamW` |
| `adamw_mixed` | 1 parameter, loss scaling switched on and off | a violation, see below |
| `training_safety` | 3 starts, 2 epochs of shards of 2, 0 and 1 batches, the latest checkpoint every 2 steps, evaluation every epoch, patience 1, a ring of 2 records | the properties of `TrainingRun`, and that the logger implements `EventLog` |
| `tokenizer_safety` | up to 3 of 18 pieces over 2 bytes, up to 4 merges, allocations failing | the properties of `BpeTrainer` and of the encoder |

Why these bounds are enough to be interesting. In `step_safety` three steps on two
scratch slots force `gd_ring_select` round to a slot the device may still have: the
data ring must be the longer one, or a batch would wait for its data slot first. The
worker and the main thread, which acquires a slot itself for an empty batch, race for
free and retired slots, and either can be found asleep; the
generation of the first slot comes round at its second reset, that of the others at
each, and a slot that was aborted once is found in another's hands by the second abort.
More threads, slots and generations are what the proofs are for. In `loader_safety` four wanted batches are clamped to two, five samples
leave a remainder to drop, five batches cross two epoch boundaries, the shards are
shorter than the four numbers of the network, so that the permutation must walk back
into them, and two workers finish in either order; with two slots the ring is always short, and more of them are
what the proofs are for. In
`trainer_live` the ring has one slot that the training loader leaves free, and is
`Short` as soon as an evaluation leaves its step open in it: calls return before, and
after it a call can hang, for a `CallsReturn` without its last disjunct is false there. In `arena_safety` four tensors can leave two holes with a
tensor between them, which fills the table, so that both a free and a split find it
full; `SizeMax` equals the capacity, so that alignment near the end would wrap, and
one reset leaves stale spans over units that are given out again. In `state_safety` an
object can be destroyed and one created at its address in the step that the device
still runs, and its epoch can come round to the old one. In `autograd_safety` three
nodes make chains, a tensor used twice, two outputs of one split, and views of views; of the
two parameters each lacks a dimension of the other, so both are repeated, and one of
them again by what they make;
eight spans and three slots run out on some tapes and not on others. In
`adamw_safety` the scale can hit both of its limits and the checkpoint can be taken and
loaded on either side of a skip. In `tokenizer_safety` the pieces have runs (11111) and
alternations (121212), whose occurrences overlap, and merged tokens that merge again.

In `training_safety` three starts make a run that resumes from what a resumed run left;
the empty shard lies between two others, so that a resumed run passes over none, one or
two shards; saves in the middle and at the end of an epoch alternate on one path;
early stopping happens or not; and a ring of two is full, or empty with the writer
asleep, when a record or stop comes.

`MaxFence`, `MaxSeq`, `MaxEvalSteps`, `MaxGeneration`, `MaxNodes`, `MaxTensors`,
`MaxBackward`, `MaxUpdates`, `MaxPieces` and `MaxStarts` bound the number of steps, batches, resets,
operators, passes, updates, pieces and starts and stand in guards of their own; everything else
is the code's. No passing run checks deadlock: at the bound, or with a loader destroyed
or a vocabulary trained, there is nothing left to do. Liveness is what shows that
nobody waits for ever.

The types of `StepContext`, `DataLoader`, `Arena`, `StateObjects` and `AdamW` are proved,
those of `Trainer`, `Autograd`, `MetricsLogger` and `TrainingRun` as parts of their
invariants, and no run repeats them; nor that
the completed fence never goes back. Each property is also checked to be falsifiable: `PROJECT.json` names, for
each, a plausible bug of a modelled definition (operators marked "Mutant") under which
the same run finds the property violated.

### Fairness

`StepContext`: the device always goes on (WF of `GpuFinish`), and a thread inside a
call goes on. The latter is strong fairness, because a thread that wants
`backend_mutex` must win it at some point against others that take it again and
again; a mutex that starved a thread for ever would break the code too. Whether to
make a call is the caller's choice, so no fairness is put on it. A thread asleep on
`data_cv` counts as returned: what wakes it is the end of a step or a release, which
nobody has to make; that it is not left asleep beside a free slot is `NoLostWakeup`.

`DataLoader`: weak fairness of every worker, of the consumer inside a call, and of the
device. No call is assumed to be made. The fairness of a worker is written out: it
acts infinitely often, or is infinitely often unable to (`Stuck`: asleep, gone, or
without a slot to acquire), which is what WF says, without having TLC evaluate the
sampler for ENABLED.

`Trainer`: weak fairness of the workers of both loaders, of the device, and of the
thread inside a call; which call comes next, and whether one comes, is free.

`TrainingRun`: weak fairness of the program and of the writer, and strong fairness of
`Stop`, which wants the logger's mutex of a writer that takes it again and again.
Nobody has to start the program, and it may die at any time.

### What was found

`step_download`: a tensor of a batch downloaded after `gd_end_step` and before the
batch is released can be read from another batch. `gd_context_validate_span` checks
the generation; `gd_context_wait_for_span` (`memory.c:833`) then reads the fence of
the slot without `data_mutex`; in between a loader thread that finds the slot RETIRED
and its fence complete may free it and fill it again, and then the fence read is 0.
The tests do download in this window (`tests/test_dataloader.c:143-149`), where a
single outstanding batch hides it. `README.md:95-96` says the rings are guarded by
fences and slot generations.

`autograd_twice`: `include/gradients/autograd.h:42` says the gradients of parameters
are retained until the next step begins. But `gd_autograd_build_live_spans`
(`autograd.c:354`) counts the references of the whole tape at every `gd_backward`,
those an earlier one in the same step has consumed included. The second pass gives
that storage back again: by then it is free, and the pass fails, or it holds the
gradient of a parameter, which is freed. Two losses in one step need
`gd_backward_many`.

`adamw_mixed`: a plain step counts on the host (`adamw.c:1927`), an AMP step on the
device (`adamw.c:2156`), and neither tells the other. A plain step followed by AMP
steps loses its count and corrects the bias for a number too low.
`docs/guides/adamw_amp.md:12` and `tests/test_optim.c:291` have the step count that of
the updates. As long as loss scaling is not switched on or off the counts are right,
which is proved.

Some observations contradict no text of the repository and have no run of their own:

- Evaluation while the training loader holds batches needs ring slots of its own. With
  as many slots as the training loader has batches, `gd_eval_mean_loss` can hang: the
  second loader's workers wait for a slot that only the waiting thread could give
  back. One more lets every call return until a `gd_end_step` of an evaluation fails,
  which leaves its slot in the open step for good; then another would be needed.
  `examples/gpt_lm/gpt_lm_shared.h:47` reserves one slot for this. No text promises more
  than the code does, so this is a condition in `CallsReturn` (`Short`, `Starved`) and
  not a finding.
- Training merges the occurrences of a pair last first, the encoder the first of the
  lowest rank first. On a run of three like tokens (111 with the token 11) training
  ends with 1, 11 and the encoder with 11, 1. `EncodeFaithful` makes an exception for
  vocabularies with a token of two like halves; for the others the two agree on every
  word of the training, which is proved.
- The branch of `gd_run_bpe_merges` for a merge whose bytes have a token already is
  never taken: `MergesAreNew`, proved for all words.
- A checkpoint cut between its files is not noticed: a model of step 4 with the optimizer
  and the position of step 2 is resumed as it is, and trains the model on batches 3 and
  4 again (`mixed` in `TrainingRun`). Nothing is skipped, because the position is
  written last, unless some run was started from less than a checkpoint on the disk
  holds (`backwards`): a program started afresh over old files and killed in its first
  save leaves a new model under an old position.
- A position is saved before the program knows that it stops early: resumed from the
  latest checkpoint, a run that was stopped trains another epoch.

## Proofs

Every theorem holds for every value of the constants that the assumption of its module
admits; `PROJECT.json` lists those a reader should know of.

`StepContext_proofs` assumes `StepContextAssumption` only (distinct threads, at least
one slot in each ring, a fence table larger than the scratch ring, which
`memory.c` guarantees with 1024 against 64), whatever the generations' limits, and proves, for every number of threads,
slots, steps and generations, all safety properties that `step_safety` checks.

The properties are not inductive. The invariant is built in layers, each proved from
the types and the layers below it:

- `Typed`: the types, and which parts of the control state go together.
- `Fenced`: `pending` is exactly the interval from the completed to the newest fence,
  the device's unfinished command buffers lie past `gpuDone`, and
  `completedFence <= gpuDone`. `CompletedNeverDecreases`, `WaitedFenceIsKnown` and
  `SynchronizeDrains` follow from it.
- `Buffered`: the fence of an unfinished command buffer is the one stored in its
  scratch slot and, once the step is over, in its data slot, so a complete slot fence
  implies an idle slot. With `Fenced` it gives `DeviceKeepsBuffers`.
- `PendingIsScratch`: every pending fence is in some scratch slot, which bounds the
  table by a cardinality argument (`PendingBounded`).
- `Leased`: who holds which slot, in which state and under which generation
  (`LeaseIsExclusive`), together with `Settled`: a thread between the two aborts of a
  failed fill finds its slot FREE, or under another generation, so its second abort
  changes nothing. This is where `NotLapped` is needed.

A thread back from its wait for a fence knows nothing of the slot any more: it may have
been freed, filled and retired again. That the recheck in
`gd_context_data_slot_acquire` is enough is what `Fenced` and `Buffered` say together:
a slot RETIRED under a fence that is complete is used by no unfinished command buffer.

The last theorem of the module is `Spec => LeaseSpec`: under the mapping `UseOf`
every step of `StepContext` is a step of `DeviceLease` on one buffer or a stutter. It
adds `StepOwned` (a slot in a step is the slot of Main's step, and command buffers
have distinct fences) and uses the layers on both sides of each step.

`Arena_proofs` assumes `ArenaAssumption` (positive sizes, a capacity within SIZE_MAX) and
proves every property of `arena_safety` for every capacity, alignment, table size and
number of tensors and generations. The invariant is `Sound`: live spans lie below
`offset` and overlap neither each other nor a free block, and free blocks are not
empty, do not overlap and do not touch. The last two are what makes `gd_arena_free`
right in looking at its two neighbours only: any other block is beyond one of them.
`NothingForgotten` needs the converse, `Covered`, that every unit below `offset` is
somewhere. `TypeOK` needs a count of the blocks, which splitting raises by one at
most, and only if there is room. `ArenaImplementsAllocator` then maps each tensor to
the units of its span, none if it is stale.

`StateObjects_proofs` proves both properties and the types. What the device uses is a
claim about objects that may have been destroyed, reset and created at the same
address since, so the invariant says who owns what at all times: `TouchedCurrent` (the
entries of the table are live and of the present epoch), `SpansDistinct`, `OpenJobs`
(the open step uses what it touched), `JobsOwned` (a span in use belongs to an object
whose last fence is not complete).

`AdamW_proofs` proves every property of `adamw_safety` under `~ Toggle`, that loss
scaling is not switched on or off, without which `adamw_mixed` shows them false. Plain
gradients overflow in the proofs as well; nothing is claimed of what a plain step does
with them. The
invariant has three parts: `GradInv` (gradients not yet given to the optimizer carry
the scale of the step the scaler has begun), `ScalerInv` (what the device has found is
what there was to find since), `CountInv` (the copy that the next update starts from is
that of the updates made).

`Trainer_proofs` begins with the sampler and proves, for every hash, every bound and
every xor that is an involution, that the network is one-to-one, that the loop back into the bound visits
exactly one number below it (`LoopEnds`), and that two values never end at the same
(`PermuteOneToOne`): the paths of two values are disjoint, because the network can be
run backwards. A bound that fits into two halves of `MaxHalfBits` bits, 32 in the code, has a
half of its own (`HalfSound`). With shards that follow one another from the first sample to the
last (`Tiled`, the running sum `sample_base` of `gdds_dataset.c`), every position is in one
shard (`ShardOf`, `ShardsApart`), and the binary search finds it: the function it computes is
written down (`Found`), satisfies the equation of the search (`FoundByLooking`), and the
least interval where another solution would differ does not exist (`SearchFinds`). Hence
`SamplerIsSound`: all three orders permute the dataset. Only that the hash gives numbers is
a hypothesis, `HashNatural`, which ranges over every key and cannot be evaluated by TLC.

It then proves the safety properties of `DataLoader` for every number of
workers, slots, samples and batches. The invariant: `Staffed` (a batch that is
filled has one worker), `Bound` and `Alone` (what a batch and the ring say of each
other), `Owned` (what the host or the step has is some batch's), `Ending`, then
`Position`, `Numbered` and `Complete` for the order, and `Counted` for the queue.
`WorkersFed` is the pigeonhole principle: a worker in want of a slot has a batch
without one, so the others cannot hold every slot of a ring that has no fewer slots
than the loader has batches. `TypeCorrect` and `NoSampleTwice` follow from the invariant
and `SamplerIsSound`.

The rest of `Trainer_proofs` proves `CallsClean` for every ring, however short, any number
of workers and batches, and any call failing. `CallsClean` speaks of the moments between
two calls, so the invariant says who has which slot in between: `Loaders` (a batch that
is filled has one worker, which knows whether it has a slot of the ring), `Control` and
`OneHanded` (the thread has one batch in hand, in the state that follows from where the
thread is), `Shared` (a slot for the host is of one of the two loaders) and `OneStep`.
The worker's steps are proved once for each loader, and what they may do to the ring
(`Handed`, `SameStep`) is all that the other loader is told.

`Autograd_proofs` proves the four properties of `autograd_safety` for every
number of parameters, every tape, and every size of the arena, the tape and the slots.
The hypothesis `MaxBackward <= 1`, one `gd_backward` in a step, is what the code needs:
after a second one the invariant is false, as `autograd_twice` shows. The invariant
`AutogradInv`: a span that is given out is a slot's, or the tape's, or the temporary of
the call in progress, and never two of them (`Slots`, `Live`, `Accounted`); the count of
a span is the number of references the walk has not come to (`Counts`, a cardinality over
the positions of the tape); no gradient of what a node computes outlives the visit to the
node (`Consumed`, which needs that a tape is recorded in the order of its tensors); before
backward the arena holds the tensors and nothing else (`Before`). The products of full
size are known by the node and the operand they are kept for (`Fulls`): a node whose turn
it is has kept none (`NoneKept`), since a tape is recorded in the order of its tensors, so one
is never kept twice, and `NothingLeft` bounds them. Every function of
`autograd.c`, from `CanAdopt` to `Visit`, is shown to keep these, in the order of their
calls, whatever fails for room: `AccumulateSound`, then each rule (`RuleSound`), the two
loops of releases, and a turn of the walk (`VisitSound`). That the count of a span is
positive as long as a reference waits makes `ForwardReadable` follow, and that no slot
has a span that is counted makes giving back at zero right.

`GradientsRight` needs more: what the slots hold at every turn. `GradInv` says that before
node `w` is visited, each tensor whose own node, if any, is not after `w` has in its slot what the
seeds and the uses behind the walk bring it by the chain rule (`SoFar`), modulo the prime,
and no slot only if that is zero (`Right`). Such a sum grows by what the visit brings
through each input of the node (`SoFarStep`), and the outputs of the node have all of
theirs by then, since every use of an output is of a later node (`OutputsRight`). The
code's side is `Gets`: accumulating, stealing and adopting each add one amount to one
tensor and leave every other as it was (`AccumulateGets`, `PassGets`, `ContributeGets`), also
while the slot of the output that the rule passes on is itself gone or written over; each
rule brings each input its derivative times what came to the outputs (`RuleBrings`); and
the rule reads what was recorded because it is still referred to (`TurnReadable`). That
the sum of `FiniteSetsExt`, a recursion over finite sets whose order is a `CHOOSE`, can be
taken in any order (`SumTake`), and that the recursive `ChainRule` has a value for every
tape (`ChainRuleIs`), are proved from a smallest counterexample.

`TrainingRun_proofs` begins with `LoggerSpec => LogSpec` for every capacity: with whatever
else the threads do, the logger implements `EventLog`. The invariant `LoggerInv` is that
`tail` is `count` cells on from `head`, that the cells between hold records (`InStep`),
and that the writer has a record in hand exactly while it writes and has gone only with
nothing left (`WriterInv`). What an index modulo the capacity is at the end of the ring
is said once, in the lemmas `Wrap`, `Apart` and `Shift`, which the prover cannot be asked
for again at every step. `TrainingRun` steps the logger by these actions only, so the
whole program implements `EventLog` too (`ProgramLogs`).

It then proves the two invariants of `training_safety`, and that the check the program
makes of its steps at the end of an epoch succeeds (`StepsAddUp`), for every list of shards, number
of epochs and of starts, and every place to die at. `TrainingInv`: `Course` (the step of
the epoch is what the shards passed over and the batches dealt add up to), `Saves` (of
what is still due, each file is synced before it is renamed and the position comes last),
`Files` (model and optimizer are whole), `Clean` (unless mixed, they have seen the batches
of an uninterrupted run up to the position beside them) and `Behind` (no position is ahead
of its files, unless a run was started from less). `Saves` is about any sequence of tasks
that may be due, so it is proved of concatenations once (`SoundConcat`), and again for
what is left when the first is done (`TailSaves`).

`BpeTrainer_proofs` proves `IndexSound`, `Greedy`, `MergesAreNew` and `EncodeFaithful` for
every set of pieces and of texts, every vocabulary size and every frequency asked, whatever
order the hash map has the words in, however equal counts are decided between and wherever
memory runs out.
The invariant `TrainerInv` has to say what a merge may rely on:

- `Chained`: a node has the bytes of its word from its position on to the next node, with
  no node between. The position of a node's next is then known from its bytes, which is
  why joining two nodes leaves every other node as it was (`JoinSpells`), and reading the
  nodes from the left spells the word (`WordSpelled`).
- `Table`: nodes that have a next are labelled by the two tokens; the count of a pair is
  the number of copies of the places with its label, and its list has all of them, except
  for the pair being merged, whose places left are on the list being walked (`Merging`). A
  decrement is sound for a label less and an increment for a label more
  (`DecrementSound`, `IncrementSound`), so a merge is three labels less and two more at
  most, whether the neighbours are there or not, and whether or not they make the pair
  that is being merged: that is the case of overlapping and repeated occurrences. A
  decrement stops at 0, so it must also be known that nothing is taken off that was not
  counted.
- `OnHeap`: a pair not touched in this merge is on the heap under its count. Counts on the
  heap may be old, and higher or lower than the true one: that the highest item which is
  current belongs to a most frequent pair is `Greedy`.

`Finish` counts all words in two nested loops (`Counted`, `CountedWord`), for which the same
`IncrementSound` is applied to each place in turn (`WordCounted`, `AllCounted`).
The first half of `EncodeFaithful`, `RoundTrip`, then needs of training only `Vocabulary` (a token has the bytes of its parts). Of the
loop of `gd_encode_piece` it needs that the ranks kept from one merge to the next are
those of computing all of them again (`RanksStay`); a stale rank would merge two tokens
into a third with other bytes.

`MergesAreNew` compares any two places in any words, through the middle of a merge. The
invariant `MergeInv` is stated of `Unfolded`, the segmentation as it was before the
merge that is going on: each node merged so far is two halves again, so joining leaves it
as it was (`JoinUnfolded`).

- `Uniform`: where like bytes are between nodes, they begin with the same token. Merging
  every occurrence of a pair keeps it (`MergeUniform`), except that a run of like tokens
  (left and right the same) may be cut in two ways.
- `Descending` or `Ascending`: so occurrences must be visited from the same side in all
  words. The first count lists the places of a word from the right, pairs made by a merge
  are listed in the direction opposite to that merge, and so lists go down or up within a word
  (`Directed`), whatever the order of the words. What waits is on one side of everything
  merged.
- `Whole`: the bytes of a token, between nodes, are that token and never several. If the pair
  chosen had a token already, its occurrence would be one that is not whole (`NotKnown`).

The second half of `EncodeFaithful` relates two programs, the trainer and the encoder, that
never run together. Its invariant `EncodeInv` says of every word that the turns of
`gd_encode_piece` lead from its bytes to where training has brought it.

- `Turn` is a turn of the encoder on a segmentation (the nodes of a word and their tokens):
  of all neighbours that have a token merged of them, the lowest token, at its first place.
  `Leads` is any number of turns: whatever set has the first segmentation and all to which
  turns lead from those in it has the last.
- A token added later is higher than all others, so each turn there was still is one
  (`TurnStays`): where the encoder was led before a merge of the trainer it is led after.
- While a merge goes on, the only neighbours that have a token are the places of the pair
  being merged (`OnlyLast`), because before it no neighbours had one (`NotKnown`). The
  encoder takes those places from the left, one a turn; the trainer has taken the same ones
  in whatever order (`PairingsMerged`), for two parts that are not alike cannot overlap.
  That is where tokens of two like halves are the exception (`TwinFree`). So the turns lead
  on to the end of the merge (`PartlyTurn`, `EndLeads`).
- In the end no neighbours have a token (`SettledNone`), and there the encoder stops. That
  its loop, which keeps parts and ranks in a row, takes these turns is `EncodeTurn` and
  `EncodeFollows`, by `Matches`; a word that is a token itself, which the encoder looks up
  at once, has come to that token in training, too (`WholeWord`, from `Whole`).

Several of these proofs need induction over data: on the prefixes of a list of shards, of
seeds, of a node's references, of a word and of a text, the intervals of a search and the turns of a loop. The library's induction rules cannot be used, but a set
of naturals that is not empty has a least element (`LeastElement`, from the theorems on
well-founded relations), and the least counterexample does the same. The functions are
defined by recursion over `0 .. n`, and that one exists is proved in the same way.

Only model-checked: liveness of all components (fairness and ENABLED are beyond the
prover).

## Plan

Done: the step context, the loader with its sampler, arenas, state objects, autograd,
the optimizer with its scaler, the trainer, the metrics logger and the training program
and the tokenizer, checked and proved. Left, in this order:

1. A flush, a download, an upload and a copy inside an open step, on `StepContext`.
2. The remaining rules of autograd, and the attribute buffer.
3. Two optimizers to one scaler: the end of the first's step changes the scale under
   the second's gradients (`adamw.c:1350`).
4. The split of texts into pieces: a file read in batches is cut after a newline
   (`tokenizer_train.c:1246`), so that white space that follows goes into another
   piece than in the text at once.
5. The module tree and the loading of checkpoints into it; views against their storage.

## Not modelled

Numerical kernels and floating-point results, Metal encoding, the null backend, which
executes each operation at once, learning-rate schedules, which are functions of the
step, tensor shapes and strides (but for what broadcasts in autograd), file
formats (GDDS, checkpoints, tokenizer files), the
network and the text generation of `examples/gpt_lm`, the other examples, the tools
(`tools/gradients-tokenize.c` cuts texts into sharded token files, in one thread and
once), and code under `probes/` and `bench/`, which calls what is modelled. `docs/grad_ckpt.md`
describes a design the source does not implement. `PROJECT.json` lists every part, with
its reason.
