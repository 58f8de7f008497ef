---------------------------- MODULE TrainingRun ----------------------------
(***************************************************************************)
(* The training program src/examples/gpt_lm/main.c, started over and over  *)
(* on one directory of checkpoints: what it trains, saves and resumes, and *)
(* what is left on the disk when it dies at any point.                     *)
(*                                                                         *)
(* A checkpoint is three files.  Model and optimizer are written to a      *)
(* temporary file that is synced and renamed over the old one              *)
(* (src/src/nn/module_io.c), the training state is truncated and written   *)
(* where it is.  Weights and optimizer state are stood for by the batches  *)
(* they have been trained on, a batch by its number in a run that is never *)
(* interrupted.  DataLoader and Sampler say why a loader deals the batches *)
(* of an epoch in one order.  The file system carries out renames and      *)
(* truncations in order; the data of a file that was not synced may be     *)
(* lost.  A temporary file left behind is never read.                      *)
(***************************************************************************)
EXTENDS MetricsLogger

CONSTANTS
  Latest, Best,      \* the two checkpoints, latest_checkpoint_path and checkpoint_path
  Afresh,            \* no resume_checkpoint_path
  Epochs, ShardSteps, LatestEvery, EvalEvery, Patience, ReportEvery,  \* gpt_config
  MaxStarts          \* bound: times the program is started

Paths == {Latest, Best}
Parts == {"model", "optim", "state"}

\* Steps of the epoch in the shards up to shard i, and in all of them:
\* steps_per_epoch.
StepsUpTo[i \in 0 .. Len(ShardSteps)] ==
  IF i = 0 THEN 0 ELSE StepsUpTo[i - 1] + ShardSteps[i]

Steps == StepsUpTo[Len(ShardSteps)]

ASSUME RunAssumption ==
  /\ Latest # Best /\ Afresh \notin Paths /\ "run" \notin Paths
  /\ Epochs \in Nat \ {0} /\ ShardSteps \in Seq(Nat) /\ Steps # 0
  /\ {LatestEvery, EvalEvery, Patience, ReportEvery, MaxStarts} \subseteq Nat
  /\ Records = {"run_config", "train", "checkpoint", "eval", "early_stopping",
                "memory_watermark", "run_end"}

VARIABLES
  file, loose, synced,        \* the disk: files, those not synced, is the temporary one
  pc, todo,                   \* where the program is; saves and records due before it goes on
  resume,                     \* resume_checkpoint_path
  epoch, first,               \* epoch, epoch_first_step
  shard, local, served,       \* shard_index, local_step, batches the loader has dealt
  epochStep, gstep, stale,    \* epoch_step, global_step, epochs_without_improvement
  model, optim,               \* the batches each was trained on
  mixed, backwards, starts    \* history, see WholeUnlessCut and NothingSkipped

disk    == <<file, loose, synced>>
process == <<resume, epoch, first, shard, local, served, epochStep, gstep, stale, model, optim>>
past    == <<mixed, backwards, starts>>
vars    == <<loggerVars, disk, pc, todo, process, past>>

NoFile == [is |-> "missing"]
Torn   == [is |-> "torn"]
Whole(c) == [is |-> "whole", of |-> c]

IsWhole(p, part) == file[p][part].is = "whole"
Of(p, part) == file[p][part].of

Upto(n) == [i \in 1 .. n |-> i]

----------------------------------------------------------------------------
(* What is due, in order.                                                  *)

ToLog(r) == [do |-> "log", what |-> r]

\* gpt_save_and_log_checkpoint: gpt_save_checkpoint_bundle, then the record.
\* Mutant: the state first.
BundleStateFirst(p, s) ==
  << [do |-> "open", at |-> p], [do |-> "close", at |-> p, state |-> s],
     [do |-> "write"], [do |-> "rename", at |-> p, part |-> "model"],
     [do |-> "write"], [do |-> "rename", at |-> p, part |-> "optim"],
     ToLog("checkpoint") >>

Bundle(p, s) ==
  << [do |-> "write"], [do |-> "rename", at |-> p, part |-> "model"],
     [do |-> "write"], [do |-> "rename", at |-> p, part |-> "optim"],
     [do |-> "open", at |-> p], [do |-> "close", at |-> p, state |-> s],
     ToLog("checkpoint") >>

\* gpt_write_training_state: the position, and what early stopping counts.
Position(step, g, st) == [epoch |-> epoch, step |-> step, gstep |-> g, stale |-> st]

If(c, s) == IF c THEN s ELSE <<>>

----------------------------------------------------------------------------
(* Start and resume.                                                       *)

Init ==
  /\ LoggerInit
  /\ file = [p \in Paths |-> [part \in Parts |-> NoFile]] /\ loose = {} /\ synced = FALSE
  /\ pc = "off" /\ todo = <<>> /\ resume = Afresh
  /\ epoch = 0 /\ first = 0 /\ shard = 0 /\ local = 0 /\ served = 0
  /\ epochStep = 0 /\ gstep = 0 /\ stale = 0 /\ model = <<>> /\ optim = <<>>
  /\ mixed = {} /\ backwards = FALSE /\ starts = 0

\* The process is gone.
Gone ==
  /\ pc' = "off" /\ todo' = <<>> /\ resume' = Afresh
  /\ epoch' = 0 /\ first' = 0 /\ shard' = 0 /\ local' = 0 /\ served' = 0
  /\ epochStep' = 0 /\ gstep' = 0 /\ stale' = 0 /\ model' = <<>> /\ optim' = <<>>
  /\ mixed' = mixed \ {"run"} /\ synced' = FALSE
  /\ UNCHANGED <<backwards, starts>>

\* main, and gpt_start_metrics.
Start ==
  /\ pc = "off" /\ starts < MaxStarts
  /\ StartLogger
  /\ resume' \in Paths \cup {Afresh}
  /\ pc' = "load" /\ starts' = starts + 1
  /\ UNCHANGED <<disk, todo, epoch, first, shard, local, served, epochStep, gstep, stale,
                 model, optim, mixed, backwards>>

\* gpt_resume_start_position: the epoch and the step in it to begin with.
StartPosition(s) ==
  IF s.step < Steps THEN <<s.epoch, s.step + 1>> ELSE <<s.epoch + 1, 1>>

Unreadable == resume # Afresh /\ \E part \in Parts : ~IsWhole(resume, part)

\* A part that is missing or torn makes the program give up.
LoadFails ==
  /\ pc = "load" /\ Unreadable /\ pc' = "refused"
  /\ UNCHANGED <<loggerVars, disk, todo, process, past>>

\* gpt_load_requested_checkpoint, gpt_resume_training_checkpoint, and
\* gpt_log_run_config_metrics.
Load ==
  /\ pc = "load" /\ ~Unreadable
  /\ LET s == IF resume = Afresh THEN [epoch |-> 0, step |-> Steps, gstep |-> 0, stale |-> 0]
              ELSE Of(resume, "state")
     IN /\ epoch' = StartPosition(s)[1] /\ first' = StartPosition(s)[2]
        /\ gstep' = s.gstep /\ stale' = s.stale
        /\ backwards' = (backwards \/ \E p \in Paths :
                           IsWhole(p, "state") /\ Of(p, "state").gstep > s.gstep)
  /\ model' = IF resume = Afresh THEN <<>> ELSE Of(resume, "model")
  /\ optim' = IF resume = Afresh THEN <<>> ELSE Of(resume, "optim")
  /\ mixed' = IF resume \in mixed THEN mixed \cup {"run"} ELSE mixed
  /\ todo' = << ToLog("run_config") >> /\ pc' = "epoch"
  /\ UNCHANGED <<loggerVars, disk, resume, shard, local, served, epochStep, starts>>

----------------------------------------------------------------------------
(* The loop of train_gpt.                                                  *)

At(where) == pc = where /\ todo = <<>>

NextEpoch ==
  /\ At("epoch") /\ epoch <= Epochs
  /\ epochStep' = first /\ shard' = 1 /\ pc' = "shard"
  /\ UNCHANGED <<loggerVars, disk, todo, resume, epoch, first, local, served, gstep, stale,
                 model, optim, past>>

\* Steps of the epoch in the shards before shard i.
Before(i) == StepsUpTo[i - 1]

\* Mutant: the skip starts over one batch too early.
LocalFirstShort(i) == IF first > Before(i) + 1 THEN first - Before(i) - 1 ELSE 1

\* local_first_step.
LocalFirst(i) == IF first > Before(i) + 1 THEN first - Before(i) ELSE 1

\* An empty shard, or one that was trained on before the program was resumed.
PassedOver(i) == ShardSteps[i] = 0 \/ Before(i) + ShardSteps[i] < first

SkipShard ==
  /\ At("shard") /\ shard <= Len(ShardSteps) /\ PassedOver(shard)
  /\ shard' = shard + 1
  /\ UNCHANGED <<loggerVars, disk, pc, todo, resume, epoch, first, local, served, epochStep,
                 gstep, stale, model, optim, past>>

\* A loader on the shard, and gpt_skip_loader_batches.
OpenShard ==
  /\ At("shard") /\ shard <= Len(ShardSteps) /\ ~PassedOver(shard)
  /\ local' = LocalFirst(shard) /\ served' = LocalFirst(shard) - 1
  /\ pc' = "train"
  /\ UNCHANGED <<loggerVars, disk, todo, resume, epoch, first, shard, epochStep, gstep, stale,
                 model, optim, past>>

Batch == (epoch - 1) * Steps + Before(shard) + served + 1

Multiple(n, every) == every > 0 /\ n % every = 0

\* gpt_train_epoch_step, with train_one_batch and
\* maybe_save_step_latest_checkpoint.
TrainStep ==
  /\ At("train") /\ local <= ShardSteps[shard]
  /\ model' = Append(model, Batch) /\ optim' = Append(optim, Batch)
  /\ gstep' = gstep + 1 /\ epochStep' = epochStep + 1
  /\ local' = local + 1 /\ served' = served + 1
  /\ todo' =
       If(ReportEvery > 0 /\ ( \/ gstep = 0 \/ epochStep = Steps
                               \/ Multiple(gstep', ReportEvery) \/ gstep' = Epochs * Steps ),
          << ToLog("train") >>)
       \o If(Multiple(gstep', LatestEvery) /\ epochStep # Steps,
             Bundle(Latest, Position(epochStep, gstep', stale)))
  /\ UNCHANGED <<loggerVars, disk, pc, resume, epoch, first, shard, stale, past>>

ShardDone ==
  /\ At("train") /\ local > ShardSteps[shard]
  /\ shard' = shard + 1 /\ pc' = "shard"
  /\ UNCHANGED <<loggerVars, disk, todo, resume, epoch, first, local, served, epochStep, gstep,
                 stale, model, optim, past>>

\* The last shard is done: did the steps add up?
EpochDone ==
  /\ At("shard") /\ shard > Len(ShardSteps)
  /\ pc' = IF epochStep = Steps + 1 THEN "finish" ELSE "refused"
  /\ UNCHANGED <<loggerVars, disk, todo, process, past>>

\* gpt_should_eval_epoch.
Evaluates == EvalEvery > 0 /\ (epoch >= Epochs \/ Multiple(epoch, EvalEvery))

\* gpt_finish_epoch, save_best and save_latest set.  Whether the loss on the
\* validation split got better is left open.
FinishEpoch ==
  /\ At("finish")
  /\ \E improved \in (IF Evaluates THEN BOOLEAN ELSE {FALSE}) :
       LET counts == Evaluates /\ Patience > 0
           stops  == counts /\ ~improved /\ stale + 1 >= Patience
       IN /\ stale' = IF ~counts THEN stale ELSE IF improved THEN 0 ELSE stale + 1
          /\ todo' = If(improved, Bundle(Best, Position(Steps, gstep, 0)))
                     \o If(Evaluates, << ToLog("eval") >>)
                     \o Bundle(Latest, Position(Steps, gstep, stale'))
                     \o If(stops, << ToLog("early_stopping") >>)
          /\ IF stops THEN epoch' = Epochs + 1 ELSE epoch' = epoch + 1
  /\ first' = 1 /\ pc' = "epoch"
  /\ UNCHANGED <<loggerVars, disk, resume, shard, local, served, epochStep, gstep, model, optim,
                 past>>

----------------------------------------------------------------------------
(* What is due, carried out.                                               *)

Due(what) == todo # <<>> /\ Head(todo).do = what

LogRecord ==
  /\ Due("log") /\ Log(Head(todo).what) /\ todo' = Tail(todo)
  /\ UNCHANGED <<disk, pc, process, past>>

\* gd_module_save_state: fopen, fwrite, fsync and fclose of the temporary file.
\* Mutant: no fsync.
WriteUnsynced ==
  /\ Due("write") /\ synced' = FALSE /\ todo' = Tail(todo)
  /\ UNCHANGED <<loggerVars, file, loose, pc, process, past>>

WriteTemporary ==
  /\ Due("write") /\ synced' = TRUE /\ todo' = Tail(todo)
  /\ UNCHANGED <<loggerVars, file, loose, pc, process, past>>

Rename ==
  /\ Due("rename") /\ todo' = Tail(todo)
  /\ LET t == Head(todo) IN
       /\ file' = [file EXCEPT ![t.at][t.part] = Whole(IF t.part = "model" THEN model ELSE optim)]
       /\ loose' = IF synced THEN loose \ {<<t.at, t.part>>} ELSE loose \cup {<<t.at, t.part>>}
       /\ mixed' = mixed \cup {t.at}
  /\ synced' = FALSE
  /\ UNCHANGED <<loggerVars, pc, process, backwards, starts>>

\* gpt_write_training_state: fopen with "wb" leaves an empty file.
OpenState ==
  /\ Due("open") /\ todo' = Tail(todo)
  /\ file' = [file EXCEPT ![Head(todo).at].state = Torn]
  /\ UNCHANGED <<loggerVars, loose, synced, pc, process, past>>

CloseState ==
  /\ Due("close") /\ todo' = Tail(todo)
  /\ LET t == Head(todo) IN
       /\ file' = [file EXCEPT ![t.at].state = Whole(t.state)]
       /\ loose' = loose \cup {<<t.at, "state">>}
       /\ mixed' = IF "run" \in mixed THEN mixed ELSE mixed \ {t.at}
  /\ UNCHANGED <<loggerVars, synced, pc, process, backwards, starts>>

----------------------------------------------------------------------------
(* The end.                                                                *)

Finish ==
  /\ At("epoch") /\ epoch > Epochs
  /\ todo' = << ToLog("memory_watermark"), ToLog("run_end") >> /\ pc' = "stop"
  /\ UNCHANGED <<loggerVars, disk, process, past>>

\* gd_metrics_logger_stop.
Stop ==
  /\ At("stop") /\ StopRequest /\ pc' = "join"
  /\ UNCHANGED <<disk, todo, process, past>>

Return == pc = "join" /\ Cleanup /\ Gone /\ UNCHANGED <<file, loose>>

\* gpt_fail_status: exit(1), whatever the writer is doing.
GiveUp == pc = "refused" /\ CrashLogger /\ Gone /\ UNCHANGED <<file, loose>>

\* The process dies, at any point and perhaps with the machine.  A file that
\* was not synced and survives may still be lost with a later machine.
Crash ==
  /\ pc # "off" /\ CrashLogger /\ Gone
  /\ \E lost \in SUBSET loose :
       /\ file' = [p \in Paths |-> [part \in Parts |->
                     IF <<p, part>> \in lost THEN Torn ELSE file[p][part]]]
       /\ loose' = loose \ lost

MainStep ==
  \/ Load \/ LoadFails \/ NextEpoch \/ SkipShard \/ OpenShard \/ TrainStep \/ ShardDone
  \/ EpochDone \/ FinishEpoch \/ LogRecord \/ WriteTemporary \/ Rename \/ OpenState
  \/ CloseState \/ Finish \/ Return \/ GiveUp

WriterStep == Writer /\ UNCHANGED <<disk, pc, todo, process, past>>
WriterWakesUp == WriterWakes /\ UNCHANGED <<disk, pc, todo, process, past>>

Next == Start \/ MainStep \/ Stop \/ Crash \/ WriterStep \/ WriterWakesUp

\* The two threads run.  A thread that asks for the mutex again and again gets
\* it; nobody has to start the program.
Fairness == WF_vars(MainStep) /\ SF_vars(Stop) /\ WF_vars(WriterStep)

Spec     == Init /\ [][Next]_vars
FairSpec == Spec /\ Fairness

----------------------------------------------------------------------------
(* Properties.                                                             *)

Seen(s) == {s[i] : i \in DOMAIN s}
Training == pc \notin {"off", "load", "refused"}

\* Wherever the program dies, in the middle of a save too, no batch is lost to a
\* later run: model and optimizer have been trained on all the batches the step
\* counter claims, in the process and in every checkpoint that can be resumed.
\* backwards: some run was started from less than a checkpoint on the disk
\* holds; the parts of that one may then turn up among newer ones.
NothingSkipped ==
  ~backwards =>
    /\ Training => 1 .. gstep \subseteq Seen(model) \cap Seen(optim)
    /\ \A p \in Paths : (\A part \in Parts : IsWhole(p, part)) =>
         1 .. Of(p, "state").gstep \subseteq Seen(Of(p, "model")) \cap Seen(Of(p, "optim"))

\* The files of model and optimizer are whole whenever they exist, also after the
\* machine went down in the middle of replacing one.  And unless a save was cut
\* between its three files, and a run resumed from what it left (mixed), resuming
\* is exact: each batch once and in the order of a run that is never interrupted.
WholeUnlessCut ==
  /\ \A p \in Paths, part \in {"model", "optim"} : file[p][part] # Torn
  /\ Training /\ "run" \notin mixed => model = Upto(gstep) /\ optim = Upto(gstep)
  /\ \A p \in Paths \ mixed : IsWhole(p, "state") =>
       Of(p, "model") = Upto(Of(p, "state").gstep)
       /\ Of(p, "optim") = Upto(Of(p, "state").gstep)

\* The program checks at the end of an epoch that its steps add up, and gives up
\* when they do not (main.c:2882).  They do, from whatever checkpoint it was
\* resumed: shards passed over, batches skipped and batches trained are the epoch.
StepsAddUp == pc = "shard" /\ shard > Len(ShardSteps) => epochStep = Steps + 1

\* A run ends: it gives up, dies or joins the writer and returns.
RunEnds == (pc # "off") ~> (pc = "off")
=============================================================================
