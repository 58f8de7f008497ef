--------------------------- MODULE MC_TrainingRun ---------------------------
\* Values of TrainingRun's constants that a configuration file cannot write.
EXTENDS TrainingRun

MCRecords == {"run_config", "train", "checkpoint", "eval", "early_stopping",
              "memory_watermark", "run_end"}

\* Two batches, none and one: an epoch of three steps.
MCShardSteps == <<2, 0, 1>>
=============================================================================
