\* Three threads, an outside poster, tasks with and without a sequence that
\* post more, flushes and a shutdown at any time.
CONSTANTS
  Posters = {p1}
  Tokens = {0, 1}
  Behaviors = {"SKIP_ON_SHUTDOWN", "BLOCK_SHUTDOWN"}
  MaxThreads = 3
  MaxTasks = 3
SPECIFICATION Spec
INVARIANT
  TypeOK
  ShutdownWaitsForBlockers
  NoThreadLeaked
  DeletedInSequence
  WorkConserving
PROPERTY
  FlushMeansDone
  ImplementsSequencedTaskRunner
CHECK_DEADLOCK FALSE
