\* Shutdown completes what is in progress, as SKIP_ON_SHUTDOWN says.
CONSTANTS
  Posters = {p1}
  Tokens = {0, 1}
  Behaviors = {"SKIP_ON_SHUTDOWN", "BLOCK_SHUTDOWN"}
  MaxThreads = 2
  MaxTasks = 3
SPECIFICATION Spec
INVARIANT SkipInProgressCompletes
CHECK_DEADLOCK FALSE
