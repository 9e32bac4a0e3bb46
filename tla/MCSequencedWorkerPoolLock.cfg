\* Dropped closures are deleted outside the lock, as GetWork says.
CONSTANTS
  Posters = {p1}
  Tokens = {0, 1}
  Behaviors = {"SKIP_ON_SHUTDOWN", "BLOCK_SHUTDOWN"}
  MaxThreads = 2
  MaxTasks = 3
SPECIFICATION Spec
INVARIANT DeletedOutsideLock
CHECK_DEADLOCK FALSE
