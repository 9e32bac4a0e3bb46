\* Everything comes to an end: two threads, one sequence among the tasks.
CONSTANTS
  Posters = {p1}
  Tokens = {0, 1}
  Behaviors = {"SKIP_ON_SHUTDOWN", "BLOCK_SHUTDOWN"}
  MaxThreads = 2
  MaxTasks = 3
SPECIFICATION LiveSpec
PROPERTY
  TasksFinish
  OwnerReturns
  WorkersEnd
CHECK_DEADLOCK FALSE
