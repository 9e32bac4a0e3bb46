\* Non-nestable tasks in the order sequenced_task_runner.h promises.
CONSTANTS
  LoopPosters = {}
  ProxyPosters = {}
  Closures = {c1}
  Delays = {0, 1}
  MaxTasks = 3
  MaxDepth = 2
  MaxTime = 3
  SequenceModulus = 8
  FirstSequenceNum = 7
  PurgeLimit = 2
SPECIFICATION RunSpec
CHECK_DEADLOCK FALSE
INVARIANT SequencedTaskRunnerOrder
