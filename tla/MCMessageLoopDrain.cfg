\* RunAllPending in a nested loop, as message_loop.h describes it.
CONSTANTS
  LoopPosters = {}
  ProxyPosters = {}
  Closures = {c1}
  Delays = {0, 1}
  MaxTasks = 3
  MaxDepth = 2
  MaxTime = 3
  SequenceModulus = 8
  FirstSequenceNum = 7
  PurgeLimit = 2
SPECIFICATION RunSpec
CHECK_DEADLOCK FALSE
PROPERTY QuitDrainsAllRunnable
