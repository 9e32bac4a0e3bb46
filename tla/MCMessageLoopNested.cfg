\* Two Runs deep, no other posting thread, tasks that post, quit and nest,
\* delayed ones with equal closures or not.
CONSTANTS
  LoopPosters = {}
  ProxyPosters = {}
  Closures = {c1, c2}
  Delays = {0, 1}
  MaxTasks = 3
  MaxDepth = 2
  MaxTime = 3
  SequenceModulus = 8
  FirstSequenceNum = 7
  PurgeLimit = 2
SPECIFICATION RunSpec
CHECK_DEADLOCK FALSE
INVARIANTS
  TypeOK
  EachTaskOnce
  ReentrancyProtected
  NeverOversleeps
PROPERTIES
  NeverEarly
  QuitDrains
  ImplementsSequencedTaskRunner
