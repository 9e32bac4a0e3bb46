\* The life and death of a loop, one nested Run deep, two ways of posting to it;
\* what is posted to it is run in the end.
CONSTANTS
  LoopPosters = {p1}
  ProxyPosters = {p2}
  Closures = {c1}
  Delays = {0, 1}
  MaxTasks = 2
  MaxDepth = 2
  MaxTime = 2
  SequenceModulus = 8
  FirstSequenceNum = 0
  PurgeLimit = 2
SPECIFICATION LiveSpec
CHECK_DEADLOCK FALSE
INVARIANTS
  NoLostWakeup
  NeverOversleeps
  NothingOutlivesTheLoop
PROPERTIES
  ImplementsSequencedTaskRunner
  NestableEventuallyRuns
  NonNestableEventuallyRuns
