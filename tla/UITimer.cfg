CONSTANTS
  Posters = {p1}
  UserTimerMinimum = 1
  MaxTasks = 1
  MaxOther = 1
  MaxLoops = 2
  MaxTime = 1
  Delays = {0, 1}
  TaskIds = {1, 2}
SPECIFICATION Spec
INVARIANTS
  TypeOK
  WorkMessageAccounted
  TimerHasTask
  RunWakesInTime
  ModalLoopServesTasks
  ModalLoopServesTimers
PROPERTIES
  NeverFiresEarly
