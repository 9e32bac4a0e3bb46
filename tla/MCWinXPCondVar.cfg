\* Two threads that wait, with a limit or without; three that signal and destroy.
CONSTANTS
  Waiters = {t1, t2}
  Callers = {t2, t3, t4}
  NoThread = NoThread
SPECIFICATION Spec
INVARIANTS
  TypeOK
  EventsAccounted
  NoLostSignal
  DestroyedAlone
PROPERTIES
  NoSpuriousWakeup
  ImplementsConditionVariable
CHECK_DEADLOCK FALSE
