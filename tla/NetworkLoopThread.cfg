CONSTANTS
  Threads = {t1, t2}
  Functors = {f1, f2}
  Channels = {c1, c2}
  WakeupChannel = wakeup
  None = None
SPECIFICATION ThreadSpec
INVARIANTS
  NoLostWakeup
  NoStaleDispatch
  LoopPublished
  NoDeadLoop
  DestructorWaits
PROPERTIES
  IsFunctorQueue
  WokenFunctorRuns
  IOServed
  JoinReturns
CHECK_DEADLOCK FALSE
