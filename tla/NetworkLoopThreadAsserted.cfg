CONSTANTS
  Threads = {t1}
  Functors = {f1, f2}
  Channels = {c1}
  WakeupChannel = wakeup
  None = None
SPECIFICATION ThreadSpec
INVARIANTS
  LoopAsserted
CHECK_DEADLOCK FALSE
