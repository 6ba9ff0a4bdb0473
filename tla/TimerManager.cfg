CONSTANTS
  Timers = {a, b}
  Delays = {5, 9}
  None = None
  GRANULARITY = 2
  WHEEL_SIZE1 = 2
  WHEEL_SIZE2 = 2
  WHEEL_NUM = 3
  Steps = {3}
  MaxClock = 13
  MaxLag = 4
SYMMETRY TimerSymmetry
SPECIFICATION Spec
INVARIANTS
  EachInOnePlace
  NotTooLate
  EarlyOnlyByLag
