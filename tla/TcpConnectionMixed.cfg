CONSTANTS
  CacheSize = 2
  MaxBytes = 3
  MaxPending = 1
SPECIFICATION Spec
INVARIANT
  SendAsserts
