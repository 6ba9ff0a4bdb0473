CONSTANTS
  kCheapPrepend = 2
  CacheSize = 4
  Period = 6
SPECIFICATION Spec
PROPERTY
  IsByteQueue
