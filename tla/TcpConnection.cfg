\* One connection: a buffer that fills, partial writes, every failure, user code
\* in every callback; all properties in one run.
CONSTANTS
  CacheSize = 2
  MaxBytes = 3
  MaxPending = 1
SPECIFICATION FairSpec
INVARIANTS
  StreamIntact
  SomebodySends
  NoStaleWrite
  CloseOnlyOnce
  CallbacksInOrder
  UsedIsAlive
PROPERTIES
  ForcedCloseHappens
  EventuallyReleased
  BufferDrains
