\* Every use the code does not forbid, on descriptors that are reused.
CONSTANTS
  a = a
  b = b
  c = c
  Channels <- MCChannels
  fd <- MCfd
  Uses = {"disableNew", "disableTwice", "enableAgain", "pollDisabled"}
SPECIFICATION Spec
INVARIANTS
  MapMatches
  NoCtlFailure
  WatchedAsAsked
PROPERTY
  IsPoller
