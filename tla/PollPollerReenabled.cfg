CONSTANTS
  a = a
  b = b
  c = c
  Channels <- MCChannels
  fd <- MCfd
  Uses = {"enableAgain"}
SPECIFICATION Spec
INVARIANT
  WatchedAsAsked
