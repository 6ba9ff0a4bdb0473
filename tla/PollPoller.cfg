CONSTANTS
  a = a
  b = b
  c = c
  Channels <- MCChannels
  fd <- MCfd
  Uses = {"pollDisabled", "disableTwice"}
SPECIFICATION Spec
INVARIANT
  EntriesMatch
PROPERTY
  IsPoller
