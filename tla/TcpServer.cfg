CONSTANTS
  MaxPeers = 4
  MaxDescriptors = 2
SPECIFICATION FairSpec
INVARIANTS
  ConnectionsTracked
  DescriptorsExclusive
  LeavesNothingBehind
PROPERTIES
  RemovesOnlyItself
  PeersServed
