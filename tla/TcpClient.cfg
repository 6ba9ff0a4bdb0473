\* Two attempts of one client: they overlap, and either may fail in every way.
CONSTANT MaxConnects = 2
SPECIFICATION FairSpec
INVARIANTS
  AnswersReachClient
  AnsweredOnce
  SocketsAccounted
  ChannelOutlivesEvent
  ClosesIntoClient
PROPERTIES
  AttemptAnswered
  ChannelsAreReset
