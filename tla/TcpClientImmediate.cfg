CONSTANT MaxConnects = 1
SPECIFICATION FairSpec
PROPERTY
  EveryConnectAnswered
