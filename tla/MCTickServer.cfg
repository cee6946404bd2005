SPECIFICATION FairSpec
CONSTANTS
  NThreads = 2
  Datagrams <- SomeDatagrams
  Traffic <- SomeTraffic
  PipeCap = 1
  SockBuf = 2
  MaxDatagrams = 5
  Nil = Nil
INVARIANTS QueuesSound InTurn Resync NoDoubleRelay
PROPERTIES Relayed
