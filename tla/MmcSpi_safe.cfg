SPECIFICATION FairSpec
CONSTANTS
  Words = 2
  WordBytes = 2
  ByteCycles = 3
  MaxTimer = 12
  ReadWait = 2
  Timeout = 12
  Moment = 3
  Latency = 2
INVARIANTS
  IInv
  DoneIsOurs
  NoByteIgnored
  BlockIntact
  FailsForAReason
  ReceivedByteIsFresh
  LateBlockGone
PROPERTIES
  SelectedAsAsked
  DmaRecvReturns
