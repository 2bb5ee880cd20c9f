SPECIFICATION FairSpec
CONSTANTS
  A = A
  B = B
  C = C
  D = D
  NoFile = NoFile
  Silence = Silence
  Files = {A, B, C, D}
  Supported = {A, B, D}
  Word <- MCWord
  Listing <- MCListing
  WavSize <- MCWavSize
  DataLen <- MCDataLen
  Depth = 4
  Threshold = 3
  BridgeDepth = 2
  Burst = 2
  UintMod = 64
  Faults = TRUE
  Keys = TRUE
INVARIANTS
  IInv
  NoSampleLost
  CleanStart
  ReentryOnlyInStop
  ArmedHasWork
  WithinClaim
  SendsOnlyWhatWasRead
  HungOnlyInStop
PROPERTIES
  PlaysTheFile
  StopReturns
  TrackEnds
  PlayedThrough
  EveryTrack
