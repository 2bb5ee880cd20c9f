SPECIFICATION Spec
CONSTANTS
  A = A
  B = B
  C = C
  D = D
  NoFile = NoFile
  Silence = Silence
  Files = {A, B, C, D}
  Supported = {A, B, D}
  Word <- MCWord
  Listing <- MCListing
  WavSize <- MCWavSize
  DataLen <- MCDataShort
  Depth = 8
  Threshold = 6
  BridgeDepth = 3
  Burst = 2
  UintMod = 64
  Faults = FALSE
  Keys = FALSE
INVARIANTS
  SendsOnlyWhatWasRead
