SPECIFICATION Spec
CONSTANTS
  A = A
  B = B
  C = C
  D = D
  NoFile = NoFile
  Silence = Silence
  Files = {A, B, C, D}
  Supported = {A, B, D}
  Word <- MCWord
  Listing <- MCListing
  WavSize <- MCWavSize
  DataLen <- MCDataLen
  Depth = 4
  Threshold = 3
  BridgeDepth = 2
  Burst = 2
  UintMod = 64
  Faults = FALSE
  Keys = TRUE
INVARIANTS
  DispatchFinds
