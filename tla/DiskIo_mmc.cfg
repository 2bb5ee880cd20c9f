SPECIFICATION Spec
CONSTANTS
  Big = Big
  Mid = Mid
  Old = Old
  Mmc = Mmc
  NoCard = NoCard
  Cards = {Mmc}
  Kind <- MCMmcKind
  Locked = {}
  First = {Mmc}
  NSectors = 4
  BL = 2
  InitTries = 4
  MaxIdle = 1
  Sectors = {0}
  Counts = {1}
  MaxCalls = 2
  MaxSwaps = 0
  MaxFaults = 0
INVARIANTS
  MmcStarts
CHECK_DEADLOCK FALSE
