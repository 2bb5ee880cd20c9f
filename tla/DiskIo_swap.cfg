SPECIFICATION Spec
CONSTANTS
  Big = Big
  Mid = Mid
  Old = Old
  Mmc = Mmc
  NoCard = NoCard
  Cards = {Big, Mid, Old}
  Kind <- MCKind
  Locked = {Old}
  First = {Big, Mid}
  NSectors = 4
  BL = 2
  InitTries = 2
  MaxIdle = 2
  Sectors = {0, 2}
  Counts = {0, 1, 2}
  MaxCalls = 5
  MaxSwaps = 2
  MaxFaults = 1
INVARIANTS
  ReadRight
  SyncSettles
PROPERTIES
  WriteRight
CHECK_DEADLOCK FALSE
