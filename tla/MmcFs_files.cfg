SPECIFICATION Spec
CONSTANTS
  MaxFd = 5
  NSlots = 6
  OAppend = 4
  Files = {f}
  f = f
  Cap = 1
INVARIANTS
  OwnFile
PROPERTIES
  ModeKept
  LockKept
