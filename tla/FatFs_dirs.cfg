SPECIFICATION Spec
CONSTANTS
  Fat32 = TRUE
  NFats = 2
  FatSize = 2
  PerFat = 4
  CSize = 1
  SS = 2
  NRoot = 0
  FileLimit = 134217728
  NClusters = 6
  Names <- MCNames
  Slots <- MCSlots
  Stem <- MCStem
  Path <- MCPath
  Folder <- MCFolder
  Handle = {h1}
  NoPath = NoPath
  MaxPaths = 4
  MaxMoves = 1
  WriteLens = {1}
  ReadLens = {}
  Offsets = {}
  Modes = {"ALWAYS"}
  Accesses = {{"WRITE"}}
  Uses = {"rename"}
  Listed <- MCRoot
  Fuses = {1, 2, 3, 4, 5, 6, 7, 8, 9, 10, 11, 12, 13, 14, 15, 16, 17, 18, 19, 20}
  Dead = {TRUE}
INVARIANTS
  ChainsSound
  FatInv
PROPERTIES
  ListsAll
  StoresFiles
CHECK_DEADLOCK FALSE
