SPECIFICATION Spec
CONSTANTS
  Fat32 = TRUE
  NFats = 2
  FatSize = 2
  PerFat = 4
  CSize = 2
  SS = 2
  NRoot = 0
  FileLimit = 134217728
  NClusters = 4
  Names <- MCNames
  Slots <- MCSlots
  Stem <- MCStem
  Path <- MCTwo
  Folder = {}
  Handle = {h1}
  NoPath = NoPath
  MaxPaths = 3
  MaxMoves = 3
  WriteLens = {5}
  ReadLens = {5}
  Offsets = {0, 5}
  Modes = {"ALWAYS"}
  Accesses = {{"READ", "WRITE"}}
  Uses = {}
  Listed = {}
  Fuses = {1, 2, 3}
  Dead = {FALSE}
PROPERTIES
  KeepsTheRest
CHECK_DEADLOCK FALSE
