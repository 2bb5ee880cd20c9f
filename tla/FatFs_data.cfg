SPECIFICATION Spec
CONSTANTS
  Fat32 = FALSE
  NFats = 2
  FatSize = 2
  PerFat = 4
  CSize = 2
  SS = 2
  NRoot = 4
  FileLimit = 12
  NClusters = 3
  Names <- MCNames
  Slots <- MCSlots
  Stem <- MCStem
  Path <- MCTwo
  Folder = {}
  Handle = {h1, h2}
  NoPath = NoPath
  MaxPaths = 3
  MaxMoves = 2
  WriteLens = {5}
  ReadLens = {5}
  Offsets = {1, 7}
  Modes = {"EXISTING", "CREATE"}
  Accesses = {{"READ"}, {"READ", "WRITE"}}
  Uses = {"getfree", "chmod"}
  Listed = {}
  Fuses = {1, 2, 3, 4, 5, 6, 7, 8, 9, 10, 11, 12}
  Dead = {TRUE}
INVARIANTS
  ChainsSound
  FatConsistent
PROPERTIES
  StoresFiles
CHECK_DEADLOCK FALSE
SYMMETRY MCSymmetry
