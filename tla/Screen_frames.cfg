SPECIFICATION FairSpec
CONSTANTS
  XSize = 6
  YSize = 11
  RomFont <- MCRomFont
  AsciiFont <- MCAscii
  KanjiFont <- MCKanji
  IntMax = 2147483647
  Edge = 1
  Half = 4
  RowDiv = 16384
  Glow = 254
  Bmps <- MCBmps
  Junk <- MCJunk
  Heard <- MCHeard
  MaxLoud = 2
  Broken = {0, 3}
  Calls <- MCCalls
  Pens <- MCPens
INVARIANTS
  PictureKept
PROPERTIES
  DrawsShape
  FadesOut
CHECK_DEADLOCK FALSE
