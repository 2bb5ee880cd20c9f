SPECIFICATION Spec
CONSTANTS
  HTotal = 14
  HSync = 1
  HBackp = 1
  HActive = 8
  VTotal = 4
  VSync = 1
  VBackp = 0
  VActive = 2
  Offset = 10
  Pages = {100}
  BusEdges = {1, 2}
  PeriEdges = {1}
INVARIANT PictureRight
PROPERTY LateReported
