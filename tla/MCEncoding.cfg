SPECIFICATION Spec
CONSTANTS
  p1 = p1
  p2 = p2
  p3 = p3
  p4 = p4
  Prefixes = {p1, p2, p3, p4}
  Paths <- MCPaths
  MaxDepth = 3
  MaxBytes = 9
  MinPercentile = 5
  MaxFree = 500
  EncodingThreshold = 1
SYMMETRY Symmetry
INVARIANTS CodesAreKept UsesAreCounted EncodedIsTraversed PathFits
PROPERTIES LayoutIsFixed RefreshMakesRoom
CHECK_DEADLOCK FALSE
