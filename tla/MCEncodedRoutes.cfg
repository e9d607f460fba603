SPECIFICATION RSpec
CONSTANTS
  p1 = p1
  p2 = p2
  p3 = p3
  p4 = p4
  Prefixes = {p1, p2, p3, p4}
  Paths <- MCPaths
  MaxDepth = 3
  MaxBytes = 9
  MinPercentile = 5
  MaxFree = 500
  EncodingThreshold = 1
  NoVmac = NoVmac
CHECK_DEADLOCK FALSE
SYMMETRY Symmetry
INVARIANTS OthersAreNotRerouted
