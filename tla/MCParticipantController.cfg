SPECIFICATION CSpec
CONSTANTS
  p1 = p1
  p2 = p2
  v1 = v1
  v2 = v2
  B = B
  C = C
  D = D
  NoVmac = NoVmac
  NoRoute = NoRoute
  NoNeighbor = NoNeighbor
  NoPart = NoPart
  NoGroup = NoGroup
  NoVNH = NoVNH
  Spilled = Spilled
  ActiveParts = {C, D}
  Misfits <- MCMisfits
  Prefixes = {p1, p2}
  Neighbors = {1, 2, 3, 4}
  Parts = {B, C, D}
  PartOf <- MCPartOf
  Paths <- MCPaths
  Meds = {0}
  Vmacs = {v1, v2}
  Offers <- MixedOffers
  MaxDepth = 3
  NbBits = 1
  NumVNHs = 4
  PortIPs = {2}
SYMMETRY Symmetry
INVARIANTS RoutersReachBest GroupsAreCurrent VmacBackupsAdvertise
PROPERTIES WithdrawnAsAnnounced StepsOfPeer
CHECK_DEADLOCK FALSE
