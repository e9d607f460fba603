SPECIFICATION Spec
CONSTANTS
  p1 = p1
  p2 = p2
  v1 = v1
  NoVmac = NoVmac
  NoRoute = NoRoute
  NoNeighbor = NoNeighbor
  Prefixes = {p1, p2}
  Neighbors = {1, 2, 3}
  Paths <- MCPaths
  Meds = {0, 1}
  Vmacs = {v1}
  Offers <- MixedOffers
SYMMETRY Symmetry
INVARIANTS BestIsAdvertised StaleBestIsBounded
PROPERTIES NoRouteSurvivesFailure DisplacedForCause
