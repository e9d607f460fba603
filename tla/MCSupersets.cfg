SPECIFICATION Spec
CONSTANTS
  Prefixes = {p1, p2, p3}
  Parts = {1, 2, 3}
  PeersOut = {1, 2}
  InitialPolicies <- MCPolicies
  Changes <- MCChanges
  MaxBits = 3
  Spare = 1
  MaxUpdates = 7
SYMMETRY Alike
INVARIANTS DivertsOnlyToAdvertisers RulesAreCurrent FirstSupersetApplies PackingServesAll
CHECK_DEADLOCK FALSE
