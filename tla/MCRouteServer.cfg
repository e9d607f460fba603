SPECIFICATION PipelineSpec
CONSTANTS
  pA = pA
  pB = pB
  pC = pC
  a1 = a1
  ca1 = ca1
  ca2 = ca2
  cb1 = cb1
  cc1 = cc1
  x = x
  y = y
  Participants = {pA, pB, pC}
  Ports = {a1}
  Prefixes = {x, y}
  Conns = {ca1, cb1, cc1}
  ConnOf <- MCConnOf
  OwnerOf <- MCOwnerOf
  PeersIn <- MCPeersIn
  PeersOut <- MCPeersOut
  NoConn = NoConn
  NoParticipant = NoParticipant
  MaxCrashes = 0
  EncodingThreshold = 2
  BurstStart = 1
  MaxUpdates = 3
  MaxFR = 1
SYMMETRY Symmetry
INVARIANTS PeeringRespected NewestComesLast DownIsNotOvertaken ReadRoutesMultiplexed
CHECK_DEADLOCK FALSE
