SPECIFICATION FairPipelineSpec
CONSTANTS
  y = y
  cc1 = cc1
  pC = pC
  pA = pA
  pB = pB
  a1 = a1
  ca1 = ca1
  ca2 = ca2
  cb1 = cb1
  x = x
  Participants = {pA, pB}
  Ports = {a1}
  Prefixes = {x}
  Conns = {ca1, ca2, cb1}
  ConnOf <- MCConnOf
  OwnerOf <- MCOwnerOf
  PeersIn <- MCPeersIn
  PeersOut <- MCPeersOut
  NoConn = NoConn
  NoParticipant = NoParticipant
  MaxCrashes = 1
  EncodingThreshold = 1
  BurstStart = 1
  MaxUpdates = 2
  MaxFR = 1
CHECK_DEADLOCK FALSE
INVARIANTS PortsOfRegistered PortsLostOnlyToOldSession SenderSurvives
PROPERTIES CrashedIsForgotten AcceptedIsServed EventuallyDrained
