SPECIFICATION Spec
CONSTANTS
  Parts = {1, 2, 3, 4}
  HasOutbound = {1}
  HasInbound = {2, 3}
  Ports <- MCPorts
  WebPort <- MCWebPort
  Size = 15
  Isdx = 6
  NextHopBits = 3
  PortBits = 1
  MaxDepth = 3
  TagBits = 2
  Bits <- MCBits
  Tags <- MCTags
  Classes <- MCClasses
  Policies <- MCPolicies
  Failures <- MCFailures
  MaxReroutes = 5
INVARIANTS DeliveredAsIntended RerouteHolds OnlyFalseIsDropped NeverLoops
