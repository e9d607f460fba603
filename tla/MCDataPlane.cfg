SPECIFICATION DSpec
CONSTANTS
  Mods <- MCMods
  Switches = {"outbound", "inbound"}
  NoSession = NoSession
  MaxSessions = 3
  MaxPending = 1
  Threads = {"event", "policy"}
  Work <- MCWork
  MaxActive = 1
  MaxMods = 3
INVARIANTS CommandsAreFenced DatapathsAreCurrent NothingLostAlone
PROPERTIES DeliversInOrder
CHECK_DEADLOCK FALSE
