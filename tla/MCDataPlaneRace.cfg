SPECIFICATION DSpec
CONSTANTS
  Mods <- MCMods
  Switches = {"outbound", "inbound"}
  NoSession = NoSession
  MaxSessions = 3
  MaxPending = 1
  Threads = {"event", "policy"}
  Work <- MCWork
  MaxActive = 2
  MaxMods = 2
CHECK_DEADLOCK FALSE
INVARIANTS
    ArrivesChronologically
