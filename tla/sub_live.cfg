\* Liveness: up to two failures of any kind, two collectors, every published event is committed.
SPECIFICATION FairSpec
CONSTANTS
  c1 = c1
  c2 = c2
  Collectors = {c1, c2}
  MaxHead = 1
  EventType <- MCEventType
  Foreign = "foreign"
  MaxExpired = 0
  Presets = {"EARLIEST"}
  MaxEvents = 2
  MaxResp = 1
  WriteAttempts = 2
  MaxFaults = 2
  MaxProcesses = 4
  MaxResets = 0
  MaxLate = 0
PROPERTIES EventuallyCommitted LoserStops
CHECK_DEADLOCK FALSE
