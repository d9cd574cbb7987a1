\* LATEST bootstraps, retention, an operator reset and late commits.
SPECIFICATION Spec
CONSTANTS
  c1 = c1
  c2 = c2
  Collectors = {c1, c2}
  MaxHead = 1
  EventType <- MCEventType
  Foreign = "foreign"
  MaxExpired = 1
  Presets = {"LATEST"}
  MaxEvents = 1
  MaxResp = 1
  WriteAttempts = 1
  MaxFaults = 2
  MaxProcesses = 4
  MaxResets = 1
  MaxLate = 1
SYMMETRY MCSymmetry
PROPERTIES KeepsPromise
CHECK_DEADLOCK FALSE
