\* Two collectors, EARLIEST bootstrap, nothing expires: the bounds of a takeover.
SPECIFICATION Spec
CONSTANTS
  c1 = c1
  c2 = c2
  Collectors = {c1, c2}
  MaxHead = 4
  EventType <- MCEventType
  Foreign = "foreign"
  MaxExpired = 0
  Presets = {"", "EARLIEST"}
  MaxEvents = 2
  MaxResp = 2
  WriteAttempts = 2
  MaxFaults = 2
  MaxProcesses = 3
  MaxResets = 0
  MaxLate = 0
SYMMETRY MCSymmetry
INVARIANTS TypeOK CheckpointCovered CleanStop OneBatchReplay
PROPERTIES CheckpointMonotone
CHECK_DEADLOCK FALSE
