\* The first poll fails and no watermark is stored yet: the window moves on.
SPECIFICATION Spec
CONSTANTS
  p1 = p1
  p2 = p2
  Pollers = {p1}
  Files = {1, 2}
  FileKind <- MCGoodFiles
  MaxClock = 7
  Second = 2
  Overlap = 2
  MaxDelay = 2
  InitialTimeInterval = 2
  MalformedAttempts = 2
  UnavailableAttempts = 2
  MaxFaults = 1
INVARIANTS FailedFileRetried
CHECK_DEADLOCK FALSE
