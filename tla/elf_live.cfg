\* Every file is accounted for: a poison file, a refused file and a good one.
SPECIFICATION FairSpec
CONSTANTS
  p1 = p1
  p2 = p2
  Pollers = {p1}
  Files = {1, 2, 3}
  FileKind <- MCFileKind
  MaxClock = 3
  Second = 1
  Overlap = 1
  MaxDelay = 1
  InitialTimeInterval = 8
  MalformedAttempts = 2
  UnavailableAttempts = 2
  MaxFaults = 1
PROPERTIES EveryFileAccounted
CHECK_DEADLOCK FALSE
