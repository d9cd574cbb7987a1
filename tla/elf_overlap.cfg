\* Two overlapping pollers, two files that fail to download or to parse now and then.
SPECIFICATION Spec
CONSTANTS
  p1 = p1
  p2 = p2
  Pollers = {p1, p2}
  Files = {1, 2}
  FileKind <- MCMixedFiles
  MaxClock = 5
  Second = 2
  Overlap = 1
  MaxDelay = 1
  InitialTimeInterval = 8
  MalformedAttempts = 2
  UnavailableAttempts = 2
  MaxFaults = 1
SYMMETRY MCSymmetry
INVARIANTS TypeOK NoFileSkipped FailedFileRetried GivenUpLate
CHECK_DEADLOCK FALSE
