\* Two overlapping pollers; two queries on an object; two writers beside a verifier; three files.
SPECIFICATION MCSpec
CONSTANTS
  p1 = p1  p2 = p2
  Pollers = {p1, p2}
  Rows = {r1, r2}
  Keyed = {r1}
  MaxClock = 4
  MaxChanges = 2
  Second = 2
  Overlap = 1
  MaxDelay = 1
  InitialTimeInterval = 2
  PerObject = 1
  MaxFaults = 1
  MaxCopies = 5
  Records = {"r1", "r2"}
  Text <- MCText
  QueryConfigs <- MCQueryConfigs
  MaxStamp = 2
  w1 = w1  w2 = w2
  Keys = {k1, k2}
  Undated = {}
  Writers = {w1, w2}
  MaxWrites = 3
  MaxMishaps = 3
  Strict = FALSE
  o1 = o1  o2 = o2  d1 = d1  d2 = d2
  Objects = {o1, o2}
  Partitions = {d1, d2}
  PartitionOf <- MCPartitionOf
  DirsAtStart <- MCDirsAtStart
  MaxLosses = 2
  MaxFailures = 2
SYMMETRY MCSymmetry
INVARIANTS NoRowSkipped CopiesBounded RowsToldApart BucketSound VerifierTruthful FilesSafe
CHECK_DEADLOCK FALSE
