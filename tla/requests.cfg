\* Two collectors that share a token and follow pages; a download that stalls or breaks off.
SPECIFICATION MCSpec
CONSTANTS
  Clients = {a, b}
  Tokens = {t1, t2, t3, t4}
  NoToken = NoToken
  AuthConfigs <- AllLogins
  QueryPageSize = 1
  MaxPages = 2
  MaxRows = 3
  Truncating = {FALSE, TRUE}
  MaxExpiries = 1
  MaxFaults = 1
  FileLength = 3
  Stall = 3
  MaxPause = 2
INVARIANTS QuerySound DownloadSafe
PROPERTIES EventuallyComplete DownloadEnds
CHECK_DEADLOCK FALSE
