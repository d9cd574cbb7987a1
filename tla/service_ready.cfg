\* Two topics: what /readyz answers when their first messages arrive together.
SPECIFICATION MCSpec
CONSTANTS
  Configs <- OnlyGood
  t1 = t1
  t2 = t2
  Topics = {t1, t2}
  MaxAuthFailures = 3
  MaxFaults = 0
  FlushTimeout = 4
  LeaseTTL = 3
  MaxEvents = 2
  ResponseSize = 3
  MaxRenewFails = 3
  MaxElapsed = 21
INVARIANT ReadyWhenActive
CHECK_DEADLOCK FALSE
