\* Two topics and four failures; every configuration near a good one; a shutdown in ticks.
SPECIFICATION MCSpec
CONSTANTS
  Configs <- NearGood
  t1 = t1
  t2 = t2
  Topics = {t1, t2}
  MaxAuthFailures = 3
  MaxFaults = 4
  FlushTimeout = 4
  LeaseTTL = 3
  MaxEvents = 2
  ResponseSize = 3
  MaxRenewFails = 3
  MaxElapsed = 21
INVARIANTS AcceptedRuns ServiceSafe ShutdownSafe
PROPERTIES BadCredentialsStop FirstErrorStopsAll SignalEnds
CHECK_DEADLOCK FALSE
