\* The in-memory store, the in-memory cache and the mock's subscription.
SPECIFICATION MCSpec
CONSTANTS
  Owners = {a, b, c}
  Replays = {1}
  NoOwner = NoOwner
  Nil = Nil
  Ttl = 1
  Keys = {k1, k2}
  Values = {v1, v2}
  NoEntry = NoEntry
  TTL = 3
  SweepEvery = 2
  MaxTime = 8
  Foreign = Foreign
  EventType <- MCEventType
  MaxHead = 5
  MaxExpired = 0
  ConfiguredAppetite = 0
  MaxAppetite = 3
  MaxEvents = 2
  MaxEventsPerResponse = 2
  Preset = "EARLIEST"
  MaxKeepalives = 1
  MaxBreaks = 2
INVARIANTS NoStaleHolder SweepComplete DeliverySound
PROPERTIES IsFencedStore WaiterServed IsTtlMap EveryEventReached
CHECK_DEADLOCK FALSE
