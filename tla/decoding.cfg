\* Schema fetches that fail in the middle of a response, and the flattening of events.
SPECIFICATION MCSpec
CONSTANTS
  s1 = s1
  s2 = s2
  NumEvents = 3
  SchemaOf <- TwoSchemas
  Corrupt <- LastEvent
  Unparsable <- NoSchemas
  InitialReplay = "EARLIEST"
  MaxAuthFailures = 3
  MaxBackoff = 3
  MaxExpiries = 2
  MaxOutages = 2
  MaxBreaks = 2
  Schemas <- EventSchemas
  MapKeys <- Keys
INVARIANTS DecoderSafe SlowsDown FlattenFaithful
PROPERTIES EventuallyCommitted
CHECK_DEADLOCK FALSE
