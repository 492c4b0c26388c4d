SPECIFICATION MCSpec
CONSTANTS
  d1 = d1
  failed = failed
  s1 = s1
  s2 = s2
  NoSweep = NoSweep
  Deliveries = {d1}
  EventTypes = {failed}
  TypeOf <- OneType
  Sweeps = {s1, s2}
  MAX_RETRY_ATTEMPTS = 2
  BATCH_CLAIM_TIMEOUT = 0
  MaxSweepAge = 1
  MaxKills = 2
  p1 = p1
  p2 = p2
  Gone = {p2}
  BatchSize = 1
  MaxBackoff = 4
CHECK_DEADLOCK FALSE
INVARIANTS
  CopiesBounded
  OneMailer
PROPERTIES
  QueuedSettles
  SentAloneSettles
  EveryPostIsReached
