SPECIFICATION FairSpec
CONSTANTS
  r1 = r1
  h1 = h1
  h2 = h2
  Rows = {r1}
  Handlers = {h1, h2}
  Crews <- MCCrews
  Idle = Idle
  Modes = {"required_internal_and_client"}
  MAX_REMINDERS = 1
  MaxEdits = 1
  MaxKills = 1
CHECK_DEADLOCK FALSE
INVARIANTS
  
  RemindersBounded
PROPERTIES
  StalledIsEscalated
