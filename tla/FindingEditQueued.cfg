SPECIFICATION Spec
CONSTANTS
  r1 = r1
  h1 = h1
  h2 = h2
  Rows = {r1}
  Handlers = {h1, h2}
  Crews <- OneAuthor
  Idle = Idle
  Modes = {"required_internal"}
  MAX_REMINDERS = 1
  MaxEdits = 1
  MaxKills = 0
CHECK_DEADLOCK FALSE
PROPERTIES
  EditsAreReviewed
