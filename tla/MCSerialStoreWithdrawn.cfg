CONSTANTS
  World = {w1}
  Client = {c1}
  MaxSeasons = 1
  MaxChapters = 1
  MaxCalls = 1
SPECIFICATION Spec
PROPERTIES
  WithdrawnStaysWithdrawn
CHECK_DEADLOCK FALSE
