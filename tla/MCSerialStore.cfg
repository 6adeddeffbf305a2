CONSTANTS
  World = {w1, w2}
  Client = {c1, c2}
  MaxSeasons = 1
  MaxChapters = 1
  MaxCalls = 1
SPECIFICATION Spec
SYMMETRY Symmetry
INVARIANTS
  RowsAreContiguous
  ChaptersInApprovedWorlds
  RefusedOnlyByRace
CHECK_DEADLOCK FALSE
