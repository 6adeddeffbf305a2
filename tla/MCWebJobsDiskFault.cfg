CONSTANTS
  p = p
  q = q
  r = r
  ps = ps
  qs = qs
  Job = {j1}
  Premise = {p}
  Slug <- MCSlug
  EmptySlug = EmptySlug
  Tab = {t1}
  Nothing = Nothing
  MaxSpawns = 2
  MaxTime = 0
  MaxRestarts = 0
  DiskFaults = TRUE
SPECIFICATION Spec
PROPERTY EveryExceptionFailsTheJob
CHECK_DEADLOCK FALSE
