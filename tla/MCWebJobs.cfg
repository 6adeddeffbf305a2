CONSTANTS
  p = p
  q = q
  r = r
  ps = ps
  qs = qs
  Job = {j1, j2}
  Premise = {p, r}
  Slug <- MCSlug
  EmptySlug = EmptySlug
  Tab = {t1}
  Nothing = Nothing
  MaxSpawns = 3
  MaxTime = 1
  MaxRestarts = 1
  DiskFaults = TRUE
SPECIFICATION Spec
INVARIANTS
  OneWorkerPerJob
  PlanShownIsCurrent
  BooksWereApproved
  CompleteMeansSaved
PROPERTIES
  ListedBooksStay
  JobsSettle
CHECK_DEADLOCK FALSE
