CONSTANTS
  air = air
  tide = tide
  seed = seed
  moon = moon
  hoax = hoax
  nasa = nasa
  noaa = noaa
  usda = usda
  MaxAttempts = 2
  MaxSteps = 1
  MaxWebSearches = 1
  Width = 2
  MaxRows = 1
  MaxClaims = 1
  Url = {moon, hoax}
  Pages = {moon}
  Files <- MCFiles
  MaxIngests = 1
  Blank = Blank
  RRF_K = 60
  Candidates = 3
  TopK = 2
  NoLedger = NoLedger
  NoGrounding = NoGrounding
SPECIFICATION Spec
CHECK_DEADLOCK FALSE
INVARIANTS SearchesWithinBudget
