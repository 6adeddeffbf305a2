CONSTANTS
  MaxAttempts = 3
  MaxOutlineRevisions = 2
  MaxReviews = 2
  BeatCount = 1
  Comment = {c1}
  Character = {kit}
  Look = {grey, white}
  fact = fact
  web = web
  corpus = corpus
  url = url
  forged = forged
  Facts <- MCFacts
  Ledgers <- MCLedgers
  Unasked <- MCUnasked
  Store <- MCStore
  WebId <- MCWebId
  NoLedger = NoLedger
  NoGrounding = NoGrounding
  NoPlan = NoPlan
SPECIFICATION Spec
INVARIANTS
  ResearchedGroundingIsVouched
  EveryPlanIsBriefed
  ConflictsAreReported
PROPERTIES
  EnrichmentFailsOpen
  Terminates
  ReturnsBestPlan
CHECK_DEADLOCK FALSE
