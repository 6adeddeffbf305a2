CONSTANTS
  MaxAttempts = 3
  MaxProseRevisions = 2
  MaxReviews = 1
  PageCount = 2
  Comment = {c1}
  fact = fact
  craft = craft
  unknown = unknown
  web = web
  corpus = corpus
  forged = forged
  Facts <- MCFacts
  Store <- MCStore
  WebId <- MCWebId
  NoLedger = NoLedger
  NoGrounding = NoGrounding
SPECIFICATION Spec
INVARIANTS
  ReturnedDraftIsSafe
  UnsafeOnlyWhenAllDraftsAre
  GroundingResolves
PROPERTIES
  Terminates
  ReturnsBestDraft
CHECK_DEADLOCK FALSE
