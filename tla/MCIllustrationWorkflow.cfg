CONSTANTS
  MaxAttempts = 3
  PageCount = 2
  Character = {kit, moth}
  MaxCharacters = 2
  MaxReferences = 2
  MaxConcurrent = 2
  NoPlan = NoPlan
SPECIFICATION Spec
INVARIANTS
  RecordIsHonest
  NoRejectedReference
PROPERTIES
  FailsSoft
  Terminates
CHECK_DEADLOCK FALSE
