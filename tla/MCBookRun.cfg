CONSTANTS
  PageCount = 2
  MaxAttempts = 2
  MaxConcurrentSpeech = 2
  MaxConcurrentClips = 1
  Duration <- MCDuration
  FrameTicks = 4
  MaxVanished = 1
SPECIFICATION Spec
CHECK_DEADLOCK FALSE
INVARIANTS MetaTellsTheTruth SoundIsThePages FilmIsThePages FilmKeepsPace
PROPERTIES Terminates
