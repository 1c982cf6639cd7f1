SPECIFICATION FairSpec
CONSTANTS
  MaxUtterance = 3
  PreRoll = 1
  Margin = 1
  MaxSessions = 2
  MaxContinued = 1
INVARIANTS
  EndsAgree
  OwnAudioOnly
  FinalIsAwaited
  RefusesOnlyAfterGap
PROPERTIES
  InputEnds
