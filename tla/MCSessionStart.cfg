SPECIFICATION Spec
CONSTANTS
  Confirmations = 2
  Rearm = 1
  Cooldown = 3
  PreRoll = 6
  Lead = 2
  Pause = 1
  MaxUtterance = 3
  Continuation = 2
  MaxActions = 1
INVARIANTS
  SessionStartsClean
