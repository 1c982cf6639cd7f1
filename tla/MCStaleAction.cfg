SPECIFICATION Spec
CONSTANTS
  Worker = {w1, w2}
  MaxSessions = 2
  MaxRevisions = 1
  MaxActions = 1
CHECK_DEADLOCK FALSE
INVARIANTS
  StaleNeverActs
