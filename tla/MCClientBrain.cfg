SPECIFICATION FairSpec
CONSTANTS
  Worker = {w1, w2}
  MaxSessions = 2
  MaxRevisions = 2
  MaxActions = 2
CHECK_DEADLOCK FALSE
INVARIANTS
  WellFormed
  ActsOnLatestUtterance
  OnlyVerifiedActs
  AtMostOneLateAction
PROPERTIES
  SentOnceInOrder
  EverythingEnds
  EveryActionIsAnswered
