SPECIFICATION FairSpec
CONSTANTS
  MaxSeconds = 1
  MaxCrashes = 1
INVARIANTS
  WellFormed
  PromiseOnDisk
  DismissedIsGone
PROPERTIES
  PromiseIsKept
  UserIsTold
