SPECIFICATION FairSpec
CONSTANTS
  Worker = {w1}
  Ringer = {}
  Free = Free
  Slices = 2
  MaxFrames = 1
  FallsBehind = TRUE
PROPERTIES
  NormalReplyIsMuted
