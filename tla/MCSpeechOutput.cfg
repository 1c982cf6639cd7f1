SPECIFICATION FairSpec
CONSTANTS
  Worker = {w1, w2}
  Ringer = {r1}
  Free = Free
  Slices = 2
  MaxFrames = 1
  FallsBehind = FALSE
INVARIANTS
  HearsOnlyTheRoom
  HeardWhole
  AtMostOneLateSlice
PROPERTIES
  EverySoundEnds
