SPECIFICATION FairSpec
CONSTANTS
  MaxLines = 1
  MaxFrames = 2
INVARIANTS
  TypeOK
  NeverDeaf
  CloseNotLost
PROPERTIES
  QuitLeaves
  SessionEnds
  LoopServes
CHECK_DEADLOCK FALSE
