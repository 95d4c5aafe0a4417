SPECIFICATION FairSpec
CONSTANTS
  n1 = n1
  n2 = n2
  n3 = n3
  n4 = n4
  Node <- MCNode
  Local <- MCLocal
  Asker = {n1, n2, n4}
  Named = {n3}
  Record <- MCRecord
  MaxAsks = 1
  MaxFaults = 1
INVARIANTS
  TypeOK
  ViewFollowsDiscovery
  AnswersAreAsked
  HeardIsMeant
  AnswersNotLost
PROPERTIES
  RefinesBoard
  AnswersArrive
CHECK_DEADLOCK FALSE
