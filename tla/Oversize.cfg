SPECIFICATION Spec
CONSTANTS
  s = s
  a = a
  b = b
  c = c
  Client = {a, b, c}
  Node <- MCNode
  Server = {s}
  RelayDial = {s}
  BootNodes <- MCBootNodes
  SendBack <- MCSendBack
  Advertised <- MCAdvertised
  Saved <- MCNothingSaved
  DialPlan <- MCDialBoot
  MaxRecord = 1
  MaxLinks = 3
  Introduces = {}
  Stimuli <- MCAsk
  MaxStimuli = 1
SYMMETRY ClientSymmetry
INVARIANTS
  RecordsFit
CHECK_DEADLOCK FALSE
