SPECIFICATION Spec
CONSTANTS
  s = s
  a = a
  b = b
  c = c
  Client = {a, b}
  Node <- MCNode
  Server = {s}
  RelayDial = {s}
  BootNodes <- MCBootNodes
  SendBack <- MCSendBack
  Advertised <- MCAdvertised
  Saved <- MCSavedOther
  DialPlan <- MCDialBoot
  MaxRecord = 10
  MaxLinks = 1
  Introduces = {}
  Stimuli <- MCAll
  MaxStimuli = 2
INVARIANTS
  NoRelayPanic
CHECK_DEADLOCK FALSE
