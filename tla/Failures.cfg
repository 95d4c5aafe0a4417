SPECIFICATION Spec
CONSTANTS
  s = s
  a = a
  b = b
  c = c
  Client = {a, b}
  Node <- MCNode
  Server = {s}
  RelayDial = {s, a}
  BootNodes <- MCBootNodes
  SendBack <- MCSendBack
  Advertised <- MCAdvertised
  Saved <- MCChainSaved
  DialPlan <- MCDialBoot
  MaxRecord = 10
  MaxLinks = 3
  Introduces <- MCLastIdentifies
  Stimuli <- MCFailures
  MaxStimuli = 2
INVARIANTS
  RelayedAddressesOnly
PROPERTIES
  RefinesAddressBook
CHECK_DEADLOCK FALSE
