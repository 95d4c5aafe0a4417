SPECIFICATION FairSpec
CONSTANTS
  s = s
  a = a
  b = b
  c = c
  Client = {a, b, c}
  Node <- MCNode
  Server = {s}
  RelayDial = {s}
  BootNodes <- MCBootNodes
  SendBack <- MCSendBack
  Advertised <- MCPublicAdvertised
  Saved <- MCChainSaved
  DialPlan <- MCChainDial
  MaxRecord = 10
  MaxLinks = 6
  Introduces <- MCChainIdentify
  Stimuli = {}
  MaxStimuli = 0
PROPERTIES
  Quiescence
  ExchangesRunDown
  RefinesAddressBook
CHECK_DEADLOCK FALSE
