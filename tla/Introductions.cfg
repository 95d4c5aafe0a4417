SPECIFICATION FairSpec
CONSTANTS
  s = s
  a = a
  b = b
  c = c
  Client = {a, b, c}
  Node <- MCNode
  Server = {s}
  RelayDial = {s}
  BootNodes <- MCBootNodes
  SendBack <- MCSendBack
  Advertised <- MCAdvertised
  Saved <- MCNothingSaved
  DialPlan <- MCDialBoot
  MaxRecord = 10
  MaxLinks = 3
  Introduces <- MCClientsIdentify
  Stimuli = {}
  MaxStimuli = 0
INVARIANTS
  TypeOK
  NoSelfTalk
  AddressesLeadHome
  RecordsArePublic
  IntroductionsAreMutual
PROPERTIES
  IntroducedMeet
CHECK_DEADLOCK FALSE
