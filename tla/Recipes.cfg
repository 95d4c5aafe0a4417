SPECIFICATION FairSpec
CONSTANTS
  p = p
  q = q
  plain = plain
  fancy = fancy
  Peer = {p, q}
  Local = {p}
  Name = {plain}
  DefaultNames <- MCDefaultNames
  MaxStarts = 2
  MaxCommands = 3
  MaxRequests = 2
INVARIANTS
  TypeOK
  UniqueIds
  OneWriter
PROPERTIES
  RefinesBook
  Drains
CHECK_DEADLOCK FALSE
