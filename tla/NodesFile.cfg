SPECIFICATION Spec
CONSTANTS
  Proc = {p1, p2}
  Node = {"boot", "a"}
  Boot = {"boot"}
  Public = {"public"}
  Private = {"private"}
  MaxLearned = 2
  MaxExits = 3
  MaxCuts = 1
SYMMETRY Symmetry
INVARIANTS
  TypeOK
  ListStays
  StartParses
PROPERTIES
  LoadsLastList
CHECK_DEADLOCK FALSE
