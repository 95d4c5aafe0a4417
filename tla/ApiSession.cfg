SPECIFICATION Spec
CONSTANTS
  Thread = {t1, t2}
  MaxCalls = 3
SYMMETRY ThreadSymmetry
INVARIANTS
  TypeOK
  SwarmBringsRuntime
  OneInitialise
  ListenersLive
  DefaultNeedsBootNodes
CHECK_DEADLOCK FALSE
