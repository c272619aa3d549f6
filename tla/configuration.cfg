CONSTANTS
  None = None
  Kinds <- MCKinds
  MaxSaves = 2
  MaxKeys = 1
  MaxGates = 1
  MaxPanics = 1
  HandoffCapacity = 1
SPECIFICATION MCSpec
INVARIANTS
  PolicyEnforced
PROPERTIES
  SavesArrive
  IconShown
  HungStopsNothing
CHECK_DEADLOCK FALSE
