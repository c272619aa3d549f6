CONSTANTS
  Space = Space
  NoTarget = NoTarget
  None = None
  Letters = {a}
  Targets = {t1, t2}
  QueueCapacity = 3
  GateCapacity = 2
  MaxResumes = 1
  Worlds <- DisturbedWorlds
SPECIFICATION Spec
INVARIANTS
  TypeOK
  GateExcludesRetained
PROPERTIES
  CustodyKept
  RecoveryInOrder
