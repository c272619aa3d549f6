CONSTANTS
  Space = Space
  NoTarget = NoTarget
  None = None
  Letters = {}
  Targets = {t1}
  QueueCapacity = 4
  GateCapacity = 2
  MaxResumes = 1
  Worlds <- StaleWorlds
SPECIFICATION Spec
PROPERTIES
  RecordLeavesWhole
