CONSTANTS
  Space = Space
  NoTarget = NoTarget
  None = None
  Letters = {}
  Targets = {t1}
  QueueCapacity = 3
  GateCapacity = 2
  MaxResumes = 0
  Worlds <- LivenessWorlds
SPECIFICATION FairSpec
PROPERTIES
  NothingStaysHeld
